----------------------------- MODULE Disassembly -----------------------------
(***************************************************************************)
(* What a disassembler promises: main and every method that a translated   *)
(* one calls are translated, each in one step and with exactly the         *)
(* instructions it can reach; it gives up only over a method it needs and  *)
(* that is out of order.                                                   *)
(***************************************************************************)
EXTENDS Bytecode

VARIABLES
    binary,    \* the binary
    methods,   \* the translated methods, each with its offsets
    status     \* "working", "done" or "failed"

vars == <<binary, methods, status>>

Init ==
    /\ IsBinary(binary)
    /\ methods = [f \in {} |-> {}]
    /\ status = "working"

wanted == {Main} \cup UNION {callees(binary, methods[f]) : f \in DOMAIN methods}

Translate(f) ==
    /\ status = "working"
    /\ f \in wanted \ DOMAIN methods
    /\ DOMAIN methods' = DOMAIN methods \cup {f}
    /\ \A g \in DOMAIN methods : methods'[g] = methods[g]
    /\ Covers(binary, f, methods'[f])
    /\ UNCHANGED <<binary, status>>

Finish ==
    /\ status = "working"
    /\ wanted \subseteq DOMAIN methods
    /\ status' = "done"
    /\ UNCHANGED <<binary, methods>>

Fail ==
    /\ status = "working"
    /\ \E f \in wanted \ DOMAIN methods : ~ Translatable(binary, f)
    /\ status' = "failed"
    /\ UNCHANGED <<binary, methods>>

Next == (\E f \in wanted : Translate(f)) \/ Finish \/ Fail

Spec == Init /\ [][Next]_vars

=============================================================================
