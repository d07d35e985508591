---------------------------- MODULE IjvmFrontend ----------------------------
(***************************************************************************)
(* The front end that reads an IJVM binary (src/src/frontends/ijvm/        *)
(* compile.cpp).  ijvm_main_local_count walks main to learn how many       *)
(* variables it has; ijvm_compile_method walks main, and then every method *)
(* that a call names, and hands each instruction to the assembler.  Both   *)
(* follow one linear trail at a time and keep jump targets on a stack.     *)
(*                                                                         *)
(* One action is one instruction, or one turn of a loop around it.         *)
(***************************************************************************)
EXTENDS Bytecode, Sequences, SequencesExt

CONSTANTS
    Binaries,    \* the binaries to read
    Pad,         \* 4096: smaller offsets are padded with zeros by "%04x"
    MaxOut       \* bound: instructions emitted behind a WIDE

ASSUME BinariesAssumption ==
    /\ SlotBase \in Nat \ {0}
    /\ \A b \in Binaries : IsBinary(b)
    /\ Pad \in Nat
    /\ MaxOut \in Nat

VARIABLES
    binary,         \* the text section
    phase,          \* "count", "method", "wide", "next", or how it ended
    todo,           \* jump targets to scan
    visited,        \* offsets scanned
    reading,        \* whether a trail is being followed ...
    at,             \* ... and the position of the reader
    var_count,      \* the variables of main found so far
    method,         \* the method being translated: name, args, vars
    funcs,          \* called methods, to be translated
    funcs_visited,  \* addresses of the translated ones
    out             \* what the assembler was told, an instruction each

trail    == <<todo, visited, reading, at>>
progress == <<method, funcs, funcs_visited>>
vars     == <<binary, phase, trail, var_count, progress, out>>

Final == {"done", "thrown", "panicked"}

NoMethod == [name |-> -2, args |-> 0, vars |-> 0]

Init ==
    /\ binary \in Binaries
    /\ phase = "count"
    /\ todo = <<0>>
    /\ visited = {}
    /\ reading = FALSE
    /\ at = 0
    /\ var_count = 0
    /\ method = NoMethod
    /\ funcs = << >>
    /\ funcs_visited = {}
    /\ out = << >>

Throw == phase' = "thrown" /\ UNCHANGED <<binary, trail, var_count, progress, out>>

-----------------------------------------------------------------------------
(* The trail, in both walks.                                               *)

Seek ==
    /\ phase \in {"count", "method"}
    /\ ~ reading
    /\ todo # << >>
    /\ at' = Last(todo)
    /\ todo' = Front(todo)
    /\ reading' = TRUE
    /\ UNCHANGED <<binary, phase, visited, var_count, progress, out>>

\* A trail that meets an earlier one ends.
Meet ==
    /\ phase \in {"count", "method"}
    /\ reading
    /\ at \in visited
    /\ reading' = FALSE
    /\ UNCHANGED <<binary, phase, todo, visited, at, var_count, progress, out>>

\* Mutant of marked: nothing is remembered.
marked_Never == visited

marked == visited \cup {at}

\* Mutant of ends_trail: a conditional jump ends it as well.
ends_trail_Branch(o) == is_final(o) \/ has_jmp_arg(o)

ends_trail(o) == is_final(o) \/ o = "GOTO"

\* Mutant of targets: the target of a GOTO is not scanned.
targets_NoGoto(i) == IF i.op \in Branches THEN <<i.to>> ELSE << >>

targets(i) == IF has_jmp_arg(i.op) THEN <<i.to>> ELSE << >>

\* Instruction i at `at` is read, and n is behind it.
Follow(i, n) ==
    /\ visited' = marked
    /\ todo' = todo \o targets(i)
    /\ at' = n
    /\ reading' = ~ ends_trail(i.op)

-----------------------------------------------------------------------------
(* ijvm_main_local_count.                                                  *)

\* The text section ends: so does the trail.
CountEnd ==
    /\ phase = "count"
    /\ reading
    /\ at \notin Places(binary)
    /\ reading' = FALSE
    /\ UNCHANGED <<binary, phase, todo, visited, at, var_count, progress, out>>

CountRead ==
    /\ phase = "count"
    /\ reading
    /\ at \in Places(binary) \ visited
    /\ LET p == opcode_at(binary, at)
           i == binary.text[p]
       IN  IF p = binary.size \/ following(binary, at) > binary.size
             THEN Throw
             ELSE /\ Follow(i, following(binary, at))
                  /\ var_count' = IF has_var_arg(i.op) /\ slot_at(binary, at) >= var_count
                                    THEN slot_at(binary, at) + 1 ELSE var_count
                  /\ UNCHANGED <<binary, phase, progress, out>>

-----------------------------------------------------------------------------
(* ijvm_compile_method.                                                    *)

Begin(name, args, count) ==
    /\ phase' = "method"
    /\ method' = [name |-> name, args |-> args, vars |-> count]
    /\ todo' = <<entry(name)>>
    /\ visited' = {}
    /\ reading' = FALSE
    /\ at' = entry(name)

\* Mutant of u16: nothing is cut off.
u16_Kept(n) == n

u16(n) == n % SlotBase

BeginMain ==
    /\ phase = "count"
    /\ ~ reading
    /\ todo = << >>
    /\ Begin(Main, 0, u16(var_count))
    /\ UNCHANGED <<binary, var_count, funcs, funcs_visited, out>>

\* Mutant of local_index: the OBJREF is not skipped.
local_index_Objref(slot) == slot

local_index(slot) == IF method.name = Main THEN slot ELSE u16(slot - 1)

has_local(slot) == local_index(slot) < method.args + method.vars

\* arg_<n> or lvar_<n>.
local_name(slot) ==
    LET n == local_index(slot)
    IN  IF n < method.args THEN [kind |-> "arg", n |-> n]
                           ELSE [kind |-> "lvar", n |-> n - method.args]

NoName == [kind |-> "", n |-> 0]

\* The labels "loc_%04x" and "loc_%x" of an offset.
loc_04x(o) == [offset |-> o, padded |-> o \in 0 .. Pad - 1]
loc_x(o)   == [offset |-> o, padded |-> FALSE]

\* Instruction i, with the label in front of it.
emitted(i) ==
    [fn    |-> method.name,
     label |-> loc_04x(at),
     op    |-> i.op,
     jump  |-> IF i.op = "ICMPEQ" THEN loc_x(i.to) ELSE loc_04x(i.to),
     func  |-> i.func,
     slot  |-> i.narrow,
     local |-> IF has_var_arg(i.op) THEN local_name(i.narrow) ELSE NoName]

\* The text section ends in the middle of a trail.
Trailing ==
    /\ phase = "method"
    /\ reading
    /\ at \notin Places(binary)
    /\ phase' = "panicked"
    /\ UNCHANGED <<binary, trail, var_count, progress, out>>

MethodRead ==
    /\ phase = "method"
    /\ reading
    /\ at \in Places(binary) \ visited
    /\ LET i == binary.text[at]
           n == at + 1 + operands(i.op, FALSE)
       IN  /\ i.op # "WIDE"
           /\ IF \/ i.op = "INVALID"
                 \/ n > binary.size
                 \/ has_var_arg(i.op) /\ ~ has_local(i.narrow)
                THEN Throw
                ELSE /\ Follow(i, n)
                     /\ out' = Append(out, emitted(i))
                     /\ funcs' = IF i.op = "INVOKEVIRTUAL" THEN Append(funcs, i.func)
                                                           ELSE funcs
                     /\ UNCHANGED <<binary, phase, var_count, method, funcs_visited>>

\* The loop over WIDEs reads nothing: it never ends.
MethodWide ==
    /\ \/ phase = "wide" /\ Len(out) < MaxOut
       \/ phase = "method" /\ reading /\ at \in Places(binary) \ visited
    /\ binary.text[at].op = "WIDE"
    /\ phase' = "wide"
    /\ visited' = marked
    /\ out' = Append(out, emitted(binary.text[at]))
    /\ UNCHANGED <<binary, todo, reading, at, var_count, progress>>

EndMethod ==
    /\ phase = "method"
    /\ ~ reading
    /\ todo = << >>
    /\ phase' = "next"
    /\ method' = NoMethod
    /\ UNCHANGED <<binary, trail, var_count, funcs, funcs_visited, out>>

-----------------------------------------------------------------------------
(* ijvm_compile: one method after another.                                 *)

SkipMethod ==
    /\ phase = "next"
    /\ funcs # << >>
    /\ Last(funcs) \in funcs_visited
    /\ funcs' = Front(funcs)
    /\ UNCHANGED <<binary, phase, trail, var_count, method, funcs_visited, out>>

\* Mutant of BeginMethod: the method is not remembered.
BeginMethod_Forgets ==
    /\ phase = "next"
    /\ funcs # << >>
    /\ Last(funcs) \notin funcs_visited
    /\ funcs' = Front(funcs)
    /\ IF Last(funcs) + HeaderSize > binary.size
         THEN phase' = "thrown" /\ UNCHANGED <<trail, method>>
         ELSE Begin(Last(funcs), u16(binary.header[Last(funcs)].args - 1),
                    binary.header[Last(funcs)].vars)
    /\ UNCHANGED <<binary, var_count, funcs_visited, out>>

BeginMethod ==
    /\ phase = "next"
    /\ funcs # << >>
    /\ Last(funcs) \notin funcs_visited
    /\ funcs' = Front(funcs)
    /\ funcs_visited' = funcs_visited \cup {Last(funcs)}
    /\ IF Last(funcs) + HeaderSize > binary.size
         THEN phase' = "thrown" /\ UNCHANGED <<trail, method>>
         ELSE Begin(Last(funcs), u16(binary.header[Last(funcs)].args - 1),
                    binary.header[Last(funcs)].vars)
    /\ UNCHANGED <<binary, var_count, out>>

Finish ==
    /\ phase = "next"
    /\ funcs = << >>
    /\ phase' = "done"
    /\ UNCHANGED <<binary, trail, var_count, progress, out>>

Terminated ==
    /\ \/ phase \in Final
       \/ phase = "wide" /\ Len(out) >= MaxOut
    /\ UNCHANGED vars

-----------------------------------------------------------------------------

Count  == CountEnd \/ CountRead
Method == BeginMain \/ Trailing \/ MethodRead \/ MethodWide \/ EndMethod
Call   == SkipMethod \/ BeginMethod \/ Finish

Step == Seek \/ Meet \/ Count \/ Method \/ Call

Next == Step \/ Terminated

Spec == Init /\ [][Next]_vars

\* The reader is one sequential program: it keeps taking steps.
FairSpec == Spec /\ WF_vars(Step)

-----------------------------------------------------------------------------
(* What the front end promises.                                            *)

Emission ==
    [fn : {Main} \cup Nat, label : [offset : Nat, padded : BOOLEAN], op : Opcodes,
     jump : [offset : Int, padded : BOOLEAN], func : Nat, slot : Slots,
     local : [kind : {"arg", "lvar", ""}, n : Nat]]

TypeOK ==
    /\ IsBinary(binary)
    /\ phase \in {"count", "method", "wide", "next"} \cup Final
    /\ todo \in Seq(Int)
    /\ visited \subseteq Places(binary)
    /\ reading \in BOOLEAN
    /\ at \in Int
    /\ var_count \in 0 .. SlotBase
    /\ method \in [name : {-2, Main} \cup Nat, args : Slots, vars : Slots]
    /\ funcs \in Seq(Nat)
    /\ funcs_visited \subseteq Nat
    /\ out \in Seq(Emission)

\* A label is set once in a method, and a method is translated once, however
\* often a jump or a call names it: the assembler keeps the last of two
\* labels or functions of one name (compile.cpp:140-146, 276-281).
EmittedOnce ==
    phase # "wide" =>
        \A j, k \in DOMAIN out :
            (out[j].fn = out[k].fn /\ out[j].label = out[k].label) => j = k

\* The methods that are translated to their end.
Complete == {out[k].fn : k \in DOMAIN out} \ {method.name}

\* A jump of a translated method names a label of that method: link panics
\* otherwise (compile.cpp:204-227; ijvm_assembler.cpp:254-261).  The exception
\* is a comparison below Pad, whose target is written in another format.
JumpsHaveLabels ==
    \A j \in DOMAIN out :
        (/\ out[j].fn \in Complete
         /\ has_jmp_arg(out[j].op)
         /\ out[j].op # "ICMPEQ" \/ out[j].jump.offset >= Pad) =>
            \E k \in DOMAIN out : out[k].fn = out[j].fn /\ out[k].label = out[j].jump

\* Where the assembler puts the variable of a name, behind the OBJREF of
\* every method but main (ijvm_assembler.cpp:90-96).
assembled_slot(e) ==
    LET args == IF e.fn = Main THEN 0 ELSE binary.header[e.fn].args
    IN  IF e.local.kind = "arg" THEN e.local.n + 1 ELSE args + e.local.n

\* Assembled again, a variable is in the slot it had: the two walks of main
\* agree on its variables, and names are counted the way the assembler does
\* (compile.cpp:97-113, 115-129, 188-194).
SlotsKept ==
    \A k \in DOMAIN out :
        has_var_arg(out[k].op) => assembled_slot(out[k]) = out[k].slot

\* Every binary without WIDE is read to an end, whatever loops its jumps and
\* calls form (compile.cpp:33-92, 132-238, 276-289).
Termination ==
    (\A o \in Places(binary) : binary.text[o].op # "WIDE") => <>(phase \in Final)

\* The walks amount to a disassembly: what is translated is exactly what can
\* be reached, and only what is out of order is refused (compile.cpp:115-289).
Atomic == INSTANCE Disassembly WITH
    methods <- [f \in Complete |->
                   {out[k].label.offset : k \in {j \in DOMAIN out : out[j].fn = f}}],
    status  <- CASE phase = "done" -> "done"
                 [] phase \in {"thrown", "panicked"} -> "failed"
                 [] OTHER -> "working"

ImplementsDisassembly == Atomic!Spec

-----------------------------------------------------------------------------
(* What the code says of itself and does not do.                           *)

\* "Didn't have a next? Trailing program!" (compile.cpp:235): a method does not
\* run off its end.  What is emitted behind an instruction is what control
\* reaches from it.
NoTrailingProgram ==
    \A k \in DOMAIN out :
        (out[k].fn \in Complete /\ ~ ends_trail(out[k].op)) =>
            /\ k < Len(out)
            /\ out[k + 1].fn = out[k].fn
            /\ out[k + 1].label.offset = following(binary, out[k].label.offset)

=============================================================================
