------------------------------ MODULE X64Calls ------------------------------
(***************************************************************************)
(* The frames that the code of the x64 backend builds on the machine's     *)
(* stack (src/src/backends/x64_assembler.cpp): calls, returns, variables   *)
(* and the calls of the C functions it runs on.                            *)
(*                                                                         *)
(* The stack is the sequence `mem` of its words of 8 bytes, the one at the *)
(* highest address first, and rsp is its length: what lies beyond, signal  *)
(* handlers and C functions may overwrite.  [rbp - 8 * n] is mem[rbp + n]. *)
(* A word is an integer of the program, an address, a return address, the  *)
(* pointer to the C functions, the barrier, or junk.                       *)
(*                                                                         *)
(* The program is any sequence of instructions that takes no more from     *)
(* the operand stack than it put there, loads no variable it has not       *)
(* assigned and calls with the right number of arguments.  IjvmFrames says *)
(* what it should see of the machine.                                      *)
(***************************************************************************)
EXTENDS Integers, Sequences, SequencesExt, FiniteSetsExt

CONSTANTS
    Functions,  \* name -> its args and vars, as given to function()
    Main,
    Identifiers, \* the names of arguments and variables
    Numbers,    \* the integers programs compute with
    Sites,      \* the calls in the code of a function
    MaxFrames,  \* bound on the active frames
    MaxStack,   \* bound on the operands of a frame
    MaxWords    \* bound on the whole stack

reserved == <<"__ret_addr__", "__base_ptr__", "__rsp__">>

ASSUME FramesAssumption ==
    /\ Main \in DOMAIN Functions
    /\ Sites \subseteq Nat \ {0} /\ Numbers \subseteq Int
    /\ {MaxFrames, MaxStack, MaxWords} \subseteq Nat

\* An argument shares its name with no other variable, main has none, and the
\* names function() reserves are no names of the program's.
ASSUME NamesAssumption ==
    /\ Functions[Main].args = << >>
    /\ ToSet(reserved) \cap Identifiers = {}
    /\ \A f \in DOMAIN Functions :
           /\ {Functions[f].args, Functions[f].vars} \subseteq Seq(Identifiers)
           /\ IsInjective(Functions[f].args)
           /\ ToSet(Functions[f].args) \cap ToSet(Functions[f].vars) = {}

VARIABLES
    mem,        \* the live words of the stack
    rbp,        \* the base pointer
    r14,        \* r_functions: the pointer to the C functions
    ip,         \* the function that is running, and the site it has come to
    native,     \* the C function that was just called, with its arguments
    over,       \* halt or err was called
    callers     \* no part of the machine: the calls that have not returned yet

machine == <<mem, rbp, r14, ip>>
vars == <<machine, native, over, callers>>

rsp == Len(mem)

Word(k, n, f) == [kind |-> k, n |-> n, fn |-> f]
Num(n)        == Word("num", n, Main)
Addr(a)       == Word("addr", a, Main)
Ret(f, s)     == Word("ret", s, f)
Host          == Word("host", 0, Main)
Table         == Word("table", 0, Main)
Barrier       == Word("barrier", 0, Main)
Junk          == Word("junk", 0, Main)

at(m, a) == IF a \in DOMAIN m THEN m[a] ELSE Junk

\* The C functions in the table of run() that return: the registers that are
\* loaded from the stack, and whether rax is pushed.
Natives ==
    [getchar |-> [takes |-> 0, gives |-> TRUE],  putchar |-> [takes |-> 1, gives |-> FALSE],
     newarray |-> [takes |-> 1, gives |-> TRUE], iaload |-> [takes |-> 2, gives |-> TRUE],
     iastore |-> [takes |-> 3, gives |-> FALSE]]

-----------------------------------------------------------------------------
(* The layout of a frame: where each name lies behind rbp.                 *)

layout == [f \in DOMAIN Functions |->
    (IF f = Main THEN << >> ELSE <<"__obj_ref__">>)
        \o Functions[f].args \o reserved \o Functions[f].vars]

\* A later entry of a name replaces the earlier one.
offset == [f \in DOMAIN Functions |-> [name \in ToSet(layout[f]) |->
    Max({i \in DOMAIN layout[f] : layout[f][i] = name}) - 1]]

locals == [f \in DOMAIN Functions |-> ToSet(Functions[f].args \o Functions[f].vars)]

slot(name) == rbp + offset[ip.fn][name]

-----------------------------------------------------------------------------
(* Instructions.  `depth` is the number of operands of the running frame.  *)

depth == rsp - (rbp + Len(layout[ip.fn]))

operand(i) == at(mem, rsp + 1 - i)   \* the i-th from the top

room == depth < MaxStack /\ rsp < MaxWords

pop(n) == SubSeq(mem, 1, rsp - n)

Straight == UNCHANGED <<rbp, r14, ip, over, callers>> /\ native' = <<"none">>

\* BIPUSH, LDC_W.
Push == \E n \in Numbers :
    room /\ mem' = Append(mem, Num(n)) /\ Straight

ILOAD == \E x \in locals[ip.fn] :
    /\ room /\ at(mem, slot(x)) # Junk
    /\ mem' = Append(mem, at(mem, slot(x)))
    /\ Straight

ISTORE == \E x \in locals[ip.fn] :
    /\ depth >= 1
    /\ mem' = [pop(1) EXCEPT ![slot(x)] = operand(1)]
    /\ Straight

-----------------------------------------------------------------------------
(* Calls.                                                                  *)

\* What function() emits behind the label: save rbp, reserve the slots of
\* __rsp__ and of the variables, push the barrier.
prologue(f, m) == m \o <<Addr(rbp)>>
                    \o [i \in 1 .. Len(Functions[f].vars) + 1 |-> Junk] \o <<Barrier>>

\* Mutant of base: the object reference is not counted.
base_NoObjref(f, m) == IF f = Main THEN Len(m) ELSE Len(m) - Len(Functions[f].args)

\* The new rbp, when the return address has just been pushed.
base(f, m) == IF f = Main THEN Len(m) ELSE Len(m) - 1 - Len(Functions[f].args)

INVOKEVIRTUAL == \E f \in DOMAIN Functions \ {Main}, s \in Sites :
    LET called == Append(mem, Ret(ip.fn, s))
    IN  /\ depth >= Len(Functions[f].args) + 1
        /\ Len(callers) + 1 < MaxFrames
        /\ mem' = prologue(f, called) /\ rbp' = base(f, called)
        /\ ip' = [fn |-> f, site |-> 0]
        /\ callers' = Append(callers, [fn |-> ip.fn, site |-> s, bp |-> rbp])
        /\ UNCHANGED <<r14, over>> /\ native' = <<"none">>

\* The result takes the place of the object reference.
IRETURN ==
    LET back == at(mem, slot("__ret_addr__"))
    IN  /\ ip.fn # Main
        /\ depth >= 1
        /\ mem' = Append(SubSeq(mem, 1, rbp - 1), operand(1))
        /\ rbp' = at(mem, slot("__base_ptr__")).n
        /\ ip' = [fn |-> back.fn, site |-> back.n]
        /\ callers' = Front(callers)
        /\ UNCHANGED <<r14, over>> /\ native' = <<"none">>

\* and rsp, ~0xf.
aligned(m) == IF Len(m) % 2 = 0 THEN m ELSE Append(m, Junk)

\* Mutant of restored: the stack stays aligned.
restored_Aligned(m) == m

\* The stack when the C function has returned: it may have overwritten
\* everything beyond, and r14.
restored(m) == LET n == at(m, slot("__rsp__")).n IN SubSeq(m, 1, n)

\* external_c_call, with what is left of the stack when the arguments are in
\* their registers.
external_c_call(m, results) ==
    LET saved == [Append(m, r14) EXCEPT ![slot("__rsp__")] = Addr(Len(m) + 1)]
        after == restored(aligned(saved))
    IN  /\ r14' = after[Len(after)]
        /\ mem' = SubSeq(after, 1, Len(after) - 1) \o results

\* IN, OUT, NEWARRAY, IALOAD and IASTORE: rdi, rsi and rdx are popped in this
\* order.
Native == \E f \in DOMAIN Natives :
    LET t == Natives[f].takes
    IN  /\ depth >= t
        /\ Natives[f].gives => t > 0 \/ room
        /\ native' = <<f>> \o [i \in 1 .. t |-> operand(i)]
        /\ \E rax \in IF Natives[f].gives THEN {<<Num(n)>> : n \in Numbers} ELSE {<< >>} :
               external_c_call(pop(t), rax)
        /\ UNCHANGED <<rbp, ip, over, callers>>

\* HALT and ERR: the C function exits.
Exit == \E f \in {"halt", "error"} :
    native' = <<f>> /\ over' = TRUE /\ UNCHANGED <<machine, callers>>

-----------------------------------------------------------------------------
(* The frames on the machine's stack, the running one last.                *)

active == Append(callers, [fn |-> ip.fn, site |-> ip.site, bp |-> rbp])

barrier(f) == f.bp + Len(layout[f.fn])

\* Where the j-th of the frames c ends: below the object reference of its callee.
limit(m, c, j) == IF j = Len(c) THEN Len(m) ELSE c[j + 1].bp - 1

\* A frame as the program sees it.
frame(m, c, j) ==
    [fn |-> c[j].fn, site |-> c[j].site,
     locals |-> [x \in locals[c[j].fn] |-> at(m, c[j].bp + offset[c[j].fn][x])],
     stack |-> SubSeq(m, barrier(c[j]) + 1, limit(m, c, j))]

seen == [j \in DOMAIN active |-> frame(mem, active, j)]

-----------------------------------------------------------------------------

\* run() calls the code, which begins with main.
Init ==
    /\ LET called == <<Host>>
       IN  /\ rbp = base(Main, called)
           /\ mem = called \o <<Addr(0)>> \o
                        [i \in 1 .. Len(Functions[Main].vars) + 1 |-> Junk] \o <<Barrier>>
    /\ r14 = Table
    /\ ip = [fn |-> Main, site |-> 0]
    /\ native = <<"none">> /\ over = FALSE
    /\ callers = << >>

Step ==
    /\ ~ over
    /\ Push \/ ILOAD \/ ISTORE \/ INVOKEVIRTUAL \/ IRETURN \/ Native \/ Exit

Over == over /\ UNCHANGED vars

Next == Step \/ Over

Spec == Init /\ [][Next]_vars

-----------------------------------------------------------------------------
(* Properties.                                                             *)

Kinds == {"num", "addr", "ret", "host", "table", "barrier", "junk"}
Words == [kind : Kinds, n : Int, fn : DOMAIN Functions]
Calls == [fn : DOMAIN Functions, site : Nat, bp : Nat]

TypeOK ==
    /\ mem \in Seq(Words) /\ rbp \in DOMAIN mem /\ r14 \in Words
    /\ ip \in [fn : DOMAIN Functions, site : Nat]
    /\ over \in BOOLEAN
    /\ callers \in Seq(Calls)

\* r14 still points to the C functions.
FunctionTableKept == r14 = Table

\* The word between variables and operands is there in every active frame.
BarriersIntact == \A j \in DOMAIN active : at(mem, barrier(active[j])) = Barrier

\* Every frame but main's has its caller's place and base where IRETURN looks.
LinksIntact == \A j \in DOMAIN callers :
    LET f    == active[j + 1]
        word(name) == at(mem, f.bp + offset[f.fn][name])
    IN  /\ word("__ret_addr__") = Ret(callers[j].fn, callers[j].site)
        /\ word("__base_ptr__") = Addr(callers[j].bp)

\* What the runtime relies on survives, whatever is stored and called, and
\* however the stack was aligned: r14, which C code may change, points to the
\* table of C functions (x64_assembler.cpp:185-204), the word that separates
\* variables from operands is there in every active frame (:289-291), and so are
\* the return address and the base pointer with which it returns (:508-534).
RuntimeKept == TypeOK /\ FunctionTableKept /\ BarriersIntact /\ LinksIntact

Ijvm == INSTANCE IjvmFrames WITH
    Numbers <- {Num(n) : n \in Numbers}, frames <- seen

\* What the program can see of the machine is what IJVM promises: every
\* variable and operand of every active frame is untouched but for what the
\* instruction does, arguments arrive in their order, a return restores its
\* caller, and C functions get the operands they are meant to.
ImplementsFrames == Ijvm!Spec

=============================================================================
