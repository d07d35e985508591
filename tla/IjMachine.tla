----------------------------- MODULE IjMachine -----------------------------
(***************************************************************************)
(* One ij function compiled and executed: the code generator of IjCodegen, *)
(* and a stack machine that runs what it emits as the JIT does             *)
(* (src/src/backends/x64_assembler.cpp): slots are RegBits wide (64),      *)
(* IADD and ISUB compute words and extend the sign, IAND and IOR take all  *)
(* bits of two slots, IINC adds in the slot.                               *)
(*                                                                         *)
(* Calls, input and output, and arrays are the environment: an instruction *)
(* of that kind is an event of the log, with any answer.                   *)
(***************************************************************************)
EXTENDS IjCodegen, Words

CONSTANTS
    Programs,    \* the functions to compile
    Arity,       \* the parameters of each function that can be called
    ObjRef,      \* the value of __OBJREF__
    Answers,     \* what the environment may answer
    Inputs,      \* what parameters may hold
    Garbage,     \* what the slots of variables may hold on entry
    MaxLog       \* bound: events of a run

ASSUME MachineAssumption ==
    /\ Answers \subseteq Word
    /\ Inputs \subseteq Word
    /\ Garbage \subseteq Word
    /\ MaxLog \in Nat
    /\ \A n \in DOMAIN Constants : Constants[n] \in Word

VARIABLES
    program,     \* the function
    start,       \* its parameters, and what its variables hold on entry
    outcome,     \* "source", "rejected", "running", or how the run ended
    result,      \* what IRETURN returned
    log,         \* history: the events
    code,        \* the instructions
    labels,      \* where the labels lie
    pc,          \* the next instruction
    stack,       \* the operands
    locals       \* the slots of parameters and variables

vars == <<program, start, outcome, result, log, code, labels, pc, stack, locals>>

Source == INSTANCE IjSource

RegBits == 2 * WordBits
Slot    == -(2^(RegBits - 1)) .. 2^(RegBits - 1) - 1

Ended == {"returned", "halted", "error", "fell"}

Init ==
    /\ program \in Programs
    /\ Source!Init
    /\ \A x \in DOMAIN start : start[x] \in IF x \in program.args THEN Inputs ELSE Garbage
    /\ code = << >>
    /\ labels = [l \in {} |-> 0]
    /\ pc = 1
    /\ stack = << >>
    /\ locals = start

-----------------------------------------------------------------------------
(* Function::compile, whole: the code, or an exception.                    *)

CompileFunction ==
    /\ outcome = "source"
    /\ LET c == compile_function(program.args, program.body)
       IN  IF c.error = ""
             THEN /\ outcome' = "running"
                  /\ code' = c.code
                  /\ labels' = c.labels
             ELSE outcome' = "rejected" /\ UNCHANGED <<code, labels>>
    /\ UNCHANGED <<program, start, result, log, pc, stack, locals>>

-----------------------------------------------------------------------------
(* The instructions.                                                       *)

instruction == code[pc]

\* The operands an instruction takes from the stack.
pops(i) ==
    CASE i.op \in {"PUSH", "LDC_W", "ILOAD", "IINC", "GOTO", "IN", "HALT", "ERR"} -> 0
      [] i.op \in {"DUP", "POP", "ISTORE", "IFEQ", "IFLT", "IRETURN", "OUT", "NEWARRAY"} -> 1
      [] i.op \in {"IADD", "ISUB", "IAND", "IOR", "SWAP", "ICMPEQ", "IALOAD"} -> 2
      [] i.op = "IASTORE" -> 3
      [] i.op = "INVOKEVIRTUAL" -> Arity[i.name] + 1

\* The k-th operand from the top, and the stack without the topmost k.
top(k)    == stack[Len(stack) + 1 - k]
popped(k) == SubSeq(stack, 1, Len(stack) - k)

Executes(ops) ==
    /\ outcome = "running"
    /\ pc <= Len(code)
    /\ instruction.op \in ops
    /\ Len(stack) >= pops(instruction)

running_on == UNCHANGED <<program, start, outcome, result, code, labels>>

Push ==
    /\ Executes({"PUSH", "LDC_W", "ILOAD", "DUP"})
    /\ LET v == CASE instruction.op = "PUSH"  -> instruction.value
                  [] instruction.op = "ILOAD" -> locals[instruction.name]
                  [] instruction.op = "DUP"   -> top(1)
                  [] instruction.op = "LDC_W" ->
                       IF instruction.name = "__OBJREF__" THEN ObjRef
                                                          ELSE Constants[instruction.name]
       IN  stack' = Append(stack, v)
    /\ pc' = pc + 1
    /\ UNCHANGED <<log, locals>> /\ running_on

\* The bits of a slot, as a natural number.
slot_bits(n) == n % 2^RegBits

\* a is the operand below b.
alu(op, a, b) ==
    CASE op = "IADD" -> wrap(a + b)
      [] op = "ISUB" -> wrap(a - b)
      [] op = "IAND" -> Signed(slot_bits(a) & slot_bits(b), RegBits)
      [] op = "IOR"  -> Signed(slot_bits(a) | slot_bits(b), RegBits)

Compute ==
    /\ Executes({"IADD", "ISUB", "IAND", "IOR"})
    /\ stack' = Append(popped(2), alu(instruction.op, top(2), top(1)))
    /\ pc' = pc + 1
    /\ UNCHANGED <<log, locals>> /\ running_on

Shuffle ==
    /\ Executes({"POP", "SWAP"})
    /\ stack' = IF instruction.op = "POP" THEN popped(1)
                                          ELSE popped(2) \o <<top(1), top(2)>>
    /\ pc' = pc + 1
    /\ UNCHANGED <<log, locals>> /\ running_on

Store ==
    /\ Executes({"ISTORE"})
    /\ locals' = [locals EXCEPT ![instruction.name] = top(1)]
    /\ stack' = popped(1)
    /\ pc' = pc + 1
    /\ UNCHANGED log /\ running_on

Increment ==
    /\ Executes({"IINC"})
    /\ locals' = [locals EXCEPT ![instruction.name] =
                      Signed(@ + instruction.value, RegBits)]
    /\ pc' = pc + 1
    /\ UNCHANGED <<log, stack>> /\ running_on

\* Whether a jump is taken.
taken ==
    CASE instruction.op = "GOTO"   -> TRUE
      [] instruction.op = "IFEQ"   -> top(1) = 0
      [] instruction.op = "IFLT"   -> top(1) < 0
      [] instruction.op = "ICMPEQ" -> top(1) = top(2)

Jump ==
    /\ Executes({"GOTO", "IFEQ", "IFLT", "ICMPEQ"})
    /\ pc' = IF taken THEN labels[instruction.name] ELSE pc + 1
    /\ stack' = popped(pops(instruction))
    /\ UNCHANGED <<log, locals>> /\ running_on

\* Calls, input and output, arrays: the operands go to the environment, and
\* its answer, where there is one, comes onto the stack.
Communicate ==
    /\ Executes({"IN", "OUT", "NEWARRAY", "IALOAD", "IASTORE", "INVOKEVIRTUAL"})
    /\ Len(log) < MaxLog
    /\ LET n == pops(instruction)
       IN  \E a \in Source!answers_to(instruction.op) :
             /\ log' = Append(log, [op |-> instruction.op, name |-> instruction.name,
                                    operands |-> SubSeq(stack, Len(stack) - n + 1, Len(stack)),
                                    answer |-> a])
             /\ stack' = IF instruction.op \in {"OUT", "IASTORE"}
                           THEN popped(n) ELSE Append(popped(n), a)
    /\ pc' = pc + 1
    /\ UNCHANGED locals /\ running_on

Return ==
    /\ Executes({"IRETURN"})
    /\ outcome' = "returned"
    /\ result' = top(1)
    /\ UNCHANGED <<program, start, log, code, labels, pc, stack, locals>>

Stop ==
    /\ Executes({"HALT", "ERR"})
    /\ outcome' = IF instruction.op = "HALT" THEN "halted" ELSE "error"
    /\ UNCHANGED <<program, start, result, log, code, labels, pc, stack, locals>>

\* Behind the last instruction lies the next function.
FallOff ==
    /\ outcome = "running"
    /\ pc = Len(code) + 1
    /\ outcome' = "fell"
    /\ UNCHANGED <<program, start, result, log, code, labels, pc, stack, locals>>

\* The run is over, or the environment is out of answers.
Over ==
    /\ \/ outcome \in Ended \cup {"rejected"}
       \/ outcome = "running" /\ Len(log) = MaxLog
    /\ UNCHANGED vars

Step == Push \/ Compute \/ Shuffle \/ Store \/ Increment \/ Jump
          \/ Communicate \/ Return \/ Stop \/ FallOff

Next == CompileFunction \/ Step \/ Over

\* The processor carries on while it can, and the environment answers.
Spec == Init /\ [][Next]_vars /\ WF_vars(Step)

-----------------------------------------------------------------------------
(* Properties.                                                             *)

\* What the assembler's methods take: PUSH_VAL a word, IINC a byte, an
\* instruction on variables one of the function's.
Operands ==
    \A i \in DOMAIN code :
        LET c == code[i]
        IN  /\ c.op = "PUSH" => c.value \in Word
            /\ c.op = "IINC" => c.value \in -ImmMax - 1 .. ImmMax
            /\ c.op \in {"ILOAD", "ISTORE", "IINC"} => c.name \in DOMAIN locals
            /\ c.op = "LDC_W" => c.name \in DOMAIN Constants \cup {"__OBJREF__"}

\* Types: no operand the generator passes is changed by its conversion to the
\* type that the assembler's method takes (compile.cpp:193-201: the i32 of an
\* update becomes the int8_t of IINC), every label lies in the code or right
\* behind it, and slots hold what fits them.
TypeOK ==
    /\ outcome \in {"source", "rejected", "running"} \cup Ended
    /\ result \in Slot
    /\ Len(log) <= MaxLog
    /\ Operands
    /\ \A l \in DOMAIN labels : labels[l] \in 1 .. Len(code) + 1
    /\ pc \in 1 .. Len(code) + 1
    /\ \A k \in DOMAIN stack : stack[k] \in Slot \cup {ObjRef}
    /\ DOMAIN locals = DOMAIN start
    /\ \A x \in DOMAIN locals : locals[x] \in Slot

\* The update of a loop leaves its value on the stack (compile.cpp:374-376).
RECURSIVE leaks(_)
leaks(s) ==
    CASE s.kind = "comp" -> \E i \in DOMAIN s.stmts : leaks(s.stmts[i])
      [] s.kind = "if"   -> leaks(s.thens) \/ leaks(s.elses)
      [] s.kind = "for"  -> \/ leaks(s.body)
                            \/ s.update.kind \in {"value", "ident", "fun", "stmtexpr", "arr"}
                            \/ s.update.kind = "op" /\ leaves_on_stack(s.update)
      [] OTHER -> FALSE

\* Every instruction finds its operands, and only its operands: whatever path
\* leads to a label, the stack is empty there, and a return takes the last
\* value (compile.cpp:281-300,344-435: statements pop what they push).
StackBalanced ==
    (outcome = "running" /\ ~ leaks(program.body)) =>
        /\ pc <= Len(code) => Len(stack) >= pops(instruction)
        /\ \A l \in DOMAIN labels : labels[l] = pc => stack = << >>
        /\ pc = Len(code) + 1 => stack = << >>
        /\ pc <= Len(code) /\ instruction.op = "IRETURN" => Len(stack) = 1

\* Every jump of an accepted function goes to a label of that function, in
\* code that never runs too: link panics otherwise (compile.cpp:344-501,
\* ijvm_assembler.cpp:254-266).
JumpsResolve ==
    \A i \in DOMAIN code : code[i].op \in {"GOTO", "IFEQ", "IFLT", "ICMPEQ"} =>
                             code[i].name \in DOMAIN labels

\* The code does what the function means: the same events in the same order
\* with the same operands, the same end, the same result; it never spins or
\* gets stuck where the source goes on; and only unsupported functions are
\* refused (compile.cpp:148-511).
ImplementsSource == Source!Spec

-----------------------------------------------------------------------------
(* What the documentation says and the code does not do.                   *)

\* break and continue belong to the loop around them ("continue statement
\* (inside for)", data.hpp:17-18): the run so far is one of the source's.
LeavesItsLoop ==
    LET m(k) == Source!meaning(program, start, SubSeq(log, 1, k))
    IN  /\ \A k \in DOMAIN log :
              \/ m(k - 1).next = "unspecified"
              \/ /\ m(k - 1).next = "asks"
                 /\ m(k - 1).event = [op |-> log[k].op, name |-> log[k].name,
                                      operands |-> log[k].operands]
        /\ outcome \in Ended =>
              \/ m(Len(log)).next = "unspecified"
              \/ /\ m(Len(log)).next = outcome
                 /\ outcome = "returned" => m(Len(log)).val = result

=============================================================================
