------------------------------ MODULE Bytecode ------------------------------
(***************************************************************************)
(* IJVM binaries as the front end reads them (src/src/frontends/ijvm).     *)
(* What matters of the bytes is how they decode: at every offset of the    *)
(* text section lies some instruction, with the jump target, the function  *)
(* and the variable its operand would name, and some function header.      *)
(*                                                                         *)
(*   to      where a jump goes; may lie outside of the text section        *)
(*   func    the address the constant of a call holds                      *)
(*   narrow  the variable a one-byte operand names                         *)
(*   wide    the variable a two-byte operand names                         *)
(*                                                                         *)
(* "STACK" is every instruction without operands that only moves words.    *)
(*                                                                         *)
(* The module states which offsets a method consists of, whatever the      *)
(* algorithm that finds them.                                              *)
(***************************************************************************)
EXTENDS Integers

CONSTANT SlotBase   \* the values of a u16, 65536

VarOps   == {"ILOAD", "ISTORE", "IINC"}
Branches == {"IFEQ", "IFLT", "ICMPEQ"}
JumpOps  == {"GOTO"} \cup Branches
Finals   == {"HALT", "ERR", "IRETURN"}
Opcodes  == VarOps \cup JumpOps \cup Finals \cup
              {"STACK", "BIPUSH", "LDC_W", "INVOKEVIRTUAL", "WIDE", "INVALID"}

Slots == 0 .. SlotBase - 1

Instruction == [op : Opcodes, to : Int, func : Nat, narrow : Slots, wide : Slots]

\* The words in front of a method's code; args counts the OBJREF.
Header == {h \in [args : Slots, vars : Slots] :
               h.args >= 1 /\ h.args + h.vars < SlotBase}

IsBinary(b) ==
    /\ b.size \in Nat \ {0}
    /\ b.text \in [0 .. b.size - 1 -> Instruction]
    /\ b.header \in [0 .. b.size - 1 -> Header]

Places(b) == 0 .. b.size - 1

\* main starts at the first byte and has no header; a method is known by the
\* address of its header.
Main       == -1
HeaderSize == 4
entry(f)   == IF f = Main THEN 0 ELSE f + HeaderSize

-----------------------------------------------------------------------------
(* Decoding.                                                               *)

has_var_arg(o) == o \in VarOps
has_jmp_arg(o) == o \in JumpOps
is_final(o)    == o \in Finals

\* The bytes behind an opcode.
operands(o, wide) ==
    CASE o = "BIPUSH"           -> 1
      [] o \in {"ILOAD", "ISTORE"} -> IF wide THEN 2 ELSE 1
      [] o = "IINC"             -> IF wide THEN 3 ELSE 2
      [] o \in JumpOps \cup {"LDC_W", "INVOKEVIRTUAL"} -> 2
      [] OTHER                  -> 0

\* Where the opcode of the instruction at o lies, behind its WIDEs.
opcode_at(b, o) ==
    IF \E p \in o .. b.size - 1 : b.text[p].op # "WIDE"
      THEN CHOOSE p \in o .. b.size - 1 :
              /\ b.text[p].op # "WIDE"
              /\ \A q \in o .. p - 1 : b.text[q].op = "WIDE"
      ELSE b.size

-----------------------------------------------------------------------------
(* What belongs to a method.                                               *)

following(b, o) ==
    LET p == opcode_at(b, o)
    IN  p + 1 + operands(b.text[p].op, p > o)

\* Where control may go from the instruction at o.
successors(b, o) ==
    LET i == b.text[opcode_at(b, o)]
    IN  CASE is_final(i.op)    -> {}
          [] i.op = "GOTO"     -> {i.to}
          [] i.op \in Branches -> {i.to, following(b, o)}
          [] OTHER             -> {following(b, o)}

slot_at(b, o) ==
    LET p == opcode_at(b, o)
    IN  IF p > o THEN b.text[p].wide ELSE b.text[p].narrow

\* The variables of method f.  main has as many as it names, while a u16
\* counts them; slot 0 of any other is the OBJREF, which has no name.
LocalSlots(b, f) ==
    IF f = Main THEN 0 .. SlotBase - 2
                ELSE 1 .. b.header[f].args - 1 + b.header[f].vars

\* An instruction that can be translated.
Sound(b, f, o) ==
    /\ o \in Places(b)
    /\ opcode_at(b, o) < b.size
    /\ following(b, o) <= b.size
    /\ b.text[opcode_at(b, o)].op # "INVALID"
    /\ has_var_arg(b.text[opcode_at(b, o)].op) => slot_at(b, o) \in LocalSlots(b, f)

\* S contains the entry of f and wherever control goes from S.
ClosedUnderFlow(b, f, S) ==
    /\ entry(f) \in S
    /\ \A o \in S : Sound(b, f, o) /\ successors(b, o) \subseteq S

HasHeader(b, f) == f = Main \/ f + HeaderSize <= b.size

\* S is exactly what an execution of f could reach.
Covers(b, f, S) ==
    /\ HasHeader(b, f)
    /\ ClosedUnderFlow(b, f, S)
    /\ \A T \in SUBSET S : ClosedUnderFlow(b, f, T) => T = S

\* Nothing that an execution of f could reach is out of order.
Translatable(b, f) ==
    /\ HasHeader(b, f)
    /\ \E S \in SUBSET {o \in Places(b) : Sound(b, f, o)} : ClosedUnderFlow(b, f, S)

\* The methods that the instructions at S call.
callees(b, S) ==
    {b.text[opcode_at(b, o)].func :
        o \in {p \in S : b.text[opcode_at(b, p)].op = "INVOKEVIRTUAL"}}

=============================================================================
