--------------------------- MODULE IJVMAssembler ---------------------------
(***************************************************************************)
(* The backend that writes IJVM machine code (src/src/backends/            *)
(* ijvm_assembler.cpp, with the constant table of assembler.cpp): a front  *)
(* end calls one method per declaration, label and instruction, in any     *)
(* order after the first function; compile then lays out the constant pool *)
(* and link patches the operands of jumps and calls, in whatever order the *)
(* hash tables hold them.                                                  *)
(*                                                                         *)
(* The text section is a sequence of cells, an opcode or a byte.  A byte   *)
(* has ByteBase values (256 in the code): its width decides when an        *)
(* operand is wide and when it is truncated.                               *)
(***************************************************************************)
EXTENDS Integers, Sequences, FiniteSets, SequencesExt

CONSTANTS
    ByteBase,    \* the values of a byte, 256
    ConstNames,  \* the constants a program may declare
    Values,      \* the numbers it may declare or push
    FuncNames,   \* the functions it may call
    VarNames,    \* the variables it may name
    Signatures,  \* the functions it may define: name, args and vars
    Labels,      \* the labels it may set or jump to
    UsedOps,     \* bound: the instructions it uses
    MaxCalls     \* bound: calls of the assembler's methods

SimpleOps ==
    {"DUP", "IADD", "IAND", "IOR", "ISUB", "POP", "SWAP", "WIDE", "HALT",
     "ERR", "IN", "OUT", "NOP", "IRETURN", "NEWARRAY", "IALOAD", "IASTORE",
     "GC", "NETBIND", "NETCONNECT", "NETIN", "NETOUT", "NETCLOSE", "SHL",
     "SHR", "IMUL", "IDIV"}
VarOps    == {"ILOAD", "ISTORE", "IINC"}
JumpOps   == {"GOTO", "ICMPEQ", "IFLT", "IFEQ"}
OtherOps  == {"BIPUSH", "LDC_W", "INVOKEVIRTUAL"}
Mnemonics == SimpleOps \cup VarOps \cup JumpOps \cup OtherOps

ASSUME WordAssumption ==
    /\ ByteBase \in Nat
    /\ ByteBase >= 2
    /\ ByteBase % 2 = 0

ASSUME CallsAssumption ==
    /\ Values \subseteq Int
    /\ "main" \in FuncNames
    /\ "OBJREF" \in VarNames
    /\ Signatures \subseteq [name : FuncNames, args : Seq(VarNames), vars : Seq(VarNames)]
    /\ UsedOps \subseteq Mnemonics
    /\ MaxCalls \in Nat

VARIABLES
    phase,           \* "assemble", a step of compile, or how it ended
    code,            \* the text section
    constant_order,  \* the declared constants, in order
    constant_map,    \* their values
    laddrs,          \* label -> offset
    jmpaddrs,        \* offset of a jump -> label
    faddrs,          \* function -> offset
    invokes,         \* offset of an INVOKEVIRTUAL -> function
    current_func,    \* the function that is being assembled
    locals,          \* its variables (the member `vars`)
    pool,            \* compile's consts
    findexes,        \* compile's function -> index in the pool
    pending,         \* the entries link has not come to
    text             \* history: the calls, each with its offset

symbols == <<constant_order, constant_map, laddrs, jmpaddrs, faddrs, invokes,
             current_func, locals, text>>
output  == <<phase, pool, findexes, pending>>
vars    == <<output, code, symbols>>

-----------------------------------------------------------------------------
(* Words and cells.                                                        *)

WordBase == ByteBase * ByteBase
MinI8    == -(ByteBase \div 2)
MaxI8    == ByteBase \div 2 - 1
MinI16   == -(WordBase \div 2)
MaxI16   == WordBase \div 2 - 1

OpCell   == [op : Mnemonics]
ByteCell == [byte : 0..(ByteBase - 1)]

Op(m) == [op |-> m]

\* Mutant of Byte: a negative value is appended as it is.
Byte_Signed(n) == [byte |-> n]

\* append<u8>, append<i8>: the low byte, negative values in two's complement.
Byte(n) == [byte |-> n % ByteBase]

\* append<u16>(n, Endian::Big) and append<u16>(n), whose default is the
\* machine's little endian.
BigEndian(n)    == <<Byte(n \div ByteBase), Byte(n)>>
LittleEndian(n) == <<Byte(n), Byte(n \div ByteBase)>>

\* Mutant of write_u16: the offset of the opcode, not of its operand.
write_u16_AtOpcode(c, offset, n) ==
    [c EXCEPT ![offset] = BigEndian(n)[1], ![offset + 1] = BigEndian(n)[2]]

\* Buffer::write<u16>(n, offset, Endian::Big)
write_u16(c, offset, n) ==
    [c EXCEPT ![offset + 1] = BigEndian(n)[1], ![offset + 2] = BigEndian(n)[2]]

\* How the bytes at an offset are read back.
ReadByte(c, offset)   == c[offset + 1].byte
ReadBig(c, offset)    == ByteBase * ReadByte(c, offset) + ReadByte(c, offset + 1)
ReadLittle(c, offset) == ByteBase * ReadByte(c, offset + 1) + ReadByte(c, offset)
Signed(n, base)       == IF n >= base \div 2 THEN n - base ELSE n

\* unordered_map::operator[]
Insert(m, k, v) == [x \in DOMAIN m \cup {k} |-> IF x = k THEN v ELSE m[x]]

\* indexOf: the first position, counted from 0, or -1.
indexOf(s, x) ==
    IF x \in ToSet(s)
      THEN (CHOOSE i \in DOMAIN s : s[i] = x /\ \A j \in DOMAIN s : j < i => s[j] # x) - 1
      ELSE -1

\* Mutant of const_name: without the sign.
const_name_Abs(v) == <<"__const", IF v < 0 THEN -v ELSE v, FALSE>>

\* "__const_300n__": PUSH_VAL's name for a constant of its own.
const_name(v) == <<"__const", IF v < 0 THEN -v ELSE v, v < 0>>
AllConsts     == ConstNames \cup {const_name(v) : v \in Values}

-----------------------------------------------------------------------------

IsMap(m, S, T) == DOMAIN m \subseteq S /\ m \in [DOMAIN m -> T]

TypeOK ==
    /\ phase \in {"assemble", "link_jumps", "link_calls", "linked", "thrown", "panicked"}
    /\ code \in Seq(OpCell \cup ByteCell)
    /\ constant_order \in Seq(AllConsts)
    /\ IsMap(constant_map, AllConsts, Values)
    /\ IsMap(laddrs, FuncNames \X Labels, 0..Len(code))
    /\ IsMap(jmpaddrs, 0..Len(code), FuncNames \X Labels)
    /\ IsMap(faddrs, FuncNames \ {"main"}, 0..Len(code))
    /\ IsMap(invokes, 0..Len(code), FuncNames)
    /\ current_func \in FuncNames
    /\ locals \in Seq(VarNames)
    /\ pool \in Seq(Int)
    /\ IsMap(findexes, FuncNames, Int)
    /\ pending \subseteq 0..Len(code)

Empty == [x \in {} |-> x]

Init ==
    /\ phase = "assemble"
    /\ code = << >>
    /\ constant_order = << >> /\ constant_map = Empty
    /\ laddrs = Empty /\ jmpaddrs = Empty
    /\ faddrs = Empty /\ invokes = Empty
    /\ current_func = "main" /\ locals = << >>
    /\ pool = << >> /\ findexes = Empty /\ pending = {}
    /\ text = << >>

-----------------------------------------------------------------------------
(* The calls of a front end.  Each front end starts with a function.       *)

Assembling == phase = "assemble" /\ Len(text) < MaxCalls
InBody     == Assembling /\ text # << >>

Call(fn, op, name, value, slot) ==
    [at |-> Len(code), fn |-> fn, op |-> op, name |-> name, value |-> value, slot |-> slot]

Record(op, name, value, slot) ==
    text' = Append(text, Call(Last(text).fn, op, name, value, slot))

is_constant(c) == c \in DOMAIN constant_map

\* Mutant of declare: a new name goes to the front.
declare_InFront(c, v) ==
    /\ constant_order' = IF is_constant(c) THEN constant_order ELSE <<c>> \o constant_order
    /\ constant_map' = Insert(constant_map, c, v)

declare(c, v) ==
    /\ constant_order' = IF is_constant(c) THEN constant_order ELSE Append(constant_order, c)
    /\ constant_map' = Insert(constant_map, c, v)

constant(c, v) ==
    /\ phase = "assemble"
    /\ declare(c, v)
    /\ UNCHANGED <<output, code, laddrs, jmpaddrs, faddrs, invokes, current_func,
                   locals, text>>

\* Mutant of header: without the OBJREF.
header_ArgsOnly(s) == BigEndian(Len(s.args)) \o BigEndian(Len(s.vars))

\* The words in front of a function's code: arguments, OBJREF included, and
\* variables.
header(s) == BigEndian(Len(s.args) + 1) \o BigEndian(Len(s.vars))

\* Mutant of function: clears the labels along with the variables.
function_ClearsLabels(s) ==
    /\ Assembling
    /\ text' = Append(text, Call(IF text = << >> THEN 1 ELSE Last(text).fn + 1,
                                 "function", s.name, Len(s.args) + 1, Len(s.vars)))
    /\ current_func' = s.name
    /\ laddrs' = Empty
    /\ IF s.name = "main"
         THEN /\ locals' = s.args \o s.vars
              /\ UNCHANGED <<code, faddrs>>
         ELSE /\ locals' = <<"OBJREF">> \o s.args \o s.vars
              /\ code' = code \o header(s)
              /\ faddrs' = Insert(faddrs, s.name, Len(code))
    /\ UNCHANGED <<output, constant_order, constant_map, jmpaddrs, invokes>>

\* Every function but main gets an address, a header and an OBJREF.
function(s) ==
    /\ Assembling
    /\ text' = Append(text, Call(IF text = << >> THEN 1 ELSE Last(text).fn + 1,
                                 "function", s.name, Len(s.args) + 1, Len(s.vars)))
    /\ current_func' = s.name
    /\ IF s.name = "main"
         THEN /\ locals' = s.args \o s.vars
              /\ UNCHANGED <<code, faddrs>>
         ELSE /\ locals' = <<"OBJREF">> \o s.args \o s.vars
              /\ code' = code \o header(s)
              /\ faddrs' = Insert(faddrs, s.name, Len(code))
    /\ UNCHANGED <<output, constant_order, constant_map, laddrs, jmpaddrs, invokes>>

\* Mutant of label_key: labels are global.
label_key_Global(l) == <<"main", l>>

\* sprint("%s#%s", current_func, name)
label_key(l) == <<current_func, l>>

label(l) ==
    /\ InBody
    /\ laddrs' = Insert(laddrs, label_key(l), Len(code))
    /\ Record("label", l, 0, 0)
    /\ UNCHANGED <<output, code, constant_order, constant_map, jmpaddrs, faddrs, invokes,
                   current_func, locals>>

Unlinked == UNCHANGED <<output, laddrs, jmpaddrs, faddrs, invokes, current_func, locals>>

\* DUP(), IADD(), ...: an opcode without operand.
Simple(m) ==
    /\ InBody
    /\ code' = Append(code, Op(m))
    /\ Record(m, current_func, 0, 0)
    /\ Unlinked /\ UNCHANGED <<constant_order, constant_map>>

BIPUSH(v) ==
    /\ InBody
    /\ code' = code \o <<Op("BIPUSH"), Byte(v)>>
    /\ Record("BIPUSH", current_func, v, 0)
    /\ Unlinked /\ UNCHANGED <<constant_order, constant_map>>

\* An unknown name throws.
LDC_W(c) ==
    /\ InBody
    /\ IF is_constant(c)
         THEN /\ code' = code \o <<Op("LDC_W")>> \o BigEndian(indexOf(constant_order, c))
              /\ Record("LDC_W", c, 0, 0)
              /\ Unlinked
         ELSE /\ phase' = "thrown"
              /\ UNCHANGED <<pool, findexes, pending, code, laddrs, jmpaddrs, faddrs,
                             invokes, current_func, locals, text>>
    /\ UNCHANGED <<constant_order, constant_map>>

\* A value that BIPUSH cannot hold becomes a constant of its own.
PUSH_VAL(v) ==
    LET cn == const_name(v)
    IN  IF v \in MinI8..MaxI8
          THEN BIPUSH(v)
          ELSE /\ InBody
               /\ IF is_constant(cn)
                    THEN UNCHANGED <<constant_order, constant_map>>
                    ELSE declare(cn, v)
               /\ code' = code \o <<Op("LDC_W")>> \o BigEndian(indexOf(constant_order', cn))
               /\ Record("LDC_W", cn, v, 0)
               /\ Unlinked

wide(index) == index > ByteBase - 1

\* WIDE(), the opcode, and the index in the width that was chosen.
var_access(m, index) ==
    IF wide(index)
      THEN <<Op("WIDE"), Op(m)>> \o LittleEndian(index)
      ELSE <<Op(m), Byte(index)>>

\* ILOAD and ISTORE; a name that is not a variable throws.
Var(m, x) ==
    LET index == indexOf(locals, x)
    IN  /\ InBody
        /\ IF index >= 0
             THEN /\ code' = code \o var_access(m, index)
                  /\ Record(m, x, 0, index)
                  /\ Unlinked
             ELSE /\ phase' = "thrown"
                  /\ UNCHANGED <<pool, findexes, pending, code, laddrs, jmpaddrs, faddrs,
                                 invokes, current_func, locals, text>>
        /\ UNCHANGED <<constant_order, constant_map>>

IINC(x, v) ==
    LET index == indexOf(locals, x)
    IN  /\ InBody
        /\ IF index >= 0
             THEN /\ code' = Append(code \o var_access("IINC", index), Byte(v))
                  /\ Record("IINC", x, v, index)
                  /\ Unlinked
             ELSE /\ phase' = "thrown"
                  /\ UNCHANGED <<pool, findexes, pending, code, laddrs, jmpaddrs, faddrs,
                                 invokes, current_func, locals, text>>
        /\ UNCHANGED <<constant_order, constant_map>>

\* GOTO, ICMPEQ, IFLT and IFEQ leave a zero for link to overwrite.
Jump(m, l) ==
    /\ InBody
    /\ jmpaddrs' = Insert(jmpaddrs, Len(code), label_key(l))
    /\ code' = code \o <<Op(m)>> \o BigEndian(0)
    /\ Record(m, l, 0, 0)
    /\ UNCHANGED <<output, constant_order, constant_map, laddrs, faddrs, invokes,
                   current_func, locals>>

INVOKEVIRTUAL(f) ==
    /\ InBody
    /\ invokes' = Insert(invokes, Len(code), f)
    /\ code' = code \o <<Op("INVOKEVIRTUAL")>> \o BigEndian(0)
    /\ Record("INVOKEVIRTUAL", f, 0, 0)
    /\ UNCHANGED <<output, constant_order, constant_map, laddrs, jmpaddrs, faddrs,
                   current_func, locals>>

-----------------------------------------------------------------------------
(* compile and link.                                                       *)

\* The pool: the constants, then the functions in the order of a hash table.
pool_of(order) ==
    [i \in DOMAIN constant_order |-> constant_map[constant_order[i]]] \o
    [i \in DOMAIN order |-> faddrs[order[i]]]

\* Mutant of findex: the size after push_back.
findex_AfterPush(order, f) == Len(constant_order) + indexOf(order, f) + 1

findex(order, f) == Len(constant_order) + indexOf(order, f)

compile ==
    /\ phase = "assemble"
    /\ text # << >>
    /\ \E order \in SetToSeqs(DOMAIN faddrs) :
          /\ pool' = pool_of(order)
          /\ findexes' = [f \in DOMAIN faddrs |-> findex(order, f)]
    /\ pending' = DOMAIN jmpaddrs
    /\ phase' = "link_jumps"
    /\ UNCHANGED <<code, symbols>>

\* Mutant of displacement: relative to the operand.
displacement_FromOperand(p) == laddrs[jmpaddrs[p]] - (p + 1)

displacement(p) == laddrs[jmpaddrs[p]] - p

\* One jump; log.panic if its label was never set.
LinkJump(p) ==
    /\ phase = "link_jumps"
    /\ IF jmpaddrs[p] \in DOMAIN laddrs
         THEN /\ code' = write_u16(code, p + 1, displacement(p))
              /\ pending' = pending \ {p}
              /\ UNCHANGED phase
         ELSE /\ phase' = "panicked"
              /\ UNCHANGED <<code, pending>>
    /\ UNCHANGED <<pool, findexes, symbols>>

LinkJumpsDone ==
    /\ phase = "link_jumps"
    /\ pending = {}
    /\ pending' = DOMAIN invokes
    /\ phase' = "link_calls"
    /\ UNCHANGED <<pool, findexes, code, symbols>>

\* One call; log.panic if the function was never defined.
LinkCall(p) ==
    /\ phase = "link_calls"
    /\ IF invokes[p] \in DOMAIN findexes
         THEN /\ code' = write_u16(code, p + 1, findexes[invokes[p]])
              /\ pending' = pending \ {p}
              /\ UNCHANGED phase
         ELSE /\ phase' = "panicked"
              /\ UNCHANGED <<code, pending>>
    /\ UNCHANGED <<pool, findexes, symbols>>

LinkDone ==
    /\ phase = "link_calls"
    /\ pending = {}
    /\ phase' = "linked"
    /\ UNCHANGED <<pool, findexes, pending, code, symbols>>

Terminated == phase \in {"linked", "thrown", "panicked"} /\ UNCHANGED vars

-----------------------------------------------------------------------------

Assemble ==
    \/ \E c \in ConstNames, v \in Values : constant(c, v)
    \/ \E s \in Signatures : function(s)
    \/ \E l \in Labels : label(l)
    \/ \E m \in UsedOps \cap SimpleOps : Simple(m)
    \/ \E v \in Values : PUSH_VAL(v)
    \/ \E c \in ConstNames : LDC_W(c)
    \/ \E m \in UsedOps \cap {"ILOAD", "ISTORE"}, x \in VarNames : Var(m, x)
    \/ \E x \in VarNames, v \in Values \cap MinI8..MaxI8 : "IINC" \in UsedOps /\ IINC(x, v)
    \/ \E m \in UsedOps \cap JumpOps, l \in Labels : Jump(m, l)
    \/ \E f \in FuncNames : INVOKEVIRTUAL(f)

Link ==
    \/ compile
    \/ \E p \in pending : LinkJump(p)
    \/ LinkJumpsDone
    \/ \E p \in pending : LinkCall(p)
    \/ LinkDone

Next == Assemble \/ Link \/ Terminated

Spec == Init /\ [][Next]_vars

-----------------------------------------------------------------------------
(* What the assembler promises of the text section.                        *)

CallsTo(ops) == {i \in DOMAIN text : text[i].op \in ops}

Truncated(n) == n % WordBase

HasOp(c, at, m) == c[at + 1] = Op(m)

\* The cells of c at t.at are the variable access t that was asked for.
VarIntact(c, t) ==
    LET last == t.at + (IF t.slot > ByteBase - 1 THEN 4 ELSE 2)
    IN  /\ IF t.slot > ByteBase - 1
             THEN /\ HasOp(c, t.at, "WIDE") /\ HasOp(c, t.at + 1, t.op)
                  /\ ReadLittle(c, t.at + 2) = Truncated(t.slot)
             ELSE HasOp(c, t.at, t.op) /\ ReadByte(c, t.at + 1) = t.slot
        /\ t.op = "IINC" => Signed(ReadByte(c, last), ByteBase) = t.value

\* The same for every call, with the constants in this order.
Intact(c, order, t) ==
    /\ t.op \in Mnemonics \ VarOps => HasOp(c, t.at, t.op)
    /\ t.op \in VarOps => VarIntact(c, t)
    /\ t.op = "BIPUSH" => Signed(ReadByte(c, t.at + 1), ByteBase) = t.value
    /\ (t.op = "LDC_W" /\ Len(order) <= WordBase) =>
          /\ ReadBig(c, t.at + 1) < Len(order)
          /\ order[ReadBig(c, t.at + 1) + 1] = t.name
    /\ (t.op = "function" /\ t.name # "main") =>
          /\ ReadBig(c, t.at) = Truncated(t.value)
          /\ ReadBig(c, t.at + 2) = Truncated(t.slot)

\* Whatever is assembled later, and whatever link overwrites, each opcode,
\* header and operand stays what its call asked for: a patch of a jump or of
\* a call touches nothing else (ijvm_assembler.cpp:252-280), and the index of
\* a constant never moves (assembler.cpp:9-14).
InstructionsIntact ==
    \A i \in DOMAIN text : Intact(code, constant_order, text[i])

DistinctFunctions ==
    \A i, j \in CallsTo({"function"}) : text[i].name = text[j].name => i = j

PoolHolds(index, v) == index < Len(pool) /\ pool[index + 1] = v

SameLabel(i, j) == text[i].fn = text[j].fn /\ text[i].name = text[j].name

\* A linked jump reaches the label of that name in its own function, although
\* other functions set labels of the same name, when the displacement fits
\* 16 bits (ijvm_assembler.cpp:71-75, 193-214, 252-266).
JumpsReachLabels ==
    (phase = "linked" /\ DistinctFunctions) =>
        \A i \in CallsTo(JumpOps), j \in CallsTo({"label"}) :
            (/\ SameLabel(i, j)
             /\ \A k \in CallsTo({"label"}) : SameLabel(k, j) => k = j
             /\ text[j].at - text[i].at \in MinI16..MaxI16) =>
                text[i].at + Signed(ReadBig(code, text[i].at + 1), WordBase) = text[j].at

\* A linked call names the pool entry that holds the address of the header of
\* the function it calls, in whatever order compile lays out the functions
\* (ijvm_assembler.cpp:19-22, 268-279).
CallsReachFunctions ==
    (phase = "linked" /\ DistinctFunctions /\ Len(pool) <= WordBase) =>
        \A i \in CallsTo({"INVOKEVIRTUAL"}), j \in CallsTo({"function"}) :
            text[i].name = text[j].name =>
                PoolHolds(ReadBig(code, text[i].at + 1), text[j].at)

\* A number that is pushed is the number the program meets at run time,
\* through BIPUSH or through the pool, unless the program declares a constant
\* with the generated name (assembler.cpp:16-30).
PushedValues ==
    (phase = "linked" /\ Len(pool) <= WordBase) =>
        \A i \in CallsTo({"LDC_W"}) :
            LET t == text[i]
            IN  (t.name \notin ConstNames /\ t.name = const_name(t.value)) =>
                    PoolHolds(ReadBig(code, t.at + 1), t.value)

FitsHeader(t) == t.value < WordBase /\ t.slot < WordBase

\* The variables a function's instructions address lie in the frame that its
\* header announces, the OBJREF in slot 0 included, when the header can hold
\* the counts (ijvm_assembler.cpp:77-97, 129-179).
SlotsInFrame ==
    \A i \in CallsTo({"function"}), j \in CallsTo(VarOps) :
        (text[i].fn = text[j].fn /\ text[i].name # "main" /\ FitsHeader(text[i])) =>
            text[j].slot < ReadBig(code, text[i].at) + ReadBig(code, text[i].at + 2)

\* link panics only over a jump to a label its function never set or a call
\* of a function that was never assembled (ijvm_assembler.cpp:255-261, 269-276).
PanicJustified ==
    phase = "panicked" =>
        \/ \E i \in CallsTo(JumpOps) : \A j \in CallsTo({"label"}) : ~ SameLabel(i, j)
        \/ \E i \in CallsTo({"INVOKEVIRTUAL"}) :
              \A j \in CallsTo({"function"}) :
                 text[j].name = text[i].name => text[j].name = "main"

=============================================================================
