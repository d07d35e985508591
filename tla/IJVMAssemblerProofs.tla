------------------------ MODULE IJVMAssemblerProofs ------------------------
(***************************************************************************)
(* Proofs about IJVMAssembler, for every width of a byte and every set of  *)
(* constants, functions, variables, labels and values.                     *)
(***************************************************************************)
EXTENDS IJVMAssembler, ProofBasics, FiniteSetTheorems, SequenceTheorems

Cell == OpCell \cup ByteCell

Names == FuncNames \cup VarNames \cup Labels \cup AllConsts

Calls ==
    [at : Nat, fn : Nat, op : Mnemonics \cup {"function", "label"},
     name : Names, value : Int, slot : Nat]

PatchedOps == JumpOps \cup {"INVOKEVIRTUAL"}

\* The cells a call appends to the text section.
Size(t) ==
    IF t.op \in SimpleOps THEN 1
    ELSE IF t.op = "BIPUSH" THEN 2
    ELSE IF t.op = "LDC_W" \/ t.op \in PatchedOps THEN 3
    ELSE IF t.op \in VarOps
      THEN (IF t.slot > ByteBase - 1 THEN 4 ELSE 2) + (IF t.op = "IINC" THEN 1 ELSE 0)
    ELSE IF t.op = "function" /\ t.name # "main" THEN 4
    ELSE 0

\* The calls lie one behind the other in the text section c.
Layout(c, tx) ==
    /\ \A i \in DOMAIN tx : tx[i].at + Size(tx[i]) <= Len(c)
    /\ \A i, j \in DOMAIN tx : i < j => tx[i].at + Size(tx[i]) <= tx[j].at

\* A call is intact, and the operand of an LDC_W is a number at all.
Good(c, order, t) ==
    /\ Intact(c, order, t)
    /\ t.op = "LDC_W" => ReadBig(c, t.at + 1) \in Nat

AllGood(c, order, tx) == \A i \in DOMAIN tx : Good(c, order, tx[i])

\* link patches jumps and calls and nothing else.
Sites ==
    /\ \A p \in DOMAIN jmpaddrs : \E i \in DOMAIN text :
          text[i].at = p /\ text[i].op \in JumpOps
    /\ \A p \in DOMAIN invokes : \E i \in DOMAIN text :
          text[i].at = p /\ text[i].op = "INVOKEVIRTUAL"

Pending ==
    /\ phase = "link_jumps" => pending \subseteq DOMAIN jmpaddrs
    /\ phase = "link_calls" => pending \subseteq DOMAIN invokes

ConstantsKnown == ToSet(constant_order) = DOMAIN constant_map

IInv ==
    /\ TypeOK
    /\ text \in Seq(Calls)
    /\ IsFiniteSet(DOMAIN faddrs)
    /\ ConstantsKnown
    /\ Sites
    /\ Pending
    /\ Layout(code, text)
    /\ AllGood(code, constant_order, text)

-----------------------------------------------------------------------------
(* Numbers and their bytes.                                                *)

LEMMA WordBaseType ==
    ByteBase \in Nat /\ ByteBase > 1 /\ WordBase \in Nat /\ WordBase > ByteBase
<1>1. ByteBase \in Nat /\ ByteBase > 1
  BY WordAssumption
<1>2. ByteBase * ByteBase >= 2 * ByteBase
  BY <1>1
<1>3. QED
  BY <1>1, <1>2 DEF WordBase

(***************************************************************************)
(* Two bytes read back give the number modulo the word.                    *)
(***************************************************************************)
LEMMA TwoBytes ==
    ASSUME NEW n \in Int
    PROVE  ByteBase * ((n \div ByteBase) % ByteBase) + (n % ByteBase) = n % WordBase
<1> DEFINE q  == n \div ByteBase
           r  == n % ByteBase
           qq == q \div ByteBase
           qr == q % ByteBase
<1>1. ByteBase \in Nat /\ ByteBase > 1 /\ WordBase \in Nat /\ WordBase > 0
  BY WordBaseType
<1>2. n = ByteBase * q + r /\ r \in 0..(ByteBase - 1) /\ q \in Int
  BY <1>1, Division
<1>3. q = ByteBase * qq + qr /\ qr \in 0..(ByteBase - 1) /\ qq \in Int
  BY <1>1, <1>2, Division
<1> HIDE DEF q, r, qq, qr
<1>4. n = WordBase * qq + (ByteBase * qr + r)
  <2>1. n = ByteBase * (ByteBase * qq + qr) + r
    BY <1>2, <1>3
  <2>2. ByteBase * (ByteBase * qq + qr) = ByteBase * ByteBase * qq + ByteBase * qr
    BY <1>1, <1>3
  <2>3. QED
    BY <1>1, <1>2, <1>3, <2>1, <2>2 DEF WordBase
<1>5. ByteBase * qr + r \in 0..(WordBase - 1)
  <2>1. ByteBase * qr <= ByteBase * (ByteBase - 1)
    BY <1>1, <1>3
  <2>2. ByteBase * (ByteBase - 1) = WordBase - ByteBase
    BY <1>1 DEF WordBase
  <2>3. ByteBase * qr >= 0 /\ ByteBase * qr \in Int
    BY <1>1, <1>3
  <2>4. QED
    BY <1>1, <1>2, <2>1, <2>2, <2>3
<1>6. n % WordBase = ByteBase * qr + r
  BY <1>1, <1>3, <1>4, <1>5, DivisionUnique
<1>7. QED
  BY <1>6 DEF q, r, qr

LEMMA SmallRemainder ==
    ASSUME NEW b \in Nat, NEW n \in 0..(b - 1)
    PROVE  n % b = n
OBVIOUS

(***************************************************************************)
(* Two's complement: a value in range is what its bits are read as.        *)
(***************************************************************************)
LEMMA SignedRemainder ==
    ASSUME NEW b \in Nat, b > 0, b % 2 = 0, NEW n \in -(b \div 2)..(b \div 2 - 1)
    PROVE  Signed(n % b, b) = n
<1>1. b = 2 * (b \div 2) /\ b \div 2 \in Nat
  OBVIOUS
<1>2. CASE n >= 0
  <2>1. n % b = n
    BY <1>1, <1>2, SmallRemainder
  <2>2. QED
    BY <1>1, <1>2, <2>1 DEF Signed
<1>3. CASE n < 0
  <2>1. n + b \in 0..(b - 1) /\ n = b * (-1) + (n + b)
    BY <1>1, <1>3
  <2>2. n % b = n + b
    BY <2>1, DivisionUnique
  <2>3. QED
    BY <1>1, <1>3, <2>2 DEF Signed
<1>4. QED
  BY <1>2, <1>3

-----------------------------------------------------------------------------
(* Cells.                                                                  *)

LEMMA ByteIsCell ==
    ASSUME NEW n \in Int
    PROVE  Byte(n) \in Cell /\ Byte(n).byte = n % ByteBase
<1>1. n % ByteBase \in 0..(ByteBase - 1)
  BY WordBaseType, Division
<1>2. QED
  BY <1>1 DEF Byte, Cell, ByteCell

LEMMA OpIsCell ==
    ASSUME NEW m \in Mnemonics
    PROVE  Op(m) \in Cell
BY DEF Op, Cell, OpCell

LEMMA BigEndianCells ==
    ASSUME NEW n \in Int
    PROVE  /\ BigEndian(n) \in Seq(Cell) /\ Len(BigEndian(n)) = 2
           /\ BigEndian(n)[1] = Byte(n \div ByteBase) /\ BigEndian(n)[2] = Byte(n)
           /\ LittleEndian(n) \in Seq(Cell) /\ Len(LittleEndian(n)) = 2
           /\ LittleEndian(n)[1] = Byte(n) /\ LittleEndian(n)[2] = Byte(n \div ByteBase)
<1>1. n \div ByteBase \in Int
  BY WordBaseType, Division
<1>2. Byte(n) \in Cell /\ Byte(n \div ByteBase) \in Cell
  BY <1>1, ByteIsCell
<1>3. QED
  BY <1>2 DEF BigEndian, LittleEndian

(***************************************************************************)
(* What is written big-endian is read big-endian; the same for little.     *)
(***************************************************************************)
LEMMA ReadBack ==
    ASSUME NEW c, NEW k \in Nat, NEW n \in Int
    PROVE  /\ (c[k + 1] = BigEndian(n)[1] /\ c[k + 2] = BigEndian(n)[2])
                 => ReadBig(c, k) = n % WordBase
           /\ (c[k + 1] = LittleEndian(n)[1] /\ c[k + 2] = LittleEndian(n)[2])
                 => ReadLittle(c, k) = n % WordBase
<1>1. n \div ByteBase \in Int
  BY WordBaseType, Division
<1>2. Byte(n).byte = n % ByteBase /\ Byte(n \div ByteBase).byte = (n \div ByteBase) % ByteBase
  BY <1>1, ByteIsCell
<1>3. ByteBase * ((n \div ByteBase) % ByteBase) + (n % ByteBase) = n % WordBase
  BY TwoBytes
<1>4. (k + 1) + 1 = k + 2
  OBVIOUS
<1>5. ASSUME c[k + 1] = BigEndian(n)[1], c[k + 2] = BigEndian(n)[2]
      PROVE  ReadBig(c, k) = n % WordBase
  <2>1. ReadByte(c, k) = (n \div ByteBase) % ByteBase
    BY <1>2, <1>5, BigEndianCells DEF ReadByte
  <2>2. ReadByte(c, k + 1) = n % ByteBase
    BY <1>2, <1>4, <1>5, BigEndianCells DEF ReadByte
  <2>3. QED
    BY <1>3, <2>1, <2>2 DEF ReadBig
<1>6. ASSUME c[k + 1] = LittleEndian(n)[1], c[k + 2] = LittleEndian(n)[2]
      PROVE  ReadLittle(c, k) = n % WordBase
  <2>1. ReadByte(c, k + 1) = (n \div ByteBase) % ByteBase
    BY <1>2, <1>4, <1>6, BigEndianCells DEF ReadByte
  <2>2. ReadByte(c, k) = n % ByteBase
    BY <1>2, <1>6, BigEndianCells DEF ReadByte
  <2>3. QED
    BY <1>3, <2>1, <2>2 DEF ReadLittle
<1>7. QED
  BY <1>5, <1>6

LEMMA IndexOf ==
    ASSUME NEW S, NEW s \in Seq(S), NEW x
    PROVE  /\ indexOf(s, x) \in Int /\ indexOf(s, x) >= -1
           /\ indexOf(s, x) >= 0 => x \in ToSet(s)
           /\ x \in ToSet(s) => /\ indexOf(s, x) \in 0..(Len(s) - 1)
                                /\ s[indexOf(s, x) + 1] = x
<1>1. CASE x \notin ToSet(s)
  BY <1>1 DEF indexOf
<1>2. CASE x \in ToSet(s)
  <2> DEFINE T == {i \in DOMAIN s : s[i] = x}
             P(i) == s[i] = x /\ \A j \in DOMAIN s : j < i => s[j] # x
  <2>1. T \in SUBSET Nat /\ T # {}
    BY <1>2 DEF ToSet
  <2>2. PICK i \in T : \A j \in T : i <= j
    BY <2>1, LeastElement
  <2>3. \A j \in DOMAIN s : j < i => s[j] # x
    BY <2>2
  <2>4. \E k \in DOMAIN s : P(k)
    BY <2>2, <2>3
  <2>5. (CHOOSE k \in DOMAIN s : P(k)) \in DOMAIN s /\ P(CHOOSE k \in DOMAIN s : P(k))
    BY <2>4
  <2>6. indexOf(s, x) = (CHOOSE k \in DOMAIN s : P(k)) - 1
    BY <1>2 DEF indexOf
  <2> HIDE DEF P
  <2>7. DEFINE k == CHOOSE k \in DOMAIN s : P(k)
  <2>8. k \in 1..Len(s) /\ s[k] = x
    BY <2>5 DEF P
  <2> HIDE DEF k
  <2>9. indexOf(s, x) = k - 1
    BY <2>6 DEF k
  <2>10. (k - 1) + 1 = k
    BY <2>8
  <2>11. QED
    BY <1>2, <2>8, <2>9, <2>10
<1>3. QED
  BY <1>1, <1>2

-----------------------------------------------------------------------------
(* The text section under appends and patches.                             *)

LEMMA OpClasses ==
    /\ SimpleOps \cap (VarOps \cup JumpOps \cup OtherOps \cup {"function", "label"}) = {}
    /\ VarOps \cap (JumpOps \cup OtherOps \cup {"function", "label"}) = {}
    /\ JumpOps \cap (OtherOps \cup {"function", "label"}) = {}
    /\ Mnemonics \cap {"function", "label"} = {}
BY DEF SimpleOps, VarOps, JumpOps, OtherOps, Mnemonics

LEMMA SizeType ==
    ASSUME NEW t \in Calls
    PROVE  Size(t) \in Nat
BY DEF Size

\* The cells a later call or a patch must leave alone.
Kept(t) == IF t.op \in PatchedOps THEN 1 ELSE Size(t)

\* The cell at offset k is the same in both.
Same(c, d, k) == d[k + 1] = c[k + 1]

LEMMA SameRead ==
    ASSUME NEW c, NEW d, NEW k \in Nat, Same(c, d, k)
    PROVE  /\ ReadByte(d, k) = ReadByte(c, k)
           /\ \A m : HasOp(d, k, m) <=> HasOp(c, k, m)
BY DEF Same, ReadByte, HasOp

LEMMA SameWord ==
    ASSUME NEW c, NEW d, NEW k \in Nat, Same(c, d, k), Same(c, d, k + 1)
    PROVE  ReadBig(d, k) = ReadBig(c, k) /\ ReadLittle(d, k) = ReadLittle(c, k)
<1>1. ReadByte(d, k) = ReadByte(c, k) /\ ReadByte(d, k + 1) = ReadByte(c, k + 1)
  BY SameRead
<1>2. QED
  BY <1>1 DEF ReadBig, ReadLittle

(***************************************************************************)
(* Which parts of Intact say something of a call.                          *)
(***************************************************************************)
LEMMA KeptSizes ==
    ASSUME NEW t \in Calls
    PROVE  /\ t.op \in Mnemonics \ VarOps => Kept(t) >= 1
           /\ t.op = "BIPUSH" => Kept(t) = 2
           /\ t.op = "LDC_W" => Kept(t) = 3
           /\ t.op \in VarOps =>
                Kept(t) = (IF t.slot > ByteBase - 1 THEN 4 ELSE 2)
                            + (IF t.op = "IINC" THEN 1 ELSE 0)
           /\ (t.op = "function" /\ t.name # "main") => Kept(t) = 4
BY DEF Kept, Size, PatchedOps, SimpleOps, VarOps, JumpOps, OtherOps, Mnemonics

LEMMA IntactParts ==
    ASSUME NEW c, NEW o, NEW t \in Calls
    PROVE  /\ t.op \in Mnemonics \ (VarOps \cup {"BIPUSH", "LDC_W"}) =>
                (Intact(c, o, t) <=> HasOp(c, t.at, t.op))
           /\ t.op = "BIPUSH" =>
                (Intact(c, o, t) <=>
                   /\ HasOp(c, t.at, t.op)
                   /\ Signed(ReadByte(c, t.at + 1), ByteBase) = t.value)
           /\ t.op = "LDC_W" =>
                (Intact(c, o, t) <=>
                   /\ HasOp(c, t.at, t.op)
                   /\ Len(o) <= WordBase =>
                        /\ ReadBig(c, t.at + 1) < Len(o)
                        /\ o[ReadBig(c, t.at + 1) + 1] = t.name)
           /\ t.op \in VarOps => (Intact(c, o, t) <=> VarIntact(c, t))
           /\ (t.op = "function" /\ t.name # "main") =>
                (Intact(c, o, t) <=>
                   /\ ReadBig(c, t.at) = Truncated(t.value)
                   /\ ReadBig(c, t.at + 2) = Truncated(t.slot))
           /\ (t.op = "label" \/ (t.op = "function" /\ t.name = "main")) => Intact(c, o, t)
<1>1. t.op \in VarOps => t.op \notin {"BIPUSH", "LDC_W", "function", "label"}
  BY DEF VarOps
<1>2. t.op \in Mnemonics => t.op # "function" /\ t.op # "label"
  BY OpClasses
<1>3. {"BIPUSH", "LDC_W"} \cap VarOps = {} /\ {"BIPUSH", "LDC_W"} \subseteq Mnemonics
  BY DEF VarOps, OtherOps, Mnemonics
<1>4. {"function", "label"} \cap (VarOps \cup Mnemonics) = {}
  BY OpClasses DEF Mnemonics
<1>5. QED
  BY <1>1, <1>2, <1>3, <1>4 DEF Intact

(***************************************************************************)
(* Whether a call is intact depends on its own cells and on the constants  *)
(* declared before it only.                                                *)
(***************************************************************************)
LEMMA GoodKept ==
    ASSUME NEW c, NEW d, NEW o \in Seq(AllConsts), NEW p \in Seq(AllConsts),
           NEW t \in Calls,
           Len(o) <= Len(p), \A k \in 1..Len(o) : p[k] = o[k],
           Good(c, o, t),
           \A k \in Nat : (t.at <= k /\ k < t.at + Kept(t)) => Same(c, d, k)
    PROVE  Good(d, p, t)
<1> Intact(c, o, t) /\ (t.op = "LDC_W" => ReadBig(c, t.at + 1) \in Nat)
  BY DEF Good
<1>1. t.at \in Nat /\ t.slot \in Nat /\ ByteBase \in Nat /\ Kept(t) \in Nat
  BY SizeType, WordBaseType DEF Calls, Kept
<1>2. t.at + 0 = t.at /\ (t.at + 1) + 1 = t.at + 2 /\ (t.at + 2) + 1 = t.at + 3
  BY <1>1
<1>3. /\ Kept(t) >= 1 => Same(c, d, t.at)
      /\ Kept(t) >= 2 => Same(c, d, t.at + 1)
      /\ Kept(t) >= 3 => Same(c, d, t.at + 2)
      /\ Kept(t) >= 4 => Same(c, d, t.at + 3)
      /\ Kept(t) >= 5 => Same(c, d, t.at + 4)
  <2>1. \A j \in Nat : j < Kept(t) => Same(c, d, t.at + j)
    <3> TAKE j \in Nat
    <3> HAVE j < Kept(t)
    <3>1. t.at + j \in Nat /\ t.at <= t.at + j /\ t.at + j < t.at + Kept(t)
      BY <1>1
    <3>2. QED
      BY <3>1
  <2>2. QED
    BY <1>1, <1>2, <2>1
<1>4. t.op = "LDC_W" => ReadBig(d, t.at + 1) = ReadBig(c, t.at + 1)
  BY <1>1, <1>2, <1>3, KeptSizes, SameWord
<1> SUFFICES Intact(d, p, t)
  BY <1>4 DEF Good
<1>5. CASE t.op \in Mnemonics \ VarOps
  <2>1. HasOp(c, t.at, t.op)
    BY <1>5 DEF Intact
  <2>2. HasOp(d, t.at, t.op)
    BY <1>1, <1>3, <1>5, <2>1, KeptSizes, SameRead
  <2>3. CASE t.op = "BIPUSH"
    <3>1. ReadByte(d, t.at + 1) = ReadByte(c, t.at + 1)
      BY <1>1, <1>3, <2>3, KeptSizes, SameRead
    <3>2. QED
      BY <2>2, <2>3, <3>1, IntactParts
  <2>4. CASE t.op = "LDC_W"
    <3> DEFINE x == ReadBig(c, t.at + 1)
    <3>1. ReadBig(d, t.at + 1) = x
      BY <1>4, <2>4
    <3>2. x \in Nat
      BY <2>4
    <3> HIDE DEF x
    <3>3. ASSUME Len(p) <= WordBase
          PROVE  x < Len(p) /\ p[x + 1] = t.name
      <4>1. Len(o) <= WordBase
        BY <3>3, WordBaseType
      <4>2. x < Len(o) /\ o[x + 1] = t.name
        BY <2>4, <4>1, IntactParts DEF x
      <4>3. x + 1 \in 1..Len(o)
        BY <3>2, <4>2
      <4>4. p[x + 1] = o[x + 1]
        BY <4>3
      <4>5. QED
        BY <3>2, <4>2, <4>4
    <3>4. QED
      BY <2>2, <2>4, <3>1, <3>3, IntactParts
  <2>5. CASE t.op \notin {"BIPUSH", "LDC_W"}
    BY <1>5, <2>2, <2>5, IntactParts
  <2>6. QED
    BY <2>3, <2>4, <2>5
<1>6. CASE t.op \in VarOps
  <2> DEFINE w == IF t.slot > ByteBase - 1 THEN 4 ELSE 2
  <2>1. Kept(t) = w + (IF t.op = "IINC" THEN 1 ELSE 0)
    BY <1>6, KeptSizes
  <2>2. VarIntact(c, t)
    BY <1>6 DEF Intact
  <2>3. t.op = "IINC" => ReadByte(d, t.at + w) = ReadByte(c, t.at + w)
    BY <1>1, <1>3, <2>1, SameRead
  <2>4. CASE t.slot > ByteBase - 1
    <3>1. HasOp(d, t.at, "WIDE") /\ HasOp(d, t.at + 1, t.op)
      BY <1>1, <1>3, <2>1, <2>2, <2>4, SameRead DEF VarIntact
    <3>2. ReadLittle(d, t.at + 2) = ReadLittle(c, t.at + 2)
      BY <1>1, <1>2, <1>3, <2>1, <2>4, SameWord
    <3>3. VarIntact(d, t)
      BY <2>2, <2>3, <2>4, <3>1, <3>2 DEF VarIntact
    <3>4. QED
      BY <1>6, <3>3, IntactParts
  <2>5. CASE ~ (t.slot > ByteBase - 1)
    <3>1. HasOp(d, t.at, t.op) /\ ReadByte(d, t.at + 1) = ReadByte(c, t.at + 1)
      BY <1>1, <1>3, <2>1, <2>2, <2>5, SameRead DEF VarIntact
    <3>2. VarIntact(d, t)
      BY <2>2, <2>3, <2>5, <3>1 DEF VarIntact
    <3>3. QED
      BY <1>6, <3>2, IntactParts
  <2>6. QED
    BY <2>4, <2>5
<1>7. CASE t.op = "function" /\ t.name # "main"
  <2>1. Kept(t) = 4
    BY <1>7, KeptSizes
  <2>2. ReadBig(d, t.at) = ReadBig(c, t.at) /\ ReadBig(d, t.at + 2) = ReadBig(c, t.at + 2)
    BY <1>1, <1>2, <1>3, <2>1, SameWord
  <2>3. QED
    BY <1>7, <2>2, IntactParts
<1>8. CASE t.op = "label" \/ (t.op = "function" /\ t.name = "main")
  BY <1>8, IntactParts
<1>9. QED
  BY <1>5, <1>6, <1>7, <1>8 DEF Calls


LEMMA CallRoom ==
    ASSUME NEW t \in Calls
    PROVE  /\ t.at \in Nat /\ Size(t) \in Nat
           /\ Kept(t) \in Nat /\ Kept(t) <= Size(t)
<1>0. t.at \in Nat /\ Size(t) \in Nat
  BY SizeType DEF Calls
<1>1. CASE t.op \in PatchedOps
  <2>1. Size(t) = 3
    BY <1>1 DEF Size, PatchedOps, SimpleOps, JumpOps
  <2>2. QED
    BY <1>0, <1>1, <2>1 DEF Kept
<1>2. CASE t.op \notin PatchedOps
  BY <1>0, <1>2 DEF Kept
<1>3. QED
  BY <1>0, <1>1, <1>2

(***************************************************************************)
(* A call that is appended with its cells disturbs none before it.         *)
(***************************************************************************)
LEMMA Appending ==
    ASSUME NEW c \in Seq(Cell), NEW u \in Seq(Cell), NEW tx \in Seq(Calls), NEW t \in Calls,
           NEW o \in Seq(AllConsts), NEW p \in Seq(AllConsts),
           Len(o) <= Len(p), \A k \in 1..Len(o) : p[k] = o[k],
           t.at = Len(c), Size(t) = Len(u),
           Layout(c, tx), AllGood(c, o, tx), Good(c \o u, p, t)
    PROVE  /\ c \o u \in Seq(Cell) /\ Len(c \o u) = Len(c) + Len(u)
           /\ Append(tx, t) \in Seq(Calls)
           /\ Layout(c \o u, Append(tx, t))
           /\ AllGood(c \o u, p, Append(tx, t))
<1> DEFINE d == c \o u
           tt == Append(tx, t)
<1>1. /\ d \in Seq(Cell) /\ Len(d) = Len(c) + Len(u)
      /\ \A k \in 1..Len(c) : d[k] = c[k]
  BY ConcatProperties
<1>2. /\ tt \in Seq(Calls) /\ Len(tt) = Len(tx) + 1 /\ tt[Len(tx) + 1] = t
      /\ \A i \in 1..Len(tx) : tt[i] = tx[i]
  BY AppendProperties
<1>3. /\ DOMAIN tx = 1..Len(tx) /\ Len(tx) \in Nat
      /\ \A i \in 1..Len(tx) : tx[i] \in Calls /\ tx[i].at \in Nat /\ Size(tx[i]) \in Nat
  <2>1. DOMAIN tx = 1..Len(tx) /\ Len(tx) \in Nat
    OBVIOUS
  <2>2. \A i \in 1..Len(tx) : tx[i] \in Calls
    OBVIOUS
  <2>3. QED
    BY <2>1, <2>2, CallRoom
<1>4. /\ \A i \in 1..Len(tx) : tx[i].at + Size(tx[i]) <= Len(c)
      /\ \A i, j \in 1..Len(tx) : i < j => tx[i].at + Size(tx[i]) <= tx[j].at
  BY <1>3 DEF Layout
<1> HIDE DEF d, tt
<1>5. Layout(d, tt)
  <2>1. ASSUME NEW i \in 1..(Len(tx) + 1)
        PROVE  tt[i].at + Size(tt[i]) <= Len(d)
    <3>1. CASE i = Len(tx) + 1
      BY <1>1, <1>2, <3>1
    <3>2. CASE i \in 1..Len(tx)
      <4>1. tt[i] = tx[i] /\ tx[i].at + Size(tx[i]) <= Len(c)
        BY <1>2, <1>4, <3>2
      <4>2. QED
        BY <1>1, <1>3, <3>2, <4>1
    <3>3. i = Len(tx) + 1 \/ i \in 1..Len(tx)
      BY <1>3
    <3>4. QED
      BY <3>1, <3>2, <3>3
  <2>2. ASSUME NEW i \in 1..(Len(tx) + 1), NEW j \in 1..(Len(tx) + 1), i < j
        PROVE  tt[i].at + Size(tt[i]) <= tt[j].at
    <3>1. i \in 1..Len(tx) /\ tt[i] = tx[i]
      BY <1>2, <2>2
    <3>2. QED
      <4>1. CASE j \in 1..Len(tx)
        BY <1>2, <1>4, <2>2, <3>1, <4>1
      <4>2. CASE j = Len(tx) + 1
        BY <1>2, <1>4, <3>1, <4>2
      <4>3. j = Len(tx) + 1 \/ j \in 1..Len(tx)
        BY <1>3
      <4>4. QED
        BY <4>1, <4>2, <4>3
  <2>3. DOMAIN tt = 1..(Len(tx) + 1)
    BY <1>2
  <2>4. QED
    BY <2>1, <2>2, <2>3 DEF Layout
<1>6. AllGood(d, p, tt)
  <2>1. ASSUME NEW i \in 1..Len(tx)
        PROVE  Good(d, p, tx[i])
    <3> DEFINE s == tx[i]
    <3>0. s \in Calls /\ s.at + Size(s) <= Len(c) /\ Len(c) \in Nat
      BY <1>3, <1>4
    <3>2. Good(c, o, s)
      BY DEF AllGood
    <3> HIDE DEF s
    <3>1. s.at \in Nat /\ Kept(s) \in Nat /\ s.at + Kept(s) <= Len(c)
      <4>1. /\ s.at \in Nat /\ Size(s) \in Nat
            /\ Kept(s) \in Nat /\ Kept(s) <= Size(s)
        BY <3>0, CallRoom
      <4>2. QED
        BY <3>0, <4>1
    <3>3. ASSUME NEW k \in Nat, s.at <= k, k < s.at + Kept(s)
          PROVE  Same(c, d, k)
      <4>1. k + 1 \in 1..Len(c)
        BY <3>0, <3>1, <3>3
      <4>2. QED
        BY <1>1, <4>1 DEF Same
    <3>4. Good(d, p, s)
      BY <3>0, <3>2, <3>3, GoodKept
    <3>5. QED
      BY <3>4 DEF s
  <2>2. ASSUME NEW i \in 1..(Len(tx) + 1)
        PROVE  Good(d, p, tt[i])
    <3>1. CASE i \in 1..Len(tx)
      BY <1>2, <2>1, <3>1
    <3>2. CASE i = Len(tx) + 1
      BY <1>2, <3>2 DEF d
    <3>3. QED
      BY <3>1, <3>2
  <2>3. DOMAIN tt = 1..(Len(tx) + 1)
    BY <1>2
  <2>4. QED
    BY <2>2, <2>3 DEF AllGood
<1>7. QED
  BY <1>1, <1>2, <1>5, <1>6 DEF d, tt

(***************************************************************************)
(* link overwrites the operand of a jump or of a call and nothing else.    *)
(***************************************************************************)
LEMMA Patching ==
    ASSUME NEW c \in Seq(Cell), NEW tx \in Seq(Calls), NEW o \in Seq(AllConsts),
           NEW n \in Int, NEW i \in DOMAIN tx, tx[i].op \in PatchedOps,
           Layout(c, tx), AllGood(c, o, tx)
    PROVE  /\ write_u16(c, tx[i].at + 1, n) \in Seq(Cell)
           /\ Len(write_u16(c, tx[i].at + 1, n)) = Len(c)
           /\ Layout(write_u16(c, tx[i].at + 1, n), tx)
           /\ AllGood(write_u16(c, tx[i].at + 1, n), o, tx)
<1> DEFINE a == tx[i].at
           d == write_u16(c, a + 1, n)
<1>1. /\ DOMAIN tx = 1..Len(tx) /\ Len(tx) \in Nat
      /\ \A j \in 1..Len(tx) : /\ tx[j] \in Calls
                                /\ tx[j].at \in Nat /\ Size(tx[j]) \in Nat
                                /\ Kept(tx[j]) \in Nat /\ Kept(tx[j]) <= Size(tx[j])
  BY CallRoom
<1>2. /\ \A j \in 1..Len(tx) : tx[j].at + Size(tx[j]) <= Len(c)
      /\ \A j, k \in 1..Len(tx) : j < k => tx[j].at + Size(tx[j]) <= tx[k].at
  BY <1>1 DEF Layout
<1>3. a \in Nat /\ Size(tx[i]) = 3 /\ Kept(tx[i]) = 1
  BY <1>1 DEF Size, Kept, PatchedOps, SimpleOps, JumpOps
<1>4. /\ d \in Seq(Cell) /\ Len(d) = Len(c)
      /\ \A k \in Nat : k < Len(c) /\ k # a + 1 /\ k # a + 2 => Same(c, d, k)
  <2> DEFINE x == BigEndian(n)[1]
             y == BigEndian(n)[2]
  <2>1. x \in Cell /\ y \in Cell
    BY BigEndianCells
  <2> HIDE DEF x, y
  <2>2. d = [c EXCEPT ![a + 2] = x, ![a + 3] = y]
    <3>1. (a + 1) + 1 = a + 2 /\ (a + 1) + 2 = a + 3
      BY <1>3
    <3>2. QED
      BY <3>1 DEF write_u16, x, y
  <2> HIDE DEF a, d
  <2>3. d \in Seq(Cell) /\ Len(d) = Len(c)
    <3>0. a + 2 \in 1..Len(c) /\ a + 3 \in 1..Len(c)
      BY <1>1, <1>2, <1>3 DEF a
    <3> DEFINE e == [c EXCEPT ![a + 2] = x]
    <3>1. e \in Seq(Cell) /\ Len(e) = Len(c)
      BY <2>1, <3>0, ExceptSeq
    <3> HIDE DEF e
    <3>2. [e EXCEPT ![a + 3] = y] \in Seq(Cell) /\ Len([e EXCEPT ![a + 3] = y]) = Len(e)
      BY <2>1, <3>0, <3>1, ExceptSeq
    <3>3. d = [e EXCEPT ![a + 3] = y]
      BY <2>2 DEF e
    <3>4. QED
      BY <3>1, <3>2, <3>3
  <2>4. ASSUME NEW k \in Nat, k < Len(c), k # a + 1, k # a + 2
        PROVE  Same(c, d, k)
    <3>1. k + 1 # a + 2 /\ k + 1 # a + 3 /\ k + 1 \in DOMAIN c
      BY <1>3, <2>4
    <3>2. d[k + 1] = c[k + 1]
      BY <2>2, <3>1
    <3>3. QED
      BY <3>2 DEF Same
  <2>5. QED
    BY <2>3, <2>4
<1> HIDE DEF a, d
<1>5. Layout(d, tx)
  BY <1>2, <1>4 DEF Layout
<1>6. ASSUME NEW j \in 1..Len(tx)
      PROVE  Good(d, o, tx[j])
  <2>1. ASSUME NEW k \in Nat, tx[j].at <= k, k < tx[j].at + Kept(tx[j])
        PROVE  Same(c, d, k)
    <3>0. k < Len(c)
      BY <1>1, <1>2, <2>1
    <3>1. CASE j = i
      <4>1. k = a
        BY <1>3, <2>1, <3>1 DEF a
      <4>2. QED
        BY <1>3, <1>4, <3>0, <4>1
    <3>2. CASE j < i
      <4>1. tx[j].at + Size(tx[j]) <= a
        BY <1>2, <3>2 DEF a
      <4>2. k < a
        BY <1>1, <1>3, <2>1, <4>1
      <4>3. QED
        BY <1>3, <1>4, <3>0, <4>2
    <3>3. CASE i < j
      <4>1. a + 3 <= tx[j].at
        BY <1>2, <1>3, <3>3 DEF a
      <4>2. k > a + 2
        BY <1>1, <1>3, <2>1, <4>1
      <4>3. QED
        BY <1>3, <1>4, <3>0, <4>2
    <3>4. j = i \/ j < i \/ i < j
      BY <1>1
    <3>5. QED
      BY <3>1, <3>2, <3>3, <3>4
  <2>2. Good(c, o, tx[j]) /\ tx[j] \in Calls
    BY DEF AllGood
  <2>3. QED
    BY <2>1, <2>2, GoodKept
<1>7. QED
  <2>1. AllGood(d, o, tx)
    BY <1>1, <1>6 DEF AllGood
  <2>2. QED
    BY <1>4, <1>5, <2>1 DEF a, d

-----------------------------------------------------------------------------
(* What each method emits is what it was asked for.                        *)

\* d holds the cells u from offset a on.
Holds(d, a, u) ==
    /\ Len(u) >= 1 => d[a + 1] = u[1]
    /\ Len(u) >= 2 => d[(a + 1) + 1] = u[2]
    /\ Len(u) >= 3 => d[(a + 1) + 2] = u[3] /\ d[(a + 2) + 1] = u[3]
    /\ Len(u) >= 4 => d[(a + 2) + 2] = u[4] /\ d[a + 2] = u[2]
    /\ Len(u) >= 5 => d[(a + 4) + 1] = u[5]

LEMMA Emitted ==
    ASSUME NEW c \in Seq(Cell), NEW u \in Seq(Cell)
    PROVE  Holds(c \o u, Len(c), u)
<1> DEFINE d == c \o u
<1>1. \A k \in 1..(Len(c) + Len(u)) : d[k] = IF k <= Len(c) THEN c[k] ELSE u[k - Len(c)]
  BY ConcatProperties
<1>2. Len(c) \in Nat /\ Len(u) \in Nat
  OBVIOUS
<1> HIDE DEF d
<1>3. ASSUME NEW k \in 1..Len(u)
      PROVE  d[Len(c) + k] = u[k]
  <2>1. Len(c) + k \in 1..(Len(c) + Len(u)) /\ ~ (Len(c) + k <= Len(c))
        /\ (Len(c) + k) - Len(c) = k
    BY <1>2
  <2>2. QED
    BY <1>1, <2>1
<1>4. /\ (Len(c) + 1) + 1 = Len(c) + 2 /\ (Len(c) + 1) + 2 = Len(c) + 3
      /\ (Len(c) + 2) + 1 = Len(c) + 3 /\ (Len(c) + 2) + 2 = Len(c) + 4
      /\ (Len(c) + 4) + 1 = Len(c) + 5
  BY <1>2
<1>5. /\ Len(u) >= 1 => 1 \in 1..Len(u)
      /\ Len(u) >= 2 => 2 \in 1..Len(u)
      /\ Len(u) >= 3 => 3 \in 1..Len(u)
      /\ Len(u) >= 4 => 4 \in 1..Len(u) /\ 2 \in 1..Len(u)
      /\ Len(u) >= 5 => 5 \in 1..Len(u)
  BY <1>2
<1>6. QED
  BY <1>3, <1>4, <1>5 DEF d, Holds

LEMMA Concatenated ==
    ASSUME NEW s \in Seq(Cell), NEW w \in Seq(Cell)
    PROVE  /\ s \o w \in Seq(Cell) /\ Len(s \o w) = Len(s) + Len(w)
           /\ \A k \in 1..Len(s) : (s \o w)[k] = s[k]
           /\ \A k \in 1..Len(w) : (s \o w)[Len(s) + k] = w[k]
<1> DEFINE d == s \o w
<1>1. /\ d \in Seq(Cell) /\ Len(d) = Len(s) + Len(w)
      /\ \A k \in 1..(Len(s) + Len(w)) : d[k] = IF k <= Len(s) THEN s[k] ELSE w[k - Len(s)]
  BY ConcatProperties
<1> HIDE DEF d
<1>2. ASSUME NEW k \in 1..Len(s)
      PROVE  d[k] = s[k]
  BY <1>1
<1>3. ASSUME NEW k \in 1..Len(w)
      PROVE  d[Len(s) + k] = w[k]
  <2>1. Len(s) + k \in 1..(Len(s) + Len(w)) /\ ~ (Len(s) + k <= Len(s))
        /\ (Len(s) + k) - Len(s) = k
    OBVIOUS
  <2>2. QED
    BY <1>1, <2>1
<1>4. QED
  BY <1>1, <1>2, <1>3 DEF d

\* What the methods emit: an opcode and a word, or two words.
OpAndWord(m, n) == <<Op(m)>> \o BigEndian(n)
Words(n, k)     == BigEndian(n) \o BigEndian(k)

LEMMA OpAndWordAppended ==
    ASSUME NEW c \in Seq(Cell), NEW m \in Mnemonics, NEW n \in Int
    PROVE  (c \o <<Op(m)>>) \o BigEndian(n) = c \o OpAndWord(m, n)
<1> DEFINE s == <<Op(m)>>
           w == BigEndian(n)
<1>1. s \in Seq(Cell) /\ w \in Seq(Cell)
  BY OpIsCell, BigEndianCells
<1> HIDE DEF s, w
<1>2. (c \o s) \o w = c \o (s \o w)
  BY <1>1, ConcatAssociative
<1>3. QED
  BY <1>2 DEF OpAndWord, s, w

LEMMA OpAndWordCells ==
    ASSUME NEW m \in Mnemonics, NEW n \in Int
    PROVE  /\ OpAndWord(m, n) \in Seq(Cell) /\ Len(OpAndWord(m, n)) = 3
           /\ OpAndWord(m, n)[1] = Op(m)
           /\ OpAndWord(m, n)[2] = BigEndian(n)[1]
           /\ OpAndWord(m, n)[3] = BigEndian(n)[2]
<1> DEFINE s == <<Op(m)>>
           w == BigEndian(n)
<1>1. s \in Seq(Cell) /\ Len(s) = 1 /\ s[1] = Op(m)
  BY OpIsCell
<1>2. w \in Seq(Cell) /\ Len(w) = 2
  BY BigEndianCells
<1> HIDE DEF s, w
<1>3. /\ s \o w \in Seq(Cell) /\ Len(s \o w) = 3
      /\ \A k \in 1..1 : (s \o w)[k] = s[k]
      /\ \A k \in 1..2 : (s \o w)[1 + k] = w[k]
  <2>1. /\ s \o w \in Seq(Cell) /\ Len(s \o w) = Len(s) + Len(w)
        /\ \A k \in 1..Len(s) : (s \o w)[k] = s[k]
        /\ \A k \in 1..Len(w) : (s \o w)[Len(s) + k] = w[k]
    BY <1>1, <1>2, Concatenated
  <2>2. QED
    BY <1>1, <1>2, <2>1
<1>4. (s \o w)[1] = s[1] /\ (s \o w)[1 + 1] = w[1] /\ (s \o w)[1 + 2] = w[2]
  BY <1>3
<1>5. QED
  BY <1>1, <1>3, <1>4 DEF s, w, OpAndWord

LEMMA WordsCells ==
    ASSUME NEW n \in Int, NEW k \in Int
    PROVE  /\ Words(n, k) \in Seq(Cell) /\ Len(Words(n, k)) = 4
           /\ Words(n, k)[1] = BigEndian(n)[1] /\ Words(n, k)[2] = BigEndian(n)[2]
           /\ Words(n, k)[3] = BigEndian(k)[1] /\ Words(n, k)[4] = BigEndian(k)[2]
<1> DEFINE s == BigEndian(n)
           w == BigEndian(k)
<1>1. s \in Seq(Cell) /\ Len(s) = 2 /\ w \in Seq(Cell) /\ Len(w) = 2
  BY BigEndianCells
<1> HIDE DEF s, w
<1>2. /\ s \o w \in Seq(Cell) /\ Len(s \o w) = 4
      /\ \A i \in 1..2 : (s \o w)[i] = s[i]
      /\ \A i \in 1..2 : (s \o w)[2 + i] = w[i]
  <2>1. /\ s \o w \in Seq(Cell) /\ Len(s \o w) = Len(s) + Len(w)
        /\ \A i \in 1..Len(s) : (s \o w)[i] = s[i]
        /\ \A i \in 1..Len(w) : (s \o w)[Len(s) + i] = w[i]
    BY <1>1, Concatenated
  <2>2. QED
    BY <1>1, <2>1
<1>3. /\ (s \o w)[1] = s[1] /\ (s \o w)[2] = s[2]
      /\ (s \o w)[2 + 1] = w[1] /\ (s \o w)[2 + 2] = w[2]
  BY <1>2
<1>4. QED
  BY <1>2, <1>3 DEF s, w, Words

\* u is what the call t is to append to c, the constants being p.
Emits(c, u, p, t) ==
    u \in Seq(Cell) /\ Size(t) = Len(u) /\ Good(c \o u, p, t)

LEMMA EmitSimple ==
    ASSUME NEW c \in Seq(Cell), NEW p, NEW t \in Calls, t.at = Len(c), t.op \in SimpleOps
    PROVE  Emits(c, <<Op(t.op)>>, p, t)
<1> DEFINE u == <<Op(t.op)>>
<1>1. t.op \in Mnemonics \ (VarOps \cup {"BIPUSH", "LDC_W"})
  BY OpClasses DEF Mnemonics, OtherOps
<1>2. u \in Seq(Cell) /\ Len(u) = 1 /\ u[1] = Op(t.op)
  BY <1>1, OpIsCell
<1> DEFINE d == c \o u
<1>0. Holds(d, Len(c), u)
  BY <1>2, Emitted
<1> HIDE DEF u, d
<1>3. d[Len(c) + 1] = Op(t.op)
  BY <1>2, <1>0 DEF Holds
<1>4. Intact(d, p, t)
  BY <1>1, <1>3, IntactParts DEF HasOp
<1>5. QED
  BY <1>1, <1>2, <1>4 DEF Emits, Good, Size, u, d

LEMMA EmitPatched ==
    ASSUME NEW c \in Seq(Cell), NEW p, NEW t \in Calls, t.at = Len(c), t.op \in PatchedOps
    PROVE  Emits(c, OpAndWord(t.op, 0), p, t)
<1> DEFINE u == OpAndWord(t.op, 0)
<1>1. t.op \in Mnemonics \ (VarOps \cup {"BIPUSH", "LDC_W"})
  BY OpClasses DEF PatchedOps, Mnemonics, OtherOps, JumpOps
<1>2. u \in Seq(Cell) /\ Len(u) = 3 /\ u[1] = Op(t.op)
  BY <1>1, OpAndWordCells
<1>3. Size(t) = 3
  BY DEF Size, PatchedOps, SimpleOps, JumpOps
<1> DEFINE d == c \o u
<1>0. Holds(d, Len(c), u)
  BY <1>2, Emitted
<1> HIDE DEF u, d
<1>4. d[Len(c) + 1] = Op(t.op)
  BY <1>2, <1>0 DEF Holds
<1>5. Intact(d, p, t)
  BY <1>1, <1>4, IntactParts DEF HasOp
<1>6. QED
  BY <1>1, <1>2, <1>3, <1>5 DEF Emits, Good, u, d

LEMMA ByteRoundTrip ==
    ASSUME NEW v \in MinI8..MaxI8
    PROVE  Signed(Byte(v).byte, ByteBase) = v
<1>1. ByteBase \in Nat /\ ByteBase > 0 /\ ByteBase % 2 = 0 /\ v \in Int
      /\ v \in -(ByteBase \div 2)..(ByteBase \div 2 - 1)
  BY WordAssumption DEF MinI8, MaxI8
<1>2. Signed(v % ByteBase, ByteBase) = v
  BY <1>1, SignedRemainder
<1>3. QED
  BY <1>1, <1>2, ByteIsCell

LEMMA EmitBIPUSH ==
    ASSUME NEW c \in Seq(Cell), NEW p, NEW t \in Calls, t.at = Len(c), t.op = "BIPUSH",
           t.value \in MinI8..MaxI8
    PROVE  Emits(c, <<Op("BIPUSH"), Byte(t.value)>>, p, t)
<1> DEFINE u == <<Op("BIPUSH"), Byte(t.value)>>
<1>1. "BIPUSH" \in Mnemonics /\ "BIPUSH" \notin SimpleOps
  BY DEF Mnemonics, OtherOps, SimpleOps
<1>2. t.value \in Int
  BY DEF Calls
<1>3. u \in Seq(Cell) /\ Len(u) = 2 /\ u[1] = Op("BIPUSH") /\ u[2] = Byte(t.value)
  BY <1>1, <1>2, OpIsCell, ByteIsCell
<1> DEFINE d == c \o u
<1>0. Holds(d, Len(c), u)
  BY <1>3, Emitted
<1> HIDE DEF u, d
<1>4. /\ d[Len(c) + 1] = Op("BIPUSH")
      /\ d[(Len(c) + 1) + 1] = Byte(t.value)
  BY <1>3, <1>0 DEF Holds
<1>5. HasOp(d, t.at, t.op)
  BY <1>4 DEF HasOp
<1>6. Signed(ReadByte(d, t.at + 1), ByteBase) = t.value
  BY <1>4, ByteRoundTrip DEF ReadByte
<1>7. Intact(d, p, t)
  BY <1>5, <1>6, IntactParts
<1>8. Size(t) = 2
  BY <1>1 DEF Size
<1>9. QED
  BY <1>3, <1>7, <1>8 DEF Emits, Good, u, d

LEMMA EmitLDC_W ==
    ASSUME NEW c \in Seq(Cell), NEW p \in Seq(AllConsts), NEW t \in Calls,
           t.at = Len(c), t.op = "LDC_W", t.name \in ToSet(p)
    PROVE  Emits(c, OpAndWord("LDC_W", indexOf(p, t.name)), p, t)
<1> DEFINE n == indexOf(p, t.name)
           u == OpAndWord("LDC_W", n)
<1>1. "LDC_W" \in Mnemonics /\ "LDC_W" \notin SimpleOps
  BY DEF Mnemonics, OtherOps, SimpleOps
<1>2. n \in 0..(Len(p) - 1) /\ p[n + 1] = t.name /\ n \in Int
  BY IndexOf
<1> HIDE DEF n
<1>3. /\ u \in Seq(Cell) /\ Len(u) = 3 /\ u[1] = Op("LDC_W")
      /\ u[2] = BigEndian(n)[1] /\ u[3] = BigEndian(n)[2]
  BY <1>1, <1>2, OpAndWordCells
<1> DEFINE d == c \o u
<1>0. Holds(d, Len(c), u)
  BY <1>3, Emitted
<1> HIDE DEF u, d
<1>4. /\ d[Len(c) + 1] = Op("LDC_W")
      /\ d[(Len(c) + 1) + 1] = BigEndian(n)[1]
      /\ d[(Len(c) + 1) + 2] = BigEndian(n)[2]
  BY <1>3, <1>0 DEF Holds
<1>5. HasOp(d, t.at, t.op)
  BY <1>4 DEF HasOp
<1>6. ReadBig(d, t.at + 1) = n % WordBase
  <2>1. t.at + 1 \in Nat
    BY DEF Calls
  <2>2. QED
    BY <1>2, <1>4, <2>1, ReadBack
<1>7. n % WordBase \in Nat
  BY <1>2, WordBaseType, Division
<1>8. ASSUME Len(p) <= WordBase
      PROVE  n % WordBase = n
  <2>1. n \in 0..(WordBase - 1) /\ WordBase \in Nat
    BY <1>2, <1>8, WordBaseType
  <2>2. QED
    BY <2>1, SmallRemainder
<1>9. Intact(d, p, t)
  <2>1. ASSUME Len(p) <= WordBase
        PROVE  /\ ReadBig(d, t.at + 1) < Len(p)
               /\ p[ReadBig(d, t.at + 1) + 1] = t.name
    <3>1. ReadBig(d, t.at + 1) = n
      BY <1>6, <1>8, <2>1
    <3>2. QED
      BY <1>2, <3>1
  <2>2. QED
    BY <1>5, <2>1, IntactParts
<1>10. Size(t) = 3
  BY <1>1 DEF Size
<1>11. QED
  BY <1>3, <1>6, <1>7, <1>9, <1>10 DEF Emits, Good, u, d, n

LEMMA EmitHeader ==
    ASSUME NEW c \in Seq(Cell), NEW p, NEW t \in Calls,
           t.at = Len(c), t.op = "function", t.name # "main"
    PROVE  Emits(c, Words(t.value, t.slot), p, t)
<1> DEFINE u == Words(t.value, t.slot)
<1>1. t.value \in Int /\ t.slot \in Int /\ t.at \in Nat /\ t.at + 2 \in Nat
  BY DEF Calls
<1>2. /\ u \in Seq(Cell) /\ Len(u) = 4
      /\ u[1] = BigEndian(t.value)[1] /\ u[2] = BigEndian(t.value)[2]
      /\ u[3] = BigEndian(t.slot)[1] /\ u[4] = BigEndian(t.slot)[2]
  BY <1>1, WordsCells
<1> DEFINE d == c \o u
<1>0. Holds(d, Len(c), u)
  BY <1>2, Emitted
<1> HIDE DEF u, d
<1>3. /\ d[t.at + 1] = BigEndian(t.value)[1]
      /\ d[t.at + 2] = BigEndian(t.value)[2]
      /\ d[(t.at + 2) + 1] = BigEndian(t.slot)[1]
      /\ d[(t.at + 2) + 2] = BigEndian(t.slot)[2]
  BY <1>2, <1>0 DEF Holds
<1>4. /\ ReadBig(d, t.at) = Truncated(t.value)
      /\ ReadBig(d, t.at + 2) = Truncated(t.slot)
  BY <1>1, <1>3, ReadBack DEF Truncated
<1>5. Intact(d, p, t)
  BY <1>4, IntactParts
<1>6. Size(t) = 4
  BY DEF Size, SimpleOps, PatchedOps, JumpOps, VarOps
<1>7. QED
  BY <1>2, <1>5, <1>6 DEF Emits, Good, u, d

\* u starts with the access of variable n by m.
Accesses(u, m, n) ==
    IF wide(n)
      THEN /\ Len(u) >= 4
           /\ u[1] = Op("WIDE") /\ u[2] = Op(m)
           /\ u[3] = LittleEndian(n)[1] /\ u[4] = LittleEndian(n)[2]
      ELSE Len(u) >= 2 /\ u[1] = Op(m) /\ u[2] = Byte(n)

LEMMA AccessCells ==
    ASSUME NEW m \in Mnemonics, NEW n \in Nat
    PROVE  /\ var_access(m, n) \in Seq(Cell)
           /\ Len(var_access(m, n)) = (IF wide(n) THEN 4 ELSE 2)
           /\ Accesses(var_access(m, n), m, n)
<1>1. CASE wide(n)
  <2> DEFINE s == <<Op("WIDE"), Op(m)>>
             w == LittleEndian(n)
  <2>1. "WIDE" \in Mnemonics
    BY DEF Mnemonics, SimpleOps
  <2>2. s \in Seq(Cell) /\ Len(s) = 2 /\ s[1] = Op("WIDE") /\ s[2] = Op(m)
    BY <2>1, OpIsCell
  <2>3. w \in Seq(Cell) /\ Len(w) = 2
    BY BigEndianCells
  <2> HIDE DEF s, w
  <2>4. /\ s \o w \in Seq(Cell) /\ Len(s \o w) = Len(s) + Len(w)
        /\ \A i \in 1..Len(s) : (s \o w)[i] = s[i]
        /\ \A i \in 1..Len(w) : (s \o w)[Len(s) + i] = w[i]
    BY <2>2, <2>3, Concatenated
  <2> DEFINE u == s \o w
  <2> HIDE DEF u
  <2>5. /\ Len(u) = 4
        /\ u[1] = s[1] /\ u[2] = s[2] /\ u[2 + 1] = w[1] /\ u[2 + 2] = w[2]
    BY <2>2, <2>3, <2>4 DEF u
  <2>6. Accesses(u, m, n)
    BY <1>1, <2>2, <2>5 DEF Accesses, w
  <2>7. var_access(m, n) = u
    BY <1>1 DEF var_access, u, s, w
  <2>8. QED
    BY <1>1, <2>4, <2>5, <2>6, <2>7 DEF u
<1>2. CASE ~ wide(n)
  <2> DEFINE u == <<Op(m), Byte(n)>>
  <2>1. u \in Seq(Cell) /\ Len(u) = 2 /\ u[1] = Op(m) /\ u[2] = Byte(n)
    BY OpIsCell, ByteIsCell
  <2>2. var_access(m, n) = u
    BY <1>2 DEF var_access
  <2> HIDE DEF u
  <2>3. QED
    BY <1>2, <2>1, <2>2 DEF Accesses
<1>3. QED
  BY <1>1, <1>2

LEMMA AccessIntact ==
    ASSUME NEW d, NEW u, NEW t \in Calls, t.op \in VarOps,
           Accesses(u, t.op, t.slot), Holds(d, t.at, u),
           t.op = "IINC" =>
              Signed(ReadByte(d, t.at + (IF wide(t.slot) THEN 4 ELSE 2)), ByteBase) = t.value
    PROVE  VarIntact(d, t)
<1>1. t.at \in Nat /\ t.slot \in Nat /\ t.at + 2 \in Nat /\ ByteBase \in Nat
  BY WordBaseType DEF Calls
<1>2. CASE wide(t.slot)
  <2>1. /\ d[t.at + 1] = Op("WIDE") /\ d[(t.at + 1) + 1] = Op(t.op)
        /\ d[(t.at + 2) + 1] = LittleEndian(t.slot)[1]
        /\ d[(t.at + 2) + 2] = LittleEndian(t.slot)[2]
    BY <1>2 DEF Accesses, Holds
  <2>2. ReadLittle(d, t.at + 2) = Truncated(t.slot)
    BY <1>1, <2>1, ReadBack DEF Truncated
  <2>3. QED
    BY <1>2, <2>1, <2>2 DEF VarIntact, HasOp, wide
<1>3. CASE ~ wide(t.slot)
  <2>1. d[t.at + 1] = Op(t.op) /\ d[(t.at + 1) + 1] = Byte(t.slot)
    BY <1>3 DEF Accesses, Holds
  <2>2. Byte(t.slot).byte = t.slot
    <3>1. t.slot \in 0..(ByteBase - 1)
      BY <1>1, <1>3 DEF wide
    <3>2. t.slot % ByteBase = t.slot
      BY <1>1, <3>1, SmallRemainder
    <3>3. QED
      BY <1>1, <3>2, ByteIsCell
  <2>3. QED
    BY <1>3, <2>1, <2>2 DEF VarIntact, HasOp, ReadByte, wide
<1>4. QED
  BY <1>2, <1>3

LEMMA EmitVar ==
    ASSUME NEW c \in Seq(Cell), NEW p, NEW t \in Calls, t.at = Len(c),
           t.op \in {"ILOAD", "ISTORE"}
    PROVE  Emits(c, var_access(t.op, t.slot), p, t)
<1> DEFINE u == var_access(t.op, t.slot)
           d == c \o u
<1>1. t.op \in VarOps /\ t.op # "IINC" /\ t.op # "LDC_W" /\ t.op \in Mnemonics
      /\ t.op \notin SimpleOps \cup PatchedOps \cup {"BIPUSH"} /\ t.slot \in Nat
  BY DEF VarOps, Mnemonics, SimpleOps, PatchedOps, JumpOps, Calls
<1>2. /\ u \in Seq(Cell) /\ Len(u) = (IF wide(t.slot) THEN 4 ELSE 2)
      /\ Accesses(u, t.op, t.slot)
  BY <1>1, AccessCells
<1>3. Holds(d, Len(c), u)
  BY <1>2, Emitted
<1> HIDE DEF u, d
<1>4. VarIntact(d, t)
  BY <1>1, <1>2, <1>3, AccessIntact
<1>5. Intact(d, p, t)
  BY <1>1, <1>4, IntactParts
<1>6. Size(t) = Len(u)
  BY <1>1, <1>2 DEF Size, wide
<1>7. QED
  BY <1>1, <1>2, <1>5, <1>6 DEF Emits, Good, u, d

LEMMA EmitIINC ==
    ASSUME NEW c \in Seq(Cell), NEW p, NEW t \in Calls, t.at = Len(c),
           t.op = "IINC", t.value \in MinI8..MaxI8
    PROVE  Emits(c, var_access("IINC", t.slot) \o <<Byte(t.value)>>, p, t)
<1> DEFINE s == var_access("IINC", t.slot)
           w == <<Byte(t.value)>>
           k == IF wide(t.slot) THEN 4 ELSE 2
<1>1. t.op \in VarOps /\ t.op # "LDC_W" /\ t.op \in Mnemonics
      /\ t.op \notin SimpleOps \cup PatchedOps \cup {"BIPUSH"} /\ t.slot \in Nat
      /\ t.value \in Int /\ "IINC" \in Mnemonics
  BY DEF VarOps, Mnemonics, SimpleOps, PatchedOps, JumpOps, Calls
<1>2. s \in Seq(Cell) /\ Len(s) = k /\ Accesses(s, "IINC", t.slot)
  BY <1>1, AccessCells
<1>3. w \in Seq(Cell) /\ Len(w) = 1 /\ w[1] = Byte(t.value)
  BY <1>1, ByteIsCell
<1> HIDE DEF s, w
<1>4. /\ s \o w \in Seq(Cell) /\ Len(s \o w) = Len(s) + Len(w)
      /\ \A i \in 1..Len(s) : (s \o w)[i] = s[i]
      /\ \A i \in 1..Len(w) : (s \o w)[Len(s) + i] = w[i]
  BY <1>2, <1>3, Concatenated
<1> DEFINE u == s \o w
           d == c \o u
<1>5. Holds(d, Len(c), u)
  BY <1>4, Emitted
<1> HIDE DEF u, d
<1>6. /\ u \in Seq(Cell) /\ Len(u) = k + 1 /\ u[k + 1] = Byte(t.value)
      /\ \A i \in 1..k : u[i] = s[i]
  BY <1>2, <1>3, <1>4 DEF u
<1>7. Accesses(u, "IINC", t.slot)
  <2>1. u[1] = s[1] /\ u[2] = s[2] /\ (k = 4 => u[3] = s[3] /\ u[4] = s[4])
    BY <1>6
  <2>2. QED
    BY <1>2, <1>6, <2>1 DEF Accesses
<1>8. d[(t.at + k) + 1] = Byte(t.value)
  <2>1. CASE wide(t.slot)
    BY <1>5, <1>6, <2>1 DEF Holds
  <2>2. CASE ~ wide(t.slot)
    <3>1. d[(t.at + 2) + 1] = u[3]
      BY <1>5, <1>6, <2>2 DEF Holds
    <3>2. QED
      BY <1>6, <2>2, <3>1
  <2>3. QED
    BY <2>1, <2>2
<1>9. Signed(ReadByte(d, t.at + k), ByteBase) = t.value
  BY <1>8, ByteRoundTrip DEF ReadByte
<1>10. VarIntact(d, t)
  BY <1>1, <1>5, <1>7, <1>9, AccessIntact
<1>11. Intact(d, p, t)
  BY <1>1, <1>10, IntactParts
<1>12. Size(t) = Len(u)
  BY <1>1, <1>6 DEF Size, wide
<1>13. QED
  BY <1>1, <1>6, <1>11, <1>12 DEF Emits, Good, u, d, s, w

-----------------------------------------------------------------------------
(* The invariant.                                                          *)

LEMMA InitInv == Init => IInv
<1> SUFFICES ASSUME Init
             PROVE  IInv
  OBVIOUS
<1>1. TypeOK
  <2>1. \A S, T : IsMap(Empty, S, T)
    BY DEF IsMap, Empty
  <2>2. "main" \in FuncNames
    BY CallsAssumption
  <2>3. code = << >> /\ constant_order = << >> /\ locals = << >> /\ pool = << >> /\ pending = {}
    BY DEF Init
  <2>4. /\ constant_map = Empty /\ laddrs = Empty /\ jmpaddrs = Empty
        /\ faddrs = Empty /\ invokes = Empty /\ findexes = Empty
        /\ phase = "assemble" /\ current_func = "main"
    BY DEF Init
  <2>5. QED
    BY <2>1, <2>2, <2>3, <2>4 DEF TypeOK
<1>2. text \in Seq(Calls) /\ DOMAIN text = {}
  BY DEF Init
<1>3. IsFiniteSet(DOMAIN faddrs)
  BY FS_EmptySet DEF Init, Empty
<1>4. ConstantsKnown
  BY DEF Init, ConstantsKnown, ToSet, Empty
<1>5. Sites /\ Pending
  BY DEF Init, Sites, Pending, Empty
<1>6. Layout(code, text) /\ AllGood(code, constant_order, text)
  BY <1>2 DEF Layout, AllGood
<1>7. QED
  BY <1>1, <1>2, <1>3, <1>4, <1>5, <1>6 DEF IInv

LEMMA MapGrows ==
    ASSUME NEW m, NEW S, NEW T, NEW S1, NEW T1, IsMap(m, S, T), S \subseteq S1, T \subseteq T1
    PROVE  IsMap(m, S1, T1)
BY DEF IsMap

LEMMA InsertIsMap ==
    ASSUME NEW m, NEW S, NEW T, NEW k \in S, NEW v \in T, IsMap(m, S, T)
    PROVE  IsMap(Insert(m, k, v), S, T)
BY DEF IsMap, Insert

LEMMA InsertDomain ==
    ASSUME NEW m, NEW k, NEW v
    PROVE  DOMAIN Insert(m, k, v) = DOMAIN m \cup {k}
BY DEF Insert

(***************************************************************************)
(* What every method of the assembler does: it appends a call t and its    *)
(* cells u, and at most one entry to each table.                           *)
(***************************************************************************)
TablesStep(t) ==
    /\ phase = "assemble" /\ UNCHANGED output
    /\ constant_order' \in Seq(AllConsts) /\ Len(constant_order) <= Len(constant_order')
    /\ \A k \in 1..Len(constant_order) : constant_order'[k] = constant_order[k]
    /\ IsMap(constant_map', AllConsts, Values) /\ ConstantsKnown'
    /\ current_func' \in FuncNames /\ locals' \in Seq(VarNames)
    /\ IsMap(laddrs', FuncNames \X Labels, 0..Len(code))
    /\ IsMap(jmpaddrs', 0..Len(code), FuncNames \X Labels)
    /\ IsMap(faddrs', FuncNames \ {"main"}, 0..Len(code))
    /\ IsMap(invokes', 0..Len(code), FuncNames)
    /\ IsFiniteSet(DOMAIN faddrs')
    /\ \A p \in DOMAIN jmpaddrs' \ DOMAIN jmpaddrs : p = t.at /\ t.op \in JumpOps
    /\ \A p \in DOMAIN invokes' \ DOMAIN invokes : p = t.at /\ t.op = "INVOKEVIRTUAL"

EmitsStep(u, t) ==
    /\ t \in Calls /\ t.at = Len(code)
    /\ Emits(code, u, constant_order', t)
    /\ code' = code \o u
    /\ text' = Append(text, t)

LEMMA EmitStep ==
    ASSUME IInv, NEW u, NEW t, TablesStep(t), EmitsStep(u, t)
    PROVE  IInv'
<1> USE DEF TablesStep, EmitsStep, output
<1>1. /\ code \in Seq(Cell) /\ constant_order \in Seq(AllConsts) /\ text \in Seq(Calls)
      /\ Layout(code, text) /\ AllGood(code, constant_order, text)
      /\ pool \in Seq(Int) /\ IsMap(findexes, FuncNames, Int) /\ pending \subseteq 0..Len(code)
      /\ t \in Calls
  BY DEF IInv, TypeOK, Cell
<1>2. u \in Seq(Cell) /\ Size(t) = Len(u) /\ Good(code', constant_order', t)
  BY DEF Emits
<1>3. /\ code' \in Seq(Cell) /\ Len(code') = Len(code) + Len(u)
      /\ text' \in Seq(Calls)
      /\ Layout(code', text') /\ AllGood(code', constant_order', text')
  BY <1>1, <1>2, Appending
<1>4. 0..Len(code) \subseteq 0..Len(code')
  BY <1>1, <1>2, <1>3
<1>5. TypeOK'
  <2>1. /\ IsMap(laddrs', FuncNames \X Labels, 0..Len(code'))
        /\ IsMap(jmpaddrs', 0..Len(code'), FuncNames \X Labels)
        /\ IsMap(faddrs', FuncNames \ {"main"}, 0..Len(code'))
        /\ IsMap(invokes', 0..Len(code'), FuncNames)
    BY <1>4, MapGrows
  <2>2. pending' \subseteq 0..Len(code')
    BY <1>1, <1>4
  <2>3. pool' \in Seq(Int) /\ IsMap(findexes', FuncNames, Int)
    BY <1>1
  <2>4. code' \in Seq(OpCell \cup ByteCell)
    BY <1>3 DEF Cell
  <2>5. QED
    BY <2>1, <2>2, <2>3, <2>4 DEF TypeOK
<1>6. Sites'
  <2>1. /\ \A i \in DOMAIN text : i \in DOMAIN text' /\ text'[i] = text[i]
        /\ Len(text) + 1 \in DOMAIN text' /\ text'[Len(text) + 1] = t
    BY <1>1, AppendProperties
  <2>2. Sites
    BY DEF IInv
  <2>3. ASSUME NEW p \in DOMAIN jmpaddrs'
        PROVE  \E i \in DOMAIN text' : text'[i].at = p /\ text'[i].op \in JumpOps
    <3>1. CASE p \in DOMAIN jmpaddrs
      BY <2>1, <2>2, <3>1 DEF Sites
    <3>2. CASE p \notin DOMAIN jmpaddrs
      BY <2>1, <3>2
    <3>3. QED
      BY <3>1, <3>2
  <2>4. ASSUME NEW p \in DOMAIN invokes'
        PROVE  \E i \in DOMAIN text' : text'[i].at = p /\ text'[i].op = "INVOKEVIRTUAL"
    <3>1. CASE p \in DOMAIN invokes
      BY <2>1, <2>2, <3>1 DEF Sites
    <3>2. CASE p \notin DOMAIN invokes
      BY <2>1, <3>2
    <3>3. QED
      BY <3>1, <3>2
  <2>5. QED
    BY <2>3, <2>4 DEF Sites
<1>7. Pending'
  BY DEF Pending
<1>8. QED
  BY <1>3, <1>5, <1>6, <1>7 DEF IInv

\* What the invariant says of the tables, at the length of the code.
LEMMA Tables ==
    ASSUME IInv
    PROVE  /\ code \in Seq(Cell) /\ Len(code) \in Nat /\ Len(code) \in 0..Len(code)
           /\ constant_order \in Seq(AllConsts) /\ Len(constant_order) \in Nat
           /\ IsMap(constant_map, AllConsts, Values) /\ ConstantsKnown
           /\ current_func \in FuncNames /\ locals \in Seq(VarNames)
           /\ IsMap(laddrs, FuncNames \X Labels, 0..Len(code))
           /\ IsMap(jmpaddrs, 0..Len(code), FuncNames \X Labels)
           /\ IsMap(faddrs, FuncNames \ {"main"}, 0..Len(code))
           /\ IsMap(invokes, 0..Len(code), FuncNames)
           /\ IsFiniteSet(DOMAIN faddrs)
<1>1. code \in Seq(Cell)
  BY DEF IInv, TypeOK, Cell
<1>2. Len(code) \in Nat /\ Len(code) \in 0..Len(code)
  BY <1>1
<1>3. constant_order \in Seq(AllConsts) /\ Len(constant_order) \in Nat
  BY DEF IInv, TypeOK
<1>4. QED
  BY <1>1, <1>2, <1>3 DEF IInv, TypeOK

\* The call that Record appends.
Recorded(op, name, value, slot) == Call(Last(text).fn, op, name, value, slot)

LEMMA RecordedCall ==
    ASSUME IInv, text # << >>,
           NEW op \in Mnemonics \cup {"function", "label"},
           NEW name \in Names,
           NEW value \in Int, NEW slot \in Nat
    PROVE  /\ Recorded(op, name, value, slot) \in Calls
           /\ Recorded(op, name, value, slot).at = Len(code)
           /\ Recorded(op, name, value, slot).op = op
           /\ Recorded(op, name, value, slot).name = name
           /\ Recorded(op, name, value, slot).value = value
           /\ Recorded(op, name, value, slot).slot = slot
<1>1. text \in Seq(Calls)
  BY DEF IInv
<1>2. Last(text) \in Calls
  BY <1>1, FrontLast
<1>3. Last(text).fn \in Nat
  BY <1>2 DEF Calls
<1>4. Len(code) \in Nat
  BY Tables
<1>5. QED
  BY <1>3, <1>4 DEF Recorded, Call, Calls

(***************************************************************************)
(* The methods that touch no table.                                        *)
(***************************************************************************)
Plain(op, name, value, slot, u) ==
    /\ op \in Mnemonics /\ name \in Names /\ value \in Int /\ slot \in Nat
    /\ InBody /\ Record(op, name, value, slot) /\ Unlinked
    /\ UNCHANGED <<constant_order, constant_map>>
    /\ code' = code \o u
    /\ Emits(code, u, constant_order, Recorded(op, name, value, slot))

LEMMA PlainStep ==
    ASSUME IInv, NEW op, NEW name, NEW value, NEW slot, NEW u,
           Plain(op, name, value, slot, u)
    PROVE  IInv'
<1> USE DEF Plain
<1> DEFINE t == Recorded(op, name, value, slot)
<1>1. t \in Calls /\ t.at = Len(code)
  BY RecordedCall DEF InBody
<1>2. text' = Append(text, t)
  BY DEF Record, Recorded
<1> HIDE DEF t
<1>3. UNCHANGED <<laddrs, jmpaddrs, faddrs, invokes, current_func, locals,
                  constant_order, constant_map>>
      /\ UNCHANGED output
  BY DEF Unlinked
<1>4. EmitsStep(u, t)
  BY <1>1, <1>2, <1>3 DEF EmitsStep, t
<1>5. TablesStep(t)
  BY <1>3, Tables DEF TablesStep, InBody, Assembling, ConstantsKnown
<1>6. QED
  BY <1>4, <1>5, EmitStep

LEMMA SimpleInv ==
    ASSUME IInv, NEW m \in SimpleOps, Simple(m)
    PROVE  IInv'
<1> DEFINE t == Recorded(m, current_func, 0, 0)
<1>1. m \in Mnemonics /\ current_func \in FuncNames
  BY Tables DEF Mnemonics
<1>2. InBody /\ Record(m, current_func, 0, 0) /\ Unlinked
      /\ UNCHANGED <<constant_order, constant_map>> /\ code' = Append(code, Op(m))
  BY DEF Simple
<1>3. t \in Calls /\ t.at = Len(code) /\ t.op = m
  BY <1>1, <1>2, RecordedCall DEF InBody, Names
<1> HIDE DEF t
<1>4. Emits(code, <<Op(m)>>, constant_order, t)
  BY <1>3, Tables, EmitSimple
<1>5. code' = code \o <<Op(m)>>
  BY <1>1, <1>2, Tables, OpIsCell, AppendIsConcat
<1>6. QED
  <2>1. Plain(m, current_func, 0, 0, <<Op(m)>>)
    BY <1>1, <1>2, <1>4, <1>5 DEF Plain, Names, t
  <2>2. QED
    BY <2>1, PlainStep

LEMMA BipushInv ==
    ASSUME IInv, NEW v \in MinI8..MaxI8, BIPUSH(v)
    PROVE  IInv'
<1> DEFINE t == Recorded("BIPUSH", current_func, v, 0)
<1>1. "BIPUSH" \in Mnemonics /\ current_func \in FuncNames /\ v \in Int
  BY Tables, WordAssumption DEF Mnemonics, OtherOps, MinI8, MaxI8
<1>2. InBody /\ Record("BIPUSH", current_func, v, 0) /\ Unlinked
      /\ UNCHANGED <<constant_order, constant_map>>
      /\ code' = code \o <<Op("BIPUSH"), Byte(v)>>
  BY DEF BIPUSH
<1>3. t \in Calls /\ t.at = Len(code) /\ t.op = "BIPUSH" /\ t.value = v
  BY <1>1, <1>2, RecordedCall DEF InBody, Names
<1> HIDE DEF t
<1>4. Emits(code, <<Op("BIPUSH"), Byte(v)>>, constant_order, t)
  BY <1>3, Tables, EmitBIPUSH
<1>5. QED
  <2>1. Plain("BIPUSH", current_func, v, 0, <<Op("BIPUSH"), Byte(v)>>)
    BY <1>1, <1>2, <1>4 DEF Plain, Names, t
  <2>2. QED
    BY <2>1, PlainStep

\* The action stopped the program with an exception.
Thrown ==
    /\ phase' = "thrown"
    /\ UNCHANGED <<pool, findexes, pending, code, laddrs, jmpaddrs, faddrs, invokes,
                   current_func, locals, text, constant_order, constant_map>>

LEMMA ThrownInv ==
    ASSUME IInv, Thrown
    PROVE  IInv'
<1>1. TypeOK'
  BY DEF IInv, TypeOK, IsMap, Thrown
<1>2. Sites' /\ Pending' /\ ConstantsKnown'
  BY DEF IInv, Sites, Pending, ConstantsKnown, Thrown
<1>3. Layout(code, text)' /\ AllGood(code, constant_order, text)'
  BY DEF IInv, Layout, AllGood, Good, Intact, VarIntact, Thrown
<1>4. QED
  BY <1>1, <1>2, <1>3 DEF IInv, Thrown

LEMMA IndexInt ==
    ASSUME IInv, NEW x
    PROVE  /\ indexOf(locals, x) \in Int
           /\ indexOf(locals, x) >= 0 => indexOf(locals, x) \in Nat
BY Tables, IndexOf

LEMMA LdcInv ==
    ASSUME IInv, NEW c \in ConstNames, LDC_W(c)
    PROVE  IInv'
<1>1. CASE ~ is_constant(c)
  <2>1. Thrown
    BY <1>1 DEF LDC_W, Thrown
  <2>2. QED
    BY <2>1, ThrownInv
<1>2. CASE is_constant(c)
  <2> DEFINE t == Recorded("LDC_W", c, 0, 0)
             u == OpAndWord("LDC_W", indexOf(constant_order, c))
  <2>1. "LDC_W" \in Mnemonics /\ c \in Names /\ c \in AllConsts
    BY DEF Mnemonics, OtherOps, Names, AllConsts
  <2>2. InBody /\ Record("LDC_W", c, 0, 0) /\ Unlinked
        /\ UNCHANGED <<constant_order, constant_map>>
        /\ code' = (code \o <<Op("LDC_W")>>) \o BigEndian(indexOf(constant_order, c))
    BY <1>2 DEF LDC_W
  <2>3. c \in ToSet(constant_order)
    BY <1>2, Tables DEF is_constant, ConstantsKnown
  <2>4. t \in Calls /\ t.at = Len(code) /\ t.op = "LDC_W" /\ t.name = c
    BY <2>1, <2>2, RecordedCall DEF InBody
  <2> HIDE DEF t
  <2>5. Emits(code, u, constant_order, t)
    BY <2>3, <2>4, Tables, EmitLDC_W
  <2>6. code' = code \o u
    <3>1. constant_order \in Seq(AllConsts) /\ code \in Seq(Cell)
      BY Tables
    <3>2. indexOf(constant_order, c) \in Int
      BY <3>1, IndexOf
    <3>3. QED
      BY <2>1, <2>2, <3>1, <3>2, OpAndWordAppended
  <2> HIDE DEF u
  <2>7. Plain("LDC_W", c, 0, 0, u)
    BY <2>1, <2>2, <2>5, <2>6 DEF Plain, t
  <2>8. QED
    BY <2>7, PlainStep
<1>3. QED
  BY <1>1, <1>2

LEMMA VarInv ==
    ASSUME IInv, NEW m \in {"ILOAD", "ISTORE"}, NEW x \in VarNames, Var(m, x)
    PROVE  IInv'
<1> DEFINE n == indexOf(locals, x)
<1>1. CASE ~ (n >= 0)
  <2>1. Thrown
    BY <1>1 DEF Var, Thrown
  <2>2. QED
    BY <2>1, ThrownInv
<1>2. CASE n >= 0
  <2> DEFINE t == Recorded(m, x, 0, n)
             u == var_access(m, n)
  <2>1. m \in Mnemonics /\ x \in Names /\ n \in Nat
    BY <1>2, IndexInt DEF Mnemonics, VarOps, Names
  <2>2. InBody /\ Record(m, x, 0, n) /\ Unlinked
        /\ UNCHANGED <<constant_order, constant_map>> /\ code' = code \o u
    BY <1>2 DEF Var
  <2> HIDE DEF n
  <2>3. t \in Calls /\ t.at = Len(code) /\ t.op = m /\ t.slot = n
    BY <2>1, <2>2, RecordedCall DEF InBody
  <2> HIDE DEF t
  <2>4. Emits(code, u, constant_order, t)
    BY <2>3, Tables, EmitVar
  <2> HIDE DEF u
  <2>5. Plain(m, x, 0, n, u)
    BY <2>1, <2>2, <2>4 DEF Plain, t
  <2>6. QED
    BY <2>5, PlainStep
<1>3. QED
  BY <1>1, <1>2

LEMMA IincInv ==
    ASSUME IInv, NEW x \in VarNames, NEW v \in MinI8..MaxI8, IINC(x, v)
    PROVE  IInv'
<1> DEFINE n == indexOf(locals, x)
<1>1. CASE ~ (n >= 0)
  <2>1. Thrown
    BY <1>1 DEF IINC, Thrown
  <2>2. QED
    BY <2>1, ThrownInv
<1>2. CASE n >= 0
  <2> DEFINE t == Recorded("IINC", x, v, n)
             s == var_access("IINC", n)
             u == s \o <<Byte(v)>>
  <2>1. /\ "IINC" \in Mnemonics /\ x \in Names /\ n \in Nat
        /\ v \in Int
    BY <1>2, IndexInt, WordAssumption DEF Mnemonics, VarOps, Names, MinI8, MaxI8
  <2>2. InBody /\ Record("IINC", x, v, n) /\ Unlinked
        /\ UNCHANGED <<constant_order, constant_map>> /\ code' = Append(code \o s, Byte(v))
    BY <1>2 DEF IINC
  <2> HIDE DEF n
  <2>3. t \in Calls /\ t.at = Len(code) /\ t.op = "IINC" /\ t.slot = n /\ t.value = v
    BY <2>1, <2>2, RecordedCall DEF InBody
  <2> HIDE DEF t
  <2>4. Emits(code, u, constant_order, t)
    BY <2>3, Tables, EmitIINC
  <2>5. code' = code \o u
    <3>1. s \in Seq(Cell) /\ Byte(v) \in Cell
      BY <2>1, AccessCells, ByteIsCell
    <3> HIDE DEF s
    <3>2. code \o s \in Seq(Cell)
      BY <3>1, Tables, Concatenated
    <3>3. Append(code \o s, Byte(v)) = (code \o s) \o <<Byte(v)>>
      BY <3>1, <3>2, AppendIsConcat
    <3>4. <<Byte(v)>> \in Seq(Cell)
      BY <3>1
    <3>5. (code \o s) \o <<Byte(v)>> = code \o u
      <4> DEFINE w == <<Byte(v)>>
      <4>1. w \in Seq(Cell) /\ code \in Seq(Cell)
        BY <3>4, Tables
      <4> HIDE DEF w
      <4>2. (code \o s) \o w = code \o (s \o w)
        BY <3>1, <4>1, ConcatAssociative
      <4>3. QED
        BY <4>2 DEF w
    <3>6. QED
      BY <2>2, <3>3, <3>5
  <2> HIDE DEF u
  <2>6. Plain("IINC", x, v, n, u)
    BY <2>1, <2>2, <2>4, <2>5 DEF Plain, t
  <2>7. QED
    BY <2>6, PlainStep
<1>3. QED
  BY <1>1, <1>2

(***************************************************************************)
(* Declaring a constant moves none that was declared before.               *)
(***************************************************************************)
Declared ==
    /\ constant_order' \in Seq(AllConsts) /\ Len(constant_order) <= Len(constant_order')
    /\ \A k \in 1..Len(constant_order) : constant_order'[k] = constant_order[k]
    /\ IsMap(constant_map', AllConsts, Values) /\ ConstantsKnown'

LEMMA NothingDeclared ==
    ASSUME IInv, UNCHANGED <<constant_order, constant_map>>
    PROVE  Declared
BY Tables DEF Declared, ConstantsKnown

LEMMA DeclareStep ==
    ASSUME IInv, NEW c \in AllConsts, NEW v \in Values, declare(c, v)
    PROVE  Declared /\ c \in ToSet(constant_order')
<1>1. /\ constant_order \in Seq(AllConsts) /\ ToSet(constant_order) = DOMAIN constant_map
      /\ IsMap(constant_map, AllConsts, Values)
  BY Tables DEF ConstantsKnown
<1>2. constant_map' = Insert(constant_map, c, v)
  BY DEF declare
<1>3. /\ IsMap(constant_map', AllConsts, Values)
      /\ DOMAIN constant_map' = DOMAIN constant_map \cup {c}
  BY <1>1, <1>2, InsertIsMap, InsertDomain
<1>4. CASE is_constant(c)
  <2>1. constant_order' = constant_order /\ c \in DOMAIN constant_map
    BY <1>4 DEF declare, is_constant
  <2>2. DOMAIN constant_map' = ToSet(constant_order')
    BY <1>1, <1>3, <2>1
  <2>3. QED
    BY <1>1, <1>3, <2>1, <2>2 DEF Declared, ConstantsKnown
<1>5. CASE ~ is_constant(c)
  <2>1. constant_order' = Append(constant_order, c)
    BY <1>5 DEF declare
  <2>2. ToSet(constant_order') = DOMAIN constant_map'
    BY <1>1, <1>3, <2>1, AppendToSet
  <2>3. /\ constant_order' \in Seq(AllConsts) /\ Len(constant_order) <= Len(constant_order')
        /\ \A k \in 1..Len(constant_order) : constant_order'[k] = constant_order[k]
    BY <1>1, <2>1, AppendProperties
  <2>4. QED
    BY <1>3, <2>2, <2>3 DEF Declared, ConstantsKnown
<1>6. QED
  BY <1>4, <1>5

LEMMA ConstantInv ==
    ASSUME IInv, NEW c \in ConstNames, NEW v \in Values, constant(c, v)
    PROVE  IInv'
<1>1. UNCHANGED <<output, code, laddrs, jmpaddrs, faddrs, invokes, current_func, locals, text>>
      /\ declare(c, v) /\ c \in AllConsts
  BY DEF constant, AllConsts
<1>2. Declared
  BY <1>1, DeclareStep
<1>3. TypeOK'
  <2>1. /\ UNCHANGED <<phase, pool, findexes, pending, code, laddrs, jmpaddrs, faddrs,
                       invokes, current_func, locals>>
        /\ TypeOK
    BY <1>1 DEF IInv, output
  <2>2. constant_order' \in Seq(AllConsts) /\ IsMap(constant_map', AllConsts, Values)
    BY <1>2 DEF Declared
  <2>3. QED
    BY <2>1, <2>2 DEF TypeOK
<1>4. Sites' /\ Pending' /\ IsFiniteSet(DOMAIN faddrs)' /\ (text \in Seq(Calls))'
  BY <1>1 DEF IInv, Sites, Pending, output
<1>5. Layout(code, text)'
  BY <1>1 DEF IInv, Layout
<1>6. AllGood(code, constant_order, text)'
  <2>1. text \in Seq(Calls) /\ AllGood(code, constant_order, text)
        /\ constant_order \in Seq(AllConsts)
    BY DEF IInv, TypeOK
  <2>2. ASSUME NEW i \in DOMAIN text
        PROVE  Good(code, constant_order', text[i])
    <3>1. text[i] \in Calls /\ Good(code, constant_order, text[i])
      BY <2>1 DEF AllGood
    <3>2. \A k \in Nat : Same(code, code, k)
      BY DEF Same
    <3>3. QED
      BY <1>2, <2>1, <3>1, <3>2, GoodKept DEF Declared
  <2>3. QED
    BY <1>1, <2>2 DEF AllGood
<1>7. QED
  BY <1>2, <1>3, <1>4, <1>5, <1>6 DEF IInv, Declared

LEMMA PushValInv ==
    ASSUME IInv, NEW v \in Values, PUSH_VAL(v)
    PROVE  IInv'
<1>1. CASE v \in MinI8..MaxI8
  BY <1>1, BipushInv DEF PUSH_VAL
<1>2. CASE v \notin MinI8..MaxI8
  <2> DEFINE cn == const_name(v)
             t == Recorded("LDC_W", cn, v, 0)
             n == indexOf(constant_order', cn)
             u == OpAndWord("LDC_W", n)
  <2>1. "LDC_W" \in Mnemonics /\ cn \in Names /\ cn \in AllConsts /\ v \in Int
    BY CallsAssumption DEF Mnemonics, OtherOps, Names, AllConsts
  <2> HIDE DEF cn
  <2>2. /\ InBody /\ Record("LDC_W", cn, v, 0) /\ Unlinked
        /\ IF is_constant(cn)
             THEN UNCHANGED <<constant_order, constant_map>>
             ELSE declare(cn, v)
        /\ code' = (code \o <<Op("LDC_W")>>) \o BigEndian(n)
    BY <1>2 DEF PUSH_VAL, cn
  <2>3. Declared /\ cn \in ToSet(constant_order')
    <3>1. CASE is_constant(cn)
      <4>1. UNCHANGED <<constant_order, constant_map>> /\ cn \in ToSet(constant_order)
        BY <2>2, <3>1, Tables DEF is_constant, ConstantsKnown
      <4>2. QED
        BY <4>1, NothingDeclared
    <3>2. CASE ~ is_constant(cn)
      BY <2>1, <2>2, <3>2, DeclareStep
    <3>3. QED
      BY <3>1, <3>2
  <2>4. t \in Calls /\ t.at = Len(code) /\ t.op = "LDC_W" /\ t.name = cn
    BY <2>1, <2>2, RecordedCall DEF InBody
  <2>5. text' = Append(text, t)
    BY <2>2 DEF Record, Recorded
  <2> HIDE DEF t
  <2>6. Emits(code, u, constant_order', t)
    BY <2>3, <2>4, Tables, EmitLDC_W DEF Declared
  <2>7. code' = code \o u
    <3>1. n \in Int /\ code \in Seq(Cell)
      BY <2>3, IndexOf, Tables DEF Declared
    <3> HIDE DEF n
    <3>2. QED
      BY <2>1, <2>2, <3>1, OpAndWordAppended
  <2> HIDE DEF u, n
  <2>8. EmitsStep(u, t)
    BY <2>4, <2>5, <2>6, <2>7 DEF EmitsStep
  <2>9. TablesStep(t)
    BY <2>2, <2>3, Tables DEF TablesStep, Declared, Unlinked, InBody, Assembling
  <2>10. QED
    BY <2>8, <2>9, EmitStep
<1>3. QED
  BY <1>1, <1>2

(***************************************************************************)
(* Labels, jumps, calls and functions.                                     *)
(***************************************************************************)
LEMMA LabelInv ==
    ASSUME IInv, NEW l \in Labels, label(l)
    PROVE  IInv'
<1> DEFINE t == Recorded("label", l, 0, 0)
<1>1. t \in Calls /\ t.at = Len(code) /\ t.op = "label"
  BY RecordedCall DEF label, InBody, Names
<1>2. /\ InBody /\ text' = Append(text, t) /\ code' = code
      /\ laddrs' = Insert(laddrs, label_key(l), Len(code))
      /\ UNCHANGED <<output, constant_order, constant_map, jmpaddrs, faddrs, invokes,
                     current_func, locals>>
  BY DEF label, Record, Recorded
<1> HIDE DEF t
<1>3. Declared
  BY <1>2, NothingDeclared
<1>4. IsMap(laddrs', FuncNames \X Labels, 0..Len(code))
  <2>1. label_key(l) \in FuncNames \X Labels /\ Len(code) \in 0..Len(code)
    BY Tables DEF label_key
  <2>2. QED
    BY <1>2, <2>1, Tables, InsertIsMap
<1>5. TablesStep(t)
  BY <1>2, <1>3, <1>4, Tables DEF TablesStep, Declared, InBody, Assembling
<1>6. << >> \in Seq(Cell) /\ code \o << >> = code /\ Len(<< >>) = 0
  BY Tables, ConcatEmptySeq
<1>7. Emits(code, << >>, constant_order', t)
  <2>1. Intact(code, constant_order', t)
    BY <1>1, IntactParts
  <2>2. Size(t) = 0
    BY <1>1, OpClasses DEF Size, PatchedOps, VarOps, SimpleOps, JumpOps
  <2>3. QED
    BY <1>1, <1>6, <2>1, <2>2 DEF Emits, Good
<1>8. EmitsStep(<< >>, t)
  BY <1>1, <1>2, <1>6, <1>7 DEF EmitsStep
<1>9. QED
  BY <1>5, <1>8, EmitStep

\* What a jump and a call emit, for link to patch.
LEMMA PatchedCells ==
    ASSUME IInv, NEW m \in PatchedOps, NEW name \in Names, InBody,
           Record(m, name, 0, 0), UNCHANGED constant_order,
           code' = (code \o <<Op(m)>>) \o BigEndian(0)
    PROVE  LET t == Recorded(m, name, 0, 0)
           IN  EmitsStep(OpAndWord(m, 0), t) /\ t.at = Len(code) /\ t.op = m
<1> DEFINE t == Recorded(m, name, 0, 0)
<1>1. m \in Mnemonics
  BY DEF PatchedOps, Mnemonics, OtherOps
<1>2. t \in Calls /\ t.at = Len(code) /\ t.op = m
  BY <1>1, RecordedCall DEF InBody
<1>3. text' = Append(text, t)
  BY DEF Record, Recorded
<1> HIDE DEF t
<1>4. Emits(code, OpAndWord(m, 0), constant_order', t)
  BY <1>2, Tables, EmitPatched
<1>5. code' = code \o OpAndWord(m, 0)
  <2>1. code \in Seq(Cell) /\ 0 \in Int
    BY Tables
  <2>2. QED
    BY <1>1, <2>1, OpAndWordAppended
<1>6. EmitsStep(OpAndWord(m, 0), t)
  BY <1>2, <1>3, <1>4, <1>5 DEF EmitsStep
<1>7. QED
  BY <1>2, <1>6 DEF t

LEMMA JumpInv ==
    ASSUME IInv, NEW m \in JumpOps, NEW l \in Labels, Jump(m, l)
    PROVE  IInv'
<1> DEFINE t == Recorded(m, l, 0, 0)
<1>1. /\ InBody /\ Record(m, l, 0, 0)
      /\ jmpaddrs' = Insert(jmpaddrs, Len(code), label_key(l))
      /\ code' = (code \o <<Op(m)>>) \o BigEndian(0)
      /\ UNCHANGED <<output, constant_order, constant_map, laddrs, faddrs, invokes,
                     current_func, locals>>
  BY DEF Jump
<1>2. m \in PatchedOps /\ l \in Names
  BY DEF PatchedOps, Names
<1>3. EmitsStep(OpAndWord(m, 0), t) /\ t.at = Len(code) /\ t.op = m
  <2>1. UNCHANGED constant_order
    BY <1>1
  <2>2. QED
    BY <1>1, <1>2, <2>1, PatchedCells
<1> HIDE DEF t
<1>4. /\ IsMap(jmpaddrs', 0..Len(code), FuncNames \X Labels)
      /\ DOMAIN jmpaddrs' = DOMAIN jmpaddrs \cup {Len(code)}
  <2>1. label_key(l) \in FuncNames \X Labels /\ Len(code) \in 0..Len(code)
    BY Tables DEF label_key
  <2>2. QED
    BY <1>1, <2>1, Tables, InsertIsMap, InsertDomain
<1>5. Declared
  BY <1>1, NothingDeclared
<1>6. TablesStep(t)
  BY <1>1, <1>3, <1>4, <1>5, Tables DEF TablesStep, Declared, InBody, Assembling
<1>7. QED
  BY <1>3, <1>6, EmitStep

LEMMA InvokeInv ==
    ASSUME IInv, NEW f \in FuncNames, INVOKEVIRTUAL(f)
    PROVE  IInv'
<1> DEFINE t == Recorded("INVOKEVIRTUAL", f, 0, 0)
<1>1. /\ InBody /\ Record("INVOKEVIRTUAL", f, 0, 0)
      /\ invokes' = Insert(invokes, Len(code), f)
      /\ code' = (code \o <<Op("INVOKEVIRTUAL")>>) \o BigEndian(0)
      /\ UNCHANGED <<output, constant_order, constant_map, laddrs, jmpaddrs, faddrs,
                     current_func, locals>>
  BY DEF INVOKEVIRTUAL
<1>2. "INVOKEVIRTUAL" \in PatchedOps /\ f \in Names
  BY DEF PatchedOps, Names
<1>3. EmitsStep(OpAndWord("INVOKEVIRTUAL", 0), t) /\ t.at = Len(code) /\ t.op = "INVOKEVIRTUAL"
  BY <1>1, <1>2, PatchedCells
<1> HIDE DEF t
<1>4. /\ IsMap(invokes', 0..Len(code), FuncNames)
      /\ DOMAIN invokes' = DOMAIN invokes \cup {Len(code)}
  BY <1>1, Tables, InsertIsMap, InsertDomain
<1>5. Declared
  BY <1>1, NothingDeclared
<1>6. TablesStep(t)
  BY <1>1, <1>3, <1>4, <1>5, Tables DEF TablesStep, Declared, InBody, Assembling
<1>7. QED
  BY <1>3, <1>6, EmitStep

LEMMA FunctionInv ==
    ASSUME IInv, NEW s \in Signatures, function(s)
    PROVE  IInv'
<1> DEFINE fn == IF text = << >> THEN 1 ELSE Last(text).fn + 1
           t  == Call(fn, "function", s.name, Len(s.args) + 1, Len(s.vars))
<1>1. /\ s.name \in FuncNames /\ s.args \in Seq(VarNames) /\ s.vars \in Seq(VarNames)
      /\ "OBJREF" \in VarNames
  BY CallsAssumption
<1>2. fn \in Nat
  <2>1. text \in Seq(Calls)
    BY DEF IInv
  <2>2. text # << >> => Last(text) \in Calls
    BY <2>1, FrontLast
  <2>3. text # << >> => Last(text).fn \in Nat
    BY <2>2 DEF Calls
  <2>4. QED
    BY <2>3
<1> HIDE DEF fn
<1>3. /\ t \in Calls /\ t.at = Len(code) /\ t.op = "function"
      /\ t.name = s.name /\ t.value = Len(s.args) + 1 /\ t.slot = Len(s.vars)
  <2>1. Len(s.args) + 1 \in Int /\ Len(s.vars) \in Nat /\ Len(code) \in Nat
    BY <1>1, Tables
  <2>2. QED
    BY <1>1, <1>2, <2>1 DEF Call, Calls, Names
<1>4. /\ Assembling /\ text' = Append(text, t) /\ current_func' = s.name
      /\ UNCHANGED <<output, constant_order, constant_map, laddrs, jmpaddrs, invokes>>
  BY DEF function, fn
<1> HIDE DEF t
<1>5. Declared
  BY <1>4, NothingDeclared
<1>6. CASE s.name = "main"
  <2>1. locals' = s.args \o s.vars /\ UNCHANGED <<code, faddrs>>
    BY <1>6 DEF function
  <2>2. << >> \in Seq(Cell) /\ code \o << >> = code /\ Len(<< >>) = 0
    BY Tables, ConcatEmptySeq
  <2>3. Emits(code, << >>, constant_order', t)
    <3>1. Intact(code, constant_order', t)
      BY <1>3, <1>6, IntactParts
    <3>2. Size(t) = 0
      BY <1>3, <1>6, OpClasses DEF Size, PatchedOps, VarOps, SimpleOps, JumpOps
    <3>3. QED
      BY <1>3, <2>2, <3>1, <3>2 DEF Emits, Good
  <2>4. EmitsStep(<< >>, t)
    BY <1>3, <1>4, <2>1, <2>2, <2>3 DEF EmitsStep
  <2>5. locals' \in Seq(VarNames)
    BY <1>1, <2>1
  <2>6. TablesStep(t)
    BY <1>1, <1>4, <1>5, <2>1, <2>5, Tables DEF TablesStep, Declared, Assembling
  <2>7. QED
    BY <2>4, <2>6, EmitStep
<1>7. CASE s.name # "main"
  <2> DEFINE u == Words(t.value, t.slot)
  <2>1. /\ locals' = <<"OBJREF">> \o s.args \o s.vars
        /\ code' = code \o u
        /\ faddrs' = Insert(faddrs, s.name, Len(code))
    BY <1>3, <1>7 DEF function, header, Words
  <2>2. Emits(code, u, constant_order', t)
    BY <1>3, <1>7, Tables, EmitHeader
  <2> HIDE DEF u
  <2>3. EmitsStep(u, t)
    BY <1>3, <1>4, <2>1, <2>2 DEF EmitsStep
  <2>4. locals' \in Seq(VarNames)
    BY <1>1, <2>1
  <2>5. /\ IsMap(faddrs', FuncNames \ {"main"}, 0..Len(code))
        /\ DOMAIN faddrs' = DOMAIN faddrs \cup {s.name}
    BY <1>1, <1>7, <2>1, Tables, InsertIsMap, InsertDomain
  <2>6. IsFiniteSet(DOMAIN faddrs')
    BY <2>5, Tables, FS_AddElement
  <2>7. TablesStep(t)
    BY <1>1, <1>4, <1>5, <2>4, <2>5, <2>6, Tables DEF TablesStep, Declared, Assembling
  <2>8. QED
    BY <2>3, <2>7, EmitStep
<1>8. QED
  BY <1>6, <1>7

(***************************************************************************)
(* compile and link.                                                       *)
(***************************************************************************)
SameText == UNCHANGED <<code, symbols>>

\* A step that leaves the code and the tables alone.
LEMMA OutputStep ==
    ASSUME IInv, SameText,
           phase' \in {"assemble", "link_jumps", "link_calls", "linked", "thrown", "panicked"},
           pool' \in Seq(Int), IsMap(findexes', FuncNames, Int),
           pending' \subseteq 0..Len(code), Pending'
    PROVE  IInv'
<1>1. UNCHANGED <<code, constant_order, constant_map, laddrs, jmpaddrs, faddrs, invokes,
                  current_func, locals, text>>
  BY DEF SameText, symbols
<1>2. TypeOK'
  BY <1>1 DEF IInv, TypeOK
<1>3. Sites' /\ ConstantsKnown' /\ IsFiniteSet(DOMAIN faddrs)' /\ (text \in Seq(Calls))'
  BY <1>1 DEF IInv, Sites, ConstantsKnown
<1>4. Layout(code, text)' /\ AllGood(code, constant_order, text)'
  <2>1. Layout(code, text) /\ AllGood(code, constant_order, text)
    BY DEF IInv
  <2>2. Layout(code', text') /\ AllGood(code', constant_order', text')
    BY <1>1, <2>1
  <2>3. QED
    BY <2>2
<1>5. QED
  BY <1>2, <1>3, <1>4 DEF IInv

LEMMA PendingType ==
    ASSUME IInv
    PROVE  /\ pool \in Seq(Int) /\ IsMap(findexes, FuncNames, Int)
           /\ pending \subseteq 0..Len(code)
           /\ DOMAIN jmpaddrs \subseteq 0..Len(code) /\ DOMAIN invokes \subseteq 0..Len(code)
           /\ Pending /\ Sites
BY DEF IInv, TypeOK, IsMap

LEMMA CompileInv ==
    ASSUME IInv, compile
    PROVE  IInv'
<1>1. /\ pending' = DOMAIN jmpaddrs /\ phase' = "link_jumps" /\ SameText
      /\ UNCHANGED jmpaddrs
  BY DEF compile, SameText, symbols
<1>2. PICK order \in SetToSeqs(DOMAIN faddrs) :
         /\ pool' = pool_of(order)
         /\ findexes' = [f \in DOMAIN faddrs |-> findex(order, f)]
  BY DEF compile
<1>3. order \in Seq(DOMAIN faddrs)
  <2> DEFINE n == Cardinality(DOMAIN faddrs)
  <2>1. n \in Nat
    BY Tables, FS_CardinalityType
  <2>2. order \in [1..n -> DOMAIN faddrs]
    BY DEF SetToSeqs
  <2> HIDE DEF n
  <2>3. QED
    BY <2>1, <2>2
<1>4. pool' \in Seq(Int)
  <2> DEFINE cs == [i \in DOMAIN constant_order |-> constant_map[constant_order[i]]]
             fs == [i \in DOMAIN order |-> faddrs[order[i]]]
  <2>1. cs \in Seq(Int)
    <3>1. /\ constant_order \in Seq(AllConsts) /\ ToSet(constant_order) = DOMAIN constant_map
          /\ IsMap(constant_map, AllConsts, Values) /\ Values \subseteq Int
      BY Tables, CallsAssumption DEF ConstantsKnown
    <3>2. ASSUME NEW i \in 1..Len(constant_order)
          PROVE  constant_map[constant_order[i]] \in Int
      <4>1. constant_order[i] \in DOMAIN constant_map
        BY <3>1 DEF ToSet
      <4>2. QED
        BY <3>1, <4>1 DEF IsMap
    <3>3. DOMAIN constant_order = 1..Len(constant_order) /\ Len(constant_order) \in Nat
      BY <3>1
    <3>4. cs \in [1..Len(constant_order) -> Int]
      BY <3>2, <3>3
    <3> HIDE DEF cs
    <3>5. QED
      BY <3>3, <3>4
  <2>2. fs \in Seq(Int)
    <3>1. IsMap(faddrs, FuncNames \ {"main"}, 0..Len(code))
      BY Tables
    <3>2. DOMAIN order = 1..Len(order) /\ Len(order) \in Nat
      BY <1>3
    <3>3. ASSUME NEW i \in 1..Len(order)
          PROVE  faddrs[order[i]] \in Int
      BY <1>3, <3>1 DEF IsMap
    <3>4. fs \in [1..Len(order) -> Int]
      BY <3>2, <3>3
    <3> HIDE DEF fs
    <3>5. QED
      BY <3>2, <3>4
  <2>3. pool' = cs \o fs
    BY <1>2 DEF pool_of
  <2> HIDE DEF cs, fs
  <2>4. QED
    BY <2>1, <2>2, <2>3
<1>5. IsMap(findexes', FuncNames, Int)
  <2>1. DOMAIN faddrs \subseteq FuncNames /\ Len(constant_order) \in Nat
    BY Tables DEF IsMap
  <2>2. ASSUME NEW f \in DOMAIN faddrs
        PROVE  findex(order, f) \in Int
    <3>1. indexOf(order, f) \in Int
      BY <1>3, IndexOf
    <3>2. QED
      BY <2>1, <3>1 DEF findex
  <2>3. QED
    BY <1>2, <2>1, <2>2 DEF IsMap
<1>6. pending' \subseteq 0..Len(code) /\ Pending'
  BY <1>1, PendingType DEF Pending
<1>7. QED
  BY <1>1, <1>4, <1>5, <1>6, OutputStep

(***************************************************************************)
(* A patch, or the panic when there is nothing to patch with.              *)
(***************************************************************************)
LEMMA PatchStep ==
    ASSUME IInv, UNCHANGED <<phase, pool, findexes, symbols>>,
           NEW i \in DOMAIN text, text[i].op \in PatchedOps, NEW n \in Int,
           code' = write_u16(code, text[i].at + 1, n),
           pending' \subseteq pending
    PROVE  IInv'
<1>1. /\ code \in Seq(Cell) /\ text \in Seq(Calls) /\ constant_order \in Seq(AllConsts)
      /\ Layout(code, text) /\ AllGood(code, constant_order, text)
  BY Tables DEF IInv
<1>2. /\ code' \in Seq(Cell) /\ Len(code') = Len(code)
      /\ Layout(code', text) /\ AllGood(code', constant_order, text)
  BY <1>1, Patching
<1>3. UNCHANGED <<constant_order, constant_map, laddrs, jmpaddrs, faddrs, invokes,
                  current_func, locals, text>>
  BY DEF symbols
<1>4. TypeOK'
  <2>1. TypeOK /\ code' \in Seq(OpCell \cup ByteCell)
    BY <1>2 DEF IInv, Cell
  <2>2. QED
    BY <1>2, <1>3, <2>1 DEF TypeOK
<1>5. Sites' /\ ConstantsKnown' /\ IsFiniteSet(DOMAIN faddrs)' /\ (text \in Seq(Calls))'
  BY <1>3 DEF IInv, Sites, ConstantsKnown
<1>6. Pending'
  BY <1>3 DEF IInv, Pending
<1>7. QED
  BY <1>2, <1>3, <1>4, <1>5, <1>6 DEF IInv

LEMMA LinkJumpInv ==
    ASSUME IInv, NEW p \in pending, LinkJump(p)
    PROVE  IInv'
<1>1. CASE jmpaddrs[p] \in DOMAIN laddrs
  <2>1. /\ phase = "link_jumps" /\ code' = write_u16(code, p + 1, displacement(p))
        /\ pending' = pending \ {p} /\ UNCHANGED <<phase, pool, findexes, symbols>>
    BY <1>1 DEF LinkJump
  <2>2. p \in DOMAIN jmpaddrs
    BY <2>1, PendingType DEF Pending
  <2>3. PICK i \in DOMAIN text : text[i].at = p /\ text[i].op \in JumpOps
    BY <2>2, PendingType DEF Sites
  <2>4. displacement(p) \in Int
    <3>1. laddrs[jmpaddrs[p]] \in 0..Len(code)
      BY <1>1, Tables DEF IsMap
    <3>2. p \in Nat
      BY PendingType
    <3>3. QED
      BY <3>1, <3>2 DEF displacement
  <2>5. text[i].op \in PatchedOps /\ code' = write_u16(code, text[i].at + 1, displacement(p))
    BY <2>1, <2>3 DEF PatchedOps
  <2>6. QED
    BY <2>1, <2>4, <2>5, PatchStep
<1>2. CASE jmpaddrs[p] \notin DOMAIN laddrs
  <2>1. /\ phase' = "panicked" /\ SameText /\ UNCHANGED <<pool, findexes, pending>>
    BY <1>2 DEF LinkJump, SameText
  <2>2. Pending'
    BY <2>1 DEF Pending
  <2>3. QED
    BY <2>1, <2>2, PendingType, OutputStep
<1>3. QED
  BY <1>1, <1>2

LEMMA LinkCallInv ==
    ASSUME IInv, NEW p \in pending, LinkCall(p)
    PROVE  IInv'
<1>1. CASE invokes[p] \in DOMAIN findexes
  <2>1. /\ phase = "link_calls" /\ code' = write_u16(code, p + 1, findexes[invokes[p]])
        /\ pending' = pending \ {p} /\ UNCHANGED <<phase, pool, findexes, symbols>>
    BY <1>1 DEF LinkCall
  <2>2. p \in DOMAIN invokes
    BY <2>1, PendingType DEF Pending
  <2>3. PICK i \in DOMAIN text : text[i].at = p /\ text[i].op = "INVOKEVIRTUAL"
    BY <2>2, PendingType DEF Sites
  <2>4. findexes[invokes[p]] \in Int
    BY <1>1, PendingType DEF IsMap
  <2>5. text[i].op \in PatchedOps
        /\ code' = write_u16(code, text[i].at + 1, findexes[invokes[p]])
    BY <2>1, <2>3 DEF PatchedOps
  <2>6. QED
    BY <2>1, <2>4, <2>5, PatchStep
<1>2. CASE invokes[p] \notin DOMAIN findexes
  <2>1. /\ phase' = "panicked" /\ SameText /\ UNCHANGED <<pool, findexes, pending>>
    BY <1>2 DEF LinkCall, SameText
  <2>2. Pending'
    BY <2>1 DEF Pending
  <2>3. QED
    BY <2>1, <2>2, PendingType, OutputStep
<1>3. QED
  BY <1>1, <1>2

LEMMA LinkDoneInv ==
    ASSUME IInv, LinkJumpsDone \/ LinkDone
    PROVE  IInv'
<1>1. CASE LinkJumpsDone
  <2>1. /\ phase' = "link_calls" /\ pending' = DOMAIN invokes
        /\ SameText /\ UNCHANGED <<pool, findexes, invokes>>
    BY <1>1 DEF LinkJumpsDone, SameText, symbols
  <2>2. Pending'
    BY <2>1 DEF Pending
  <2>3. QED
    BY <2>1, <2>2, PendingType, OutputStep
<1>2. CASE LinkDone
  <2>1. phase' = "linked" /\ SameText /\ UNCHANGED <<pool, findexes, pending>>
    BY <1>2 DEF LinkDone, SameText
  <2>2. Pending'
    BY <2>1 DEF Pending
  <2>3. QED
    BY <2>1, <2>2, PendingType, OutputStep
<1>3. QED
  BY <1>1, <1>2

LEMMA StutterInv ==
    ASSUME IInv, UNCHANGED vars
    PROVE  IInv'
<1>1. SameText /\ UNCHANGED <<phase, pool, findexes, pending, jmpaddrs, invokes>>
  BY DEF vars, output, SameText, symbols
<1>2. Pending'
  BY <1>1, PendingType DEF Pending
<1>3. phase' \in {"assemble", "link_jumps", "link_calls", "linked", "thrown", "panicked"}
  BY <1>1 DEF IInv, TypeOK
<1>4. QED
  BY <1>1, <1>2, <1>3, PendingType, OutputStep

-----------------------------------------------------------------------------

LEMMA NextInv == IInv /\ [Next]_vars => IInv'
<1> SUFFICES ASSUME IInv, [Next]_vars
             PROVE  IInv'
  OBVIOUS
<1>1. CASE Assemble
  <2>1. ASSUME NEW c \in ConstNames, NEW v \in Values, constant(c, v)
        PROVE  IInv'
    BY <2>1, ConstantInv
  <2>2. ASSUME NEW s \in Signatures, function(s)
        PROVE  IInv'
    BY <2>2, FunctionInv
  <2>3. ASSUME NEW l \in Labels, label(l)
        PROVE  IInv'
    BY <2>3, LabelInv
  <2>4. ASSUME NEW m \in UsedOps \cap SimpleOps, Simple(m)
        PROVE  IInv'
    BY <2>4, SimpleInv
  <2>5. ASSUME NEW v \in Values, PUSH_VAL(v)
        PROVE  IInv'
    BY <2>5, PushValInv
  <2>6. ASSUME NEW c \in ConstNames, LDC_W(c)
        PROVE  IInv'
    BY <2>6, LdcInv
  <2>7. ASSUME NEW m \in UsedOps \cap {"ILOAD", "ISTORE"}, NEW x \in VarNames, Var(m, x)
        PROVE  IInv'
    BY <2>7, VarInv
  <2>8. ASSUME NEW x \in VarNames, NEW v \in Values \cap MinI8..MaxI8, IINC(x, v)
        PROVE  IInv'
    BY <2>8, IincInv
  <2>9. ASSUME NEW m \in UsedOps \cap JumpOps, NEW l \in Labels, Jump(m, l)
        PROVE  IInv'
    BY <2>9, JumpInv
  <2>10. ASSUME NEW f \in FuncNames, INVOKEVIRTUAL(f)
         PROVE  IInv'
    BY <2>10, InvokeInv
  <2>11. QED
    BY <1>1, <2>1, <2>2, <2>3, <2>4, <2>5, <2>6, <2>7, <2>8, <2>9, <2>10 DEF Assemble
<1>2. CASE Link
  BY <1>2, CompileInv, LinkJumpInv, LinkCallInv, LinkDoneInv DEF Link
<1>3. CASE Terminated \/ UNCHANGED vars
  BY <1>3, StutterInv DEF Terminated
<1>4. QED
  BY <1>1, <1>2, <1>3 DEF Next

(***************************************************************************)
(* The tables stay tables: every offset in them lies in the code, every    *)
(* declared constant has a value, and what link is to patch was recorded.  *)
(***************************************************************************)
THEOREM TypeCorrect == Spec => []TypeOK
<1>1. IInv => TypeOK
  BY DEF IInv
<1>2. QED
  BY <1>1, InitInv, NextInv, PTL DEF Spec

(***************************************************************************)
(* Whatever the calls, the order of the hash tables and the width of a     *)
(* byte, the text section holds each instruction, header and operand that  *)
(* was asked for, before, during and after linking.                        *)
(***************************************************************************)
THEOREM OperandsIntact == Spec => []InstructionsIntact
<1>1. IInv => InstructionsIntact
  BY DEF IInv, AllGood, Good, InstructionsIntact
<1>2. QED
  BY <1>1, InitInv, NextInv, PTL DEF Spec

-----------------------------------------------------------------------------

(***************************************************************************)
(* What is linked is right: jumps reach their labels and calls their       *)
(* functions, numbers that are pushed are found again, variables lie in    *)
(* their frames, and a panic has its reason.                               *)
(*                                                                         *)
(* The tables of the assembler forget what the history `text` knows: which *)
(* call of which function made an entry.  The invariant relates the two.   *)
(***************************************************************************)

\* The i-th call of the history tx is made inside of a function of this name.
InFunction(tx, i, f) ==
    \E k \in DOMAIN tx :
        tx[k].op = "function" /\ tx[k].fn = tx[i].fn /\ tx[k].name = f

\* Each function has a number of its own, and the last one is being assembled.
Numbered ==
    /\ \A i, j \in DOMAIN text : i < j => text[i].fn <= text[j].fn
    /\ \A i, j \in DOMAIN text : (i < j /\ text[j].op = "function") => text[i].fn < text[j].fn
    /\ text # << >> => InFunction(text, Len(text), current_func)

LabelTable ==
    /\ \A key \in DOMAIN laddrs : \E j \in DOMAIN text :
          /\ text[j].op = "label" /\ text[j].at = laddrs[key]
          /\ InFunction(text, j, key[1]) /\ text[j].name = key[2]
    /\ \A j \in DOMAIN text : text[j].op = "label" =>
          \A f \in FuncNames : InFunction(text, j, f) => <<f, text[j].name>> \in DOMAIN laddrs

JumpTable ==
    \A i \in DOMAIN text : text[i].op \in JumpOps =>
        /\ text[i].at \in DOMAIN jmpaddrs
        /\ InFunction(text, i, jmpaddrs[text[i].at][1])
        /\ jmpaddrs[text[i].at][2] = text[i].name

CallTable ==
    \A i \in DOMAIN text : text[i].op = "INVOKEVIRTUAL" =>
        text[i].at \in DOMAIN invokes /\ invokes[text[i].at] = text[i].name

FunctionTable ==
    /\ \A f \in DOMAIN faddrs : \E j \in DOMAIN text :
          text[j].op = "function" /\ text[j].name = f /\ text[j].at = faddrs[f]
    /\ \A j \in DOMAIN text :
          (text[j].op = "function" /\ text[j].name # "main") => text[j].name \in DOMAIN faddrs

\* The variables of the running function fill its frame, and whatever was
\* addressed in an earlier one lay in the frame of that.
Frames ==
    /\ \A i \in DOMAIN text :
          (/\ text[i].op = "function" /\ text[i].name # "main"
           /\ text[i].fn = text[Len(text)].fn) => Len(locals) = text[i].value + text[i].slot
    /\ \A i, j \in DOMAIN text :
          (/\ text[i].op = "function" /\ text[i].name # "main" /\ text[j].op \in VarOps
           /\ text[i].fn = text[j].fn) => text[j].slot < text[i].value + text[i].slot

\* A generated name has the value it was generated from.
Generated ==
    /\ \A v \in Values : (const_name(v) \in DOMAIN constant_map /\ const_name(v) \notin ConstNames) =>
          constant_map[const_name(v)] = v
    /\ \A i \in DOMAIN text : text[i].op = "LDC_W" => text[i].name \in DOMAIN constant_map

History == Numbered /\ LabelTable /\ JumpTable /\ CallTable /\ FunctionTable /\ Frames /\ Generated

\* What compile has laid out.
LaidOut ==
    phase \in {"link_jumps", "link_calls", "linked"} =>
        /\ Len(pool) >= Len(constant_order)
        /\ \A k \in 1..Len(constant_order) : pool[k] = constant_map[constant_order[k]]
        /\ DOMAIN findexes = DOMAIN faddrs
        /\ \A f \in DOMAIN faddrs :
              findexes[f] \in Nat /\ findexes[f] < Len(pool) /\ pool[findexes[f] + 1] = faddrs[f]

JumpLinked(i) ==
    /\ jmpaddrs[text[i].at] \in DOMAIN laddrs
    /\ ReadBig(code, text[i].at + 1) = displacement(text[i].at) % WordBase

CallLinked(i) ==
    /\ invokes[text[i].at] \in DOMAIN findexes
    /\ ReadBig(code, text[i].at + 1) = findexes[invokes[text[i].at]] % WordBase

\* What link has come to is linked.
JumpsLinked ==
    \A i \in DOMAIN text : text[i].op \in JumpOps =>
        /\ (phase = "link_jumps" /\ text[i].at \notin pending) => JumpLinked(i)
        /\ phase \in {"link_calls", "linked"} => JumpLinked(i)

CallsLinked ==
    \A i \in DOMAIN text : text[i].op = "INVOKEVIRTUAL" =>
        /\ (phase = "link_calls" /\ text[i].at \notin pending) => CallLinked(i)
        /\ phase = "linked" => CallLinked(i)

\* What holds of link and of its results.
Linked == LaidOut /\ JumpsLinked /\ CallsLinked /\ PanicJustified

LInv == IInv /\ History /\ Linked

-----------------------------------------------------------------------------
(* The history under a call.                                               *)

\* The call t begins a function.
NewFunction(t) ==
    /\ t.op = "function" /\ t.fn = (IF text = << >> THEN 1 ELSE Last(text).fn + 1)
    /\ t.name \in FuncNames /\ current_func' = t.name
    /\ faddrs' = IF t.name = "main" THEN faddrs ELSE Insert(faddrs, t.name, t.at)
    /\ t.name # "main" => Len(locals') = t.value + t.slot

\* The call t is made inside of the current function.
NewBody(t) ==
    /\ t.op # "function" /\ text # << >> /\ t.fn = Last(text).fn
    /\ UNCHANGED <<current_func, locals, faddrs>>
    /\ t.op \in VarOps => t.slot < Len(locals)

NewEntries(t) ==
    /\ laddrs' = IF t.op = "label" THEN Insert(laddrs, label_key(t.name), t.at) ELSE laddrs
    /\ jmpaddrs' = IF t.op \in JumpOps THEN Insert(jmpaddrs, t.at, label_key(t.name)) ELSE jmpaddrs
    /\ invokes' = IF t.op = "INVOKEVIRTUAL" THEN Insert(invokes, t.at, t.name) ELSE invokes

NewConstant(t) ==
    /\ \/ UNCHANGED constant_map
       \/ \E v \in Values : /\ const_name(v) \notin DOMAIN constant_map
                             /\ constant_map' = Insert(constant_map, const_name(v), v)
    /\ t.op = "LDC_W" => t.name \in DOMAIN constant_map'

\* A method has been called, and t is what the history keeps of it.
Appended(t) ==
    /\ phase = "assemble" /\ UNCHANGED output
    /\ t \in Calls /\ t.at = Len(code) /\ text' = Append(text, t)
    /\ NewFunction(t) \/ NewBody(t)
    /\ NewEntries(t)
    /\ NewConstant(t)

Longer(t) ==
    /\ Len(text) \in Nat /\ DOMAIN text = 1..Len(text)
    /\ \A i \in DOMAIN text : text[i] \in Calls
    /\ DOMAIN text' = DOMAIN text \cup {Len(text) + 1} /\ Len(text') = Len(text) + 1
    /\ \A i \in DOMAIN text : text'[i] = text[i]
    /\ text'[Len(text) + 1] = t
    /\ text # << >> => Len(text) \in DOMAIN text /\ Last(text) = text[Len(text)]

LEMMA LongerText ==
    ASSUME IInv, NEW t, Appended(t)
    PROVE  Longer(t)
<1>1. text \in Seq(Calls) /\ t \in Calls /\ text' = Append(text, t)
  BY DEF IInv, Appended
<1>2. /\ Len(text) \in Nat /\ DOMAIN text = 1..Len(text)
      /\ \A i \in DOMAIN text : text[i] \in Calls
  BY <1>1
<1>3. /\ Len(text') = Len(text) + 1 /\ DOMAIN text' = 1..(Len(text) + 1)
      /\ \A i \in 1..Len(text) : text'[i] = text[i]
      /\ text'[Len(text) + 1] = t
  BY <1>1, AppendProperties
<1>4. 1..(Len(text) + 1) = 1..Len(text) \cup {Len(text) + 1}
  BY <1>2
<1>5. text # << >> => Len(text) \in DOMAIN text /\ Last(text) = text[Len(text)]
  BY <1>1 DEF Last
<1>6. QED
  BY <1>2, <1>3, <1>4, <1>5 DEF Longer

LEMMA TextType ==
    ASSUME IInv
    PROVE  /\ text \in Seq(Calls) /\ Len(text) \in Nat /\ DOMAIN text = 1..Len(text)
           /\ \A i \in DOMAIN text :
                 /\ i \in Nat /\ text[i] \in Calls
                 /\ text[i].at \in Nat /\ text[i].fn \in Nat /\ text[i].slot \in Nat
                 /\ text[i].value \in Int
<1>1. text \in Seq(Calls)
  BY DEF IInv
<1>2. Len(text) \in Nat /\ DOMAIN text = 1..Len(text) /\ \A i \in DOMAIN text : text[i] \in Calls
  BY <1>1
<1>3. QED
  BY <1>1, <1>2 DEF Calls

\* A call is made in one function only.
LEMMA FunctionOf ==
    ASSUME IInv, Numbered, NEW i, NEW f, NEW g, InFunction(text, i, f), InFunction(text, i, g)
    PROVE  f = g
<1>1. PICK k \in DOMAIN text :
        text[k].op = "function" /\ text[k].fn = text[i].fn /\ text[k].name = f
  BY DEF InFunction
<1>2. PICK l \in DOMAIN text :
        text[l].op = "function" /\ text[l].fn = text[i].fn /\ text[l].name = g
  BY DEF InFunction
<1>3. k \in Nat /\ l \in Nat /\ text[k].fn \in Nat /\ text[l].fn \in Nat
  BY TextType
<1>4. ~ (k < l) /\ ~ (l < k)
  BY <1>1, <1>2, <1>3 DEF Numbered
<1>5. k = l
  BY <1>3, <1>4
<1>6. QED
  BY <1>1, <1>2, <1>5

\* The new call has the greatest number, and one of its own if it begins a
\* function.
LEMMA NumberOfNew ==
    ASSUME IInv, Numbered, NEW t, Appended(t)
    PROVE  /\ \A i \in DOMAIN text : text[i].fn \in Nat /\ text[i].fn <= t.fn
           /\ t.op = "function" => \A i \in DOMAIN text : text[i].fn < t.fn
           /\ t.op # "function" => text # << >> /\ t.fn = text[Len(text)].fn
<1>1. Longer(t)
  BY LongerText
<1>2. \A i \in DOMAIN text : text[i].fn \in Nat
  BY <1>1 DEF Longer, Calls
<1>3. ASSUME NEW i \in DOMAIN text
      PROVE  text[i].fn <= text[Len(text)].fn /\ text # << >>
  <2>1. i <= Len(text) /\ i \in Nat /\ text # << >> /\ Len(text) \in DOMAIN text
    BY <1>1 DEF Longer
  <2>2. i < Len(text) => text[i].fn <= text[Len(text)].fn
    BY <2>1 DEF Numbered
  <2>3. QED
    BY <1>1, <1>2, <2>1, <2>2 DEF Longer
<1>4. CASE NewFunction(t)
  <2>1. \A i \in DOMAIN text : text[i].fn < t.fn
    BY <1>1, <1>2, <1>3, <1>4 DEF NewFunction, Longer
  <2>2. t.fn \in Nat
    BY DEF Appended, Calls
  <2>3. QED
    BY <1>2, <1>4, <2>1, <2>2 DEF NewFunction
<1>5. CASE NewBody(t)
  BY <1>1, <1>2, <1>3, <1>5 DEF NewBody, Longer
<1>6. QED
  BY <1>4, <1>5 DEF Appended

(***************************************************************************)
(* Calls stay in their functions, and the new one is in the current one.   *)
(***************************************************************************)
LEMMA FunctionsKept ==
    ASSUME IInv, Numbered, NEW t, Appended(t)
    PROVE  /\ \A i \in DOMAIN text : \A f : InFunction(text', i, f) <=> InFunction(text, i, f)
           /\ \A f : InFunction(text', Len(text) + 1, f) <=> f = current_func'
<1>1. Longer(t)
  BY LongerText
<1>2. /\ \A i \in DOMAIN text : text[i].fn \in Nat /\ text[i].fn <= t.fn
      /\ t.op = "function" => \A i \in DOMAIN text : text[i].fn < t.fn
      /\ t.op # "function" => text # << >> /\ t.fn = text[Len(text)].fn
  BY NumberOfNew
<1>3. ASSUME NEW i \in DOMAIN text, NEW f, InFunction(text, i, f)
      PROVE  InFunction(text', i, f)
  BY <1>1, <1>3 DEF InFunction, Longer
<1>4. ASSUME NEW i \in DOMAIN text, NEW f, InFunction(text', i, f)
      PROVE  InFunction(text, i, f)
  <2>1. PICK k \in DOMAIN text' :
          text'[k].op = "function" /\ text'[k].fn = text'[i].fn /\ text'[k].name = f
    BY <1>4 DEF InFunction
  <2>2. k # Len(text) + 1
    <3>1. SUFFICES ASSUME k = Len(text) + 1
                   PROVE  FALSE
      OBVIOUS
    <3>2. t.op = "function" /\ t.fn = text[i].fn
      BY <1>1, <2>1, <3>1 DEF Longer
    <3>3. text[i].fn < t.fn /\ text[i].fn \in Nat
      BY <1>2, <3>2
    <3>4. QED
      BY <3>2, <3>3
  <2>3. QED
    BY <1>1, <2>1, <2>2 DEF InFunction, Longer
<1>5. InFunction(text', Len(text) + 1, current_func')
  <2>1. CASE NewFunction(t)
    BY <1>1, <2>1 DEF InFunction, Longer, NewFunction
  <2>2. CASE NewBody(t)
    <3>1. t.fn = text[Len(text)].fn /\ InFunction(text, Len(text), current_func) /\ UNCHANGED current_func
      BY <1>1, <2>2 DEF Numbered, NewBody, Longer
    <3>2. QED
      BY <1>1, <3>1 DEF InFunction, Longer
  <2>3. QED
    BY <2>1, <2>2 DEF Appended
<1>6. ASSUME NEW f, InFunction(text', Len(text) + 1, f)
      PROVE  f = current_func'
  <2>1. PICK k \in DOMAIN text' :
          text'[k].op = "function" /\ text'[k].fn = t.fn /\ text'[k].name = f
    BY <1>1, <1>6 DEF InFunction, Longer
  <2>2. CASE NewFunction(t)
    <3>1. k \notin DOMAIN text
      BY <1>1, <1>2, <2>1, <2>2 DEF Longer, NewFunction
    <3>2. QED
      BY <1>1, <2>1, <2>2, <3>1 DEF Longer, NewFunction
  <2>3. CASE NewBody(t)
    <3>1. k \in DOMAIN text /\ t.fn = text[Len(text)].fn /\ UNCHANGED current_func
          /\ text # << >>
      BY <1>1, <2>1, <2>3 DEF Longer, NewBody
    <3>2. InFunction(text, Len(text), f) /\ InFunction(text, Len(text), current_func)
      BY <1>1, <2>1, <3>1 DEF InFunction, Longer, Numbered
    <3>3. QED
      BY <3>1, <3>2, FunctionOf
  <2>4. QED
    BY <2>2, <2>3 DEF Appended
<1>7. QED
  BY <1>3, <1>4, <1>5, <1>6

LEMMA NumberedStep ==
    ASSUME IInv, Numbered, NEW t, Appended(t)
    PROVE  Numbered'
<1>1. Longer(t)
  BY LongerText
<1>2. /\ \A i \in DOMAIN text : text[i].fn \in Nat /\ text[i].fn <= t.fn
      /\ t.op = "function" => \A i \in DOMAIN text : text[i].fn < t.fn
  BY NumberOfNew
<1>3. ASSUME NEW i \in DOMAIN text', NEW j \in DOMAIN text', i < j
      PROVE  /\ text'[i].fn <= text'[j].fn
             /\ text'[j].op = "function" => text'[i].fn < text'[j].fn
  <2>1. i \in DOMAIN text
    BY <1>1, <1>3 DEF Longer
  <2>2. CASE j \in DOMAIN text
    BY <1>1, <1>3, <2>1, <2>2 DEF Longer, Numbered
  <2>3. CASE j = Len(text) + 1
    BY <1>1, <1>2, <2>1, <2>3 DEF Longer
  <2>4. QED
    BY <1>1, <2>2, <2>3 DEF Longer
<1>4. InFunction(text', Len(text'), current_func')
  BY <1>1, FunctionsKept DEF Longer
<1>5. QED
  BY <1>3, <1>4 DEF Numbered

LEMMA LabelStep ==
    ASSUME IInv, Numbered, LabelTable, NEW t, Appended(t)
    PROVE  LabelTable'
<1>1. Longer(t)
  BY LongerText
<1>2. /\ \A i \in DOMAIN text : \A f : InFunction(text', i, f) <=> InFunction(text, i, f)
      /\ \A f : InFunction(text', Len(text) + 1, f) <=> f = current_func'
  BY FunctionsKept
<1> DEFINE key0 == <<current_func, t.name>>
<1>3. \/ t.op # "label" /\ laddrs' = laddrs
      \/ /\ t.op = "label" /\ laddrs' = Insert(laddrs, key0, t.at)
         /\ UNCHANGED current_func
  BY DEF Appended, NewEntries, NewFunction, NewBody, label_key
<1>4. key0[1] = current_func /\ key0[2] = t.name
  OBVIOUS
<1> HIDE DEF key0
<1>5. ASSUME NEW key \in DOMAIN laddrs'
      PROVE  \E j \in DOMAIN text' :
                /\ text'[j].op = "label" /\ text'[j].at = laddrs'[key]
                /\ InFunction(text', j, key[1]) /\ text'[j].name = key[2]
  <2>1. CASE t.op = "label" /\ key = key0
    <3>1. laddrs'[key] = t.at
      BY <1>3, <2>1 DEF Insert
    <3>2. QED
      BY <1>1, <1>2, <1>3, <1>4, <2>1, <3>1 DEF Longer
  <2>2. CASE ~ (t.op = "label" /\ key = key0)
    <3>1. key \in DOMAIN laddrs /\ laddrs'[key] = laddrs[key]
      BY <1>3, <2>2 DEF Insert
    <3>2. PICK j \in DOMAIN text :
             /\ text[j].op = "label" /\ text[j].at = laddrs[key]
             /\ InFunction(text, j, key[1]) /\ text[j].name = key[2]
      BY <3>1 DEF LabelTable
    <3>3. QED
      BY <1>1, <1>2, <3>1, <3>2 DEF Longer
  <2>3. QED
    BY <2>1, <2>2
<1>6. ASSUME NEW j \in DOMAIN text', text'[j].op = "label",
             NEW f \in FuncNames, InFunction(text', j, f)
      PROVE  <<f, text'[j].name>> \in DOMAIN laddrs'
  <2>1. CASE j \in DOMAIN text
    <3>1. <<f, text[j].name>> \in DOMAIN laddrs
      BY <1>1, <1>2, <1>6, <2>1 DEF Longer, LabelTable
    <3>2. DOMAIN laddrs \subseteq DOMAIN laddrs'
      BY <1>3 DEF Insert
    <3>3. QED
      BY <1>1, <2>1, <3>1, <3>2 DEF Longer
  <2>2. CASE j = Len(text) + 1
    <3>1. text'[j] = t /\ t.op = "label" /\ f = current_func
      BY <1>1, <1>2, <1>3, <1>6, <2>2 DEF Longer
    <3>2. key0 \in DOMAIN laddrs'
      BY <1>3, <3>1 DEF Insert
    <3>3. QED
      BY <3>1, <3>2 DEF key0
  <2>3. QED
    BY <1>1, <2>1, <2>2 DEF Longer
<1>7. QED
  BY <1>5, <1>6 DEF LabelTable

\* The cells of a patched call lie before the end of the code.
LEMMA SiteRoom ==
    ASSUME IInv, NEW i \in DOMAIN text, text[i].op \in PatchedOps
    PROVE  /\ Size(text[i]) = 3 /\ text[i].at \in Nat /\ text[i].at + 3 <= Len(code)
           /\ text[i].at # Len(code)
<1>1. text[i] \in Calls /\ text[i].at \in Nat /\ Len(code) \in Nat
  BY TextType, Tables
<1>2. Size(text[i]) = 3
  BY DEF Size, PatchedOps, SimpleOps, JumpOps
<1>3. text[i].at + Size(text[i]) <= Len(code)
  BY DEF IInv, Layout
<1>4. QED
  BY <1>1, <1>2, <1>3

LEMMA JumpStep ==
    ASSUME IInv, Numbered, JumpTable, NEW t, Appended(t)
    PROVE  JumpTable'
<1>1. Longer(t)
  BY LongerText
<1>2. /\ \A i \in DOMAIN text : \A f : InFunction(text', i, f) <=> InFunction(text, i, f)
      /\ \A f : InFunction(text', Len(text) + 1, f) <=> f = current_func'
  BY FunctionsKept
<1> DEFINE key0 == <<current_func, t.name>>
<1>3. \/ t.op \notin JumpOps /\ jmpaddrs' = jmpaddrs
      \/ /\ t.op \in JumpOps /\ jmpaddrs' = Insert(jmpaddrs, t.at, key0)
         /\ UNCHANGED current_func
  BY OpClasses DEF Appended, NewEntries, NewFunction, NewBody, label_key
<1>4. key0[1] = current_func /\ key0[2] = t.name
  OBVIOUS
<1> HIDE DEF key0
<1>5. ASSUME NEW i \in DOMAIN text', text'[i].op \in JumpOps
      PROVE  /\ text'[i].at \in DOMAIN jmpaddrs'
             /\ InFunction(text', i, jmpaddrs'[text'[i].at][1])
             /\ jmpaddrs'[text'[i].at][2] = text'[i].name
  <2>1. CASE i \in DOMAIN text
    <3> DEFINE a == text[i].at
    <3>1. text'[i] = text[i] /\ text[i].op \in PatchedOps
      BY <1>1, <1>5, <2>1 DEF Longer, PatchedOps
    <3>2. a # t.at
      BY <2>1, <3>1, SiteRoom DEF Appended
    <3>3. /\ a \in DOMAIN jmpaddrs /\ InFunction(text, i, jmpaddrs[a][1])
          /\ jmpaddrs[a][2] = text[i].name
      BY <1>5, <2>1, <3>1 DEF JumpTable
    <3> HIDE DEF a
    <3>4. a \in DOMAIN jmpaddrs' /\ jmpaddrs'[a] = jmpaddrs[a]
      BY <1>3, <3>2, <3>3 DEF Insert
    <3>5. QED
      BY <1>2, <2>1, <3>1, <3>3, <3>4 DEF a
  <2>2. CASE i = Len(text) + 1
    <3>1. text'[i] = t /\ t.op \in JumpOps
      BY <1>1, <1>5, <2>2 DEF Longer
    <3>2. t.at \in DOMAIN jmpaddrs' /\ jmpaddrs'[t.at] = key0
      BY <1>3, <3>1 DEF Insert
    <3>3. InFunction(text', i, current_func)
      BY <1>2, <1>3, <2>2, <3>1
    <3>4. QED
      BY <1>4, <3>1, <3>2, <3>3
  <2>3. QED
    BY <1>1, <2>1, <2>2 DEF Longer
<1>6. QED
  BY <1>5 DEF JumpTable

LEMMA CallStep ==
    ASSUME IInv, CallTable, NEW t, Appended(t)
    PROVE  CallTable'
<1>1. Longer(t)
  BY LongerText
<1>2. invokes' = IF t.op = "INVOKEVIRTUAL" THEN Insert(invokes, t.at, t.name) ELSE invokes
  BY DEF Appended, NewEntries
<1>3. ASSUME NEW i \in DOMAIN text', text'[i].op = "INVOKEVIRTUAL"
      PROVE  text'[i].at \in DOMAIN invokes' /\ invokes'[text'[i].at] = text'[i].name
  <2>1. CASE i \in DOMAIN text
    <3> DEFINE a == text[i].at
    <3>1. text'[i] = text[i] /\ text[i].op \in PatchedOps
      BY <1>1, <1>3, <2>1 DEF Longer, PatchedOps
    <3>2. a # t.at
      BY <2>1, <3>1, SiteRoom DEF Appended
    <3>3. a \in DOMAIN invokes /\ invokes[a] = text[i].name
      BY <1>3, <2>1, <3>1 DEF CallTable
    <3> HIDE DEF a
    <3>4. a \in DOMAIN invokes' /\ invokes'[a] = invokes[a]
      BY <1>2, <3>2, <3>3 DEF Insert
    <3>5. QED
      BY <3>1, <3>3, <3>4 DEF a
  <2>2. CASE i = Len(text) + 1
    <3>1. text'[i] = t /\ t.op = "INVOKEVIRTUAL"
      BY <1>1, <1>3, <2>2 DEF Longer
    <3>2. QED
      BY <1>2, <3>1 DEF Insert
  <2>3. QED
    BY <1>1, <2>1, <2>2 DEF Longer
<1>4. QED
  BY <1>3 DEF CallTable

LEMMA FunctionStep ==
    ASSUME IInv, FunctionTable, NEW t, Appended(t)
    PROVE  FunctionTable'
<1>1. Longer(t)
  BY LongerText
<1>2. \/ faddrs' = faddrs /\ (t.op = "function" => t.name = "main")
      \/ t.op = "function" /\ faddrs' = Insert(faddrs, t.name, t.at)
  BY DEF Appended, NewFunction, NewBody
<1>3. ASSUME NEW f \in DOMAIN faddrs'
      PROVE  \E j \in DOMAIN text' :
                text'[j].op = "function" /\ text'[j].name = f /\ text'[j].at = faddrs'[f]
  <2>1. CASE faddrs' # faddrs /\ f = t.name
    <3>1. t.op = "function" /\ faddrs'[f] = t.at
      BY <1>2, <2>1 DEF Insert
    <3>2. QED
      BY <1>1, <2>1, <3>1 DEF Longer
  <2>2. CASE faddrs' = faddrs \/ f # t.name
    <3>1. f \in DOMAIN faddrs /\ faddrs'[f] = faddrs[f]
      BY <1>2, <2>2 DEF Insert
    <3>2. PICK j \in DOMAIN text :
             text[j].op = "function" /\ text[j].name = f /\ text[j].at = faddrs[f]
      BY <3>1 DEF FunctionTable
    <3>3. QED
      BY <1>1, <3>1, <3>2 DEF Longer
  <2>3. QED
    BY <2>1, <2>2
<1>4. ASSUME NEW j \in DOMAIN text', text'[j].op = "function", text'[j].name # "main"
      PROVE  text'[j].name \in DOMAIN faddrs'
  <2>1. CASE j \in DOMAIN text
    BY <1>1, <1>2, <1>4, <2>1 DEF Insert, Longer, FunctionTable
  <2>2. CASE j = Len(text) + 1
    BY <1>1, <1>2, <1>4, <2>2 DEF Insert, Longer
  <2>3. QED
    BY <1>1, <2>1, <2>2 DEF Longer
<1>5. QED
  BY <1>3, <1>4 DEF FunctionTable

LEMMA FramesStep ==
    ASSUME IInv, Numbered, Frames, NEW t, Appended(t)
    PROVE  Frames'
<1>1. Longer(t)
  BY LongerText
<1>2. /\ \A i \in DOMAIN text : text[i].fn \in Nat /\ text[i].fn <= t.fn
      /\ t.op = "function" => \A i \in DOMAIN text : text[i].fn < t.fn
      /\ t.op # "function" => text # << >> /\ t.fn = text[Len(text)].fn
  BY NumberOfNew
<1>3. "function" \notin VarOps
  BY DEF VarOps
<1>4. ASSUME NEW i \in DOMAIN text', text'[i].op = "function", text'[i].name # "main",
             text'[i].fn = t.fn
      PROVE  /\ Len(locals') = text'[i].value + text'[i].slot
             /\ i \in DOMAIN text => UNCHANGED locals
  <2>1. CASE NewFunction(t)
    <3>1. i = Len(text) + 1
      BY <1>1, <1>2, <1>4, <2>1 DEF Longer, NewFunction
    <3>2. Len(text) + 1 \notin DOMAIN text
      BY <1>1 DEF Longer
    <3>3. QED
      BY <1>1, <1>4, <2>1, <3>1, <3>2 DEF Longer, NewFunction
  <2>2. CASE NewBody(t)
    <3>1. i \in DOMAIN text /\ t.fn = text[Len(text)].fn /\ UNCHANGED locals
      BY <1>1, <1>2, <1>4, <2>2 DEF Longer, NewBody
    <3>2. Len(locals) = text[i].value + text[i].slot
      BY <1>1, <1>4, <3>1 DEF Longer, Frames
    <3>3. QED
      BY <1>1, <3>1, <3>2 DEF Longer
  <2>3. QED
    BY <2>1, <2>2 DEF Appended
<1>5. ASSUME NEW i \in DOMAIN text', NEW j \in DOMAIN text',
             text'[i].op = "function", text'[i].name # "main", text'[j].op \in VarOps,
             text'[i].fn = text'[j].fn
      PROVE  text'[j].slot < text'[i].value + text'[i].slot
  <2>1. CASE j = Len(text) + 1
    <3>1. text'[j] = t /\ t.op \in VarOps /\ t.op # "function" /\ text'[i].fn = t.fn
      BY <1>1, <1>3, <1>5, <2>1 DEF Longer
    <3>2. t.slot < Len(locals) /\ i \in DOMAIN text
      BY <1>1, <1>5, <3>1 DEF Longer, Appended, NewFunction, NewBody
    <3>3. QED
      BY <1>4, <1>5, <3>1, <3>2
  <2>2. CASE j \in DOMAIN text /\ i = Len(text) + 1
    BY <1>1, <1>2, <1>5, <2>2 DEF Longer
  <2>3. CASE j \in DOMAIN text /\ i \in DOMAIN text
    BY <1>1, <1>5, <2>3 DEF Longer, Frames
  <2>4. QED
    BY <1>1, <2>1, <2>2, <2>3 DEF Longer
<1>6. text'[Len(text')].fn = t.fn
  BY <1>1 DEF Longer
<1>7. QED
  BY <1>4, <1>5, <1>6 DEF Frames

LEMMA SameName ==
    ASSUME NEW v \in Int, NEW w \in Int, const_name(v) = const_name(w)
    PROVE  v = w
<1>1. const_name(v)[2] = const_name(w)[2] /\ const_name(v)[3] = const_name(w)[3]
  OBVIOUS
<1>2. /\ (IF v < 0 THEN -v ELSE v) = (IF w < 0 THEN -w ELSE w)
      /\ (v < 0) = (w < 0)
  BY <1>1 DEF const_name
<1>3. QED
  BY <1>2

LEMMA GeneratedStep ==
    ASSUME IInv, Generated, NEW t, Appended(t)
    PROVE  Generated'
<1>1. Longer(t)
  BY LongerText
<1>2. NewConstant(t)
  BY DEF Appended
<1>3. DOMAIN constant_map \subseteq DOMAIN constant_map'
  BY <1>2 DEF Insert, NewConstant
<1>4. ASSUME NEW v \in Values, const_name(v) \in DOMAIN constant_map',
             const_name(v) \notin ConstNames
      PROVE  constant_map'[const_name(v)] = v
  <2>1. CASE UNCHANGED constant_map
    BY <1>4, <2>1 DEF Generated
  <2>2. CASE \E w \in Values : /\ const_name(w) \notin DOMAIN constant_map
                               /\ constant_map' = Insert(constant_map, const_name(w), w)
    <3>1. PICK w \in Values : constant_map' = Insert(constant_map, const_name(w), w)
      BY <2>2
    <3>2. CASE const_name(v) = const_name(w)
      <4>1. v = w
        BY <3>2, CallsAssumption, SameName
      <4>2. QED
        BY <3>1, <4>1 DEF Insert
    <3>3. CASE const_name(v) # const_name(w)
      <4>1. const_name(v) \in DOMAIN constant_map
            /\ constant_map'[const_name(v)] = constant_map[const_name(v)]
        BY <1>4, <3>1, <3>3 DEF Insert
      <4>2. QED
        BY <1>4, <4>1 DEF Generated
    <3>4. QED
      BY <3>2, <3>3
  <2>3. QED
    BY <1>2, <2>1, <2>2 DEF NewConstant
<1>5. ASSUME NEW i \in DOMAIN text', text'[i].op = "LDC_W"
      PROVE  text'[i].name \in DOMAIN constant_map'
  BY <1>1, <1>2, <1>3, <1>5 DEF Longer, Generated, NewConstant
<1>6. QED
  BY <1>4, <1>5 DEF Generated

LEMMA HistoryStep ==
    ASSUME IInv, History, NEW t, Appended(t)
    PROVE  History'
BY NumberedStep, LabelStep, JumpStep, CallStep, FunctionStep, FramesStep, GeneratedStep
   DEF History

-----------------------------------------------------------------------------
(* Every method is such a call, a declaration or an exception.             *)

\* What the methods called inside of a function have in common.
BodyCall(op, name, value, slot) ==
    /\ op \in Mnemonics \cup {"label"} /\ name \in Names /\ value \in Int /\ slot \in Nat
    /\ InBody /\ Record(op, name, value, slot)
    /\ UNCHANGED <<output, current_func, locals, faddrs>>
    /\ op \in VarOps => slot < Len(locals)
    /\ laddrs' = IF op = "label" THEN Insert(laddrs, label_key(name), Len(code)) ELSE laddrs
    /\ jmpaddrs' = IF op \in JumpOps THEN Insert(jmpaddrs, Len(code), label_key(name)) ELSE jmpaddrs
    /\ invokes' = IF op = "INVOKEVIRTUAL" THEN Insert(invokes, Len(code), name) ELSE invokes
    /\ \/ UNCHANGED constant_map
       \/ \E v \in Values : /\ const_name(v) \notin DOMAIN constant_map
                            /\ constant_map' = Insert(constant_map, const_name(v), v)
    /\ op = "LDC_W" => name \in DOMAIN constant_map'

LEMMA BodyAppended ==
    ASSUME IInv, NEW op, NEW name, NEW value, NEW slot, BodyCall(op, name, value, slot)
    PROVE  \E t : Appended(t)
<1> DEFINE t == Recorded(op, name, value, slot)
<1>1. text # << >> /\ phase = "assemble"
  BY DEF BodyCall, InBody, Assembling
<1>2. t \in Calls /\ t.at = Len(code) /\ t.op = op /\ t.name = name /\ t.slot = slot
  BY <1>1, RecordedCall DEF BodyCall
<1>3. text' = Append(text, t) /\ t.fn = Last(text).fn
  BY DEF BodyCall, Record, Recorded, Call
<1> HIDE DEF t
<1>4. op # "function"
  BY OpClasses DEF BodyCall
<1>5. NewBody(t)
  BY <1>1, <1>2, <1>3, <1>4 DEF NewBody, BodyCall
<1>6. NewEntries(t) /\ NewConstant(t)
  BY <1>2 DEF NewEntries, NewConstant, BodyCall
<1>7. QED
  BY <1>1, <1>2, <1>3, <1>5, <1>6 DEF Appended, BodyCall

\* The methods that enter nothing into a table.
LEMMA PlainAppended ==
    ASSUME IInv, NEW op \in Mnemonics \ PatchedOps, NEW name \in Names, NEW value \in Int,
           NEW slot \in Nat, InBody, Record(op, name, value, slot), Unlinked,
           UNCHANGED constant_map, op \in VarOps => slot < Len(locals),
           op = "LDC_W" => name \in DOMAIN constant_map
    PROVE  \E t : Appended(t)
<1>1. op # "label" /\ op \notin JumpOps /\ op # "INVOKEVIRTUAL"
  BY OpClasses DEF PatchedOps
<1>2. BodyCall(op, name, value, slot)
  BY <1>1 DEF BodyCall, Unlinked
<1>3. QED
  BY <1>2, BodyAppended

LEMMA FunctionAppended ==
    ASSUME IInv, NEW s \in Signatures, function(s)
    PROVE  \E t : Appended(t)
<1> DEFINE fn == IF text = << >> THEN 1 ELSE Last(text).fn + 1
           t  == Call(fn, "function", s.name, Len(s.args) + 1, Len(s.vars))
<1>1. /\ s.name \in FuncNames /\ s.args \in Seq(VarNames) /\ s.vars \in Seq(VarNames)
      /\ "OBJREF" \in VarNames
  BY CallsAssumption
<1>2. fn \in Nat
  <2>1. text # << >> => Last(text) \in Calls
    BY TextType, FrontLast
  <2>2. text # << >> => Last(text).fn \in Nat
    BY <2>1 DEF Calls
  <2>3. QED
    BY <2>2
<1>3. t.fn = fn
  BY DEF Call
<1> HIDE DEF fn
<1>4. /\ t \in Calls /\ t.at = Len(code) /\ t.op = "function"
      /\ t.name = s.name /\ t.value = Len(s.args) + 1 /\ t.slot = Len(s.vars)
  <2>1. Len(s.args) + 1 \in Int /\ Len(s.vars) \in Nat /\ Len(code) \in Nat
    BY <1>1, Tables
  <2>2. QED
    BY <1>1, <1>2, <2>1 DEF Call, Calls, Names
<1>5. /\ Assembling /\ text' = Append(text, t) /\ current_func' = s.name
      /\ UNCHANGED <<output, constant_order, constant_map, laddrs, jmpaddrs, invokes>>
  BY DEF function, fn
<1> HIDE DEF t
<1>6. s.name # "main" => Len(locals') = t.value + t.slot
  <2> DEFINE frame == <<"OBJREF">> \o s.args \o s.vars
  <2>1. Len(frame) = 1 + Len(s.args) + Len(s.vars)
    BY <1>1
  <2>2. s.name # "main" => locals' = frame
    BY DEF function
  <2>3. Len(s.args) \in Nat /\ Len(s.vars) \in Nat
    BY <1>1
  <2> HIDE DEF frame
  <2>4. Len(frame) = t.value + t.slot
    <3> DEFINE a == Len(s.args)
               v == Len(s.vars)
    <3>1. Len(frame) = 1 + a + v /\ a \in Nat /\ v \in Nat
      BY <2>1, <2>3
    <3>2. t.value = a + 1 /\ t.slot = v
      BY <1>4
    <3> HIDE DEF a, v
    <3>3. QED
      BY <3>1, <3>2
  <2>5. QED
    BY <2>2, <2>4
<1>7. faddrs' = IF s.name = "main" THEN faddrs ELSE Insert(faddrs, s.name, t.at)
  BY <1>4 DEF function
<1>8. NewFunction(t)
  BY <1>1, <1>3, <1>4, <1>5, <1>6, <1>7 DEF NewFunction, fn
<1>9. NewEntries(t) /\ NewConstant(t)
  BY <1>4, <1>5, OpClasses DEF NewEntries, NewConstant
<1>10. QED
  BY <1>4, <1>5, <1>8, <1>9 DEF Appended, Assembling

LEMMA PushAppended ==
    ASSUME IInv, NEW v \in Values, PUSH_VAL(v)
    PROVE  \E t : Appended(t)
<1>1. /\ {"BIPUSH", "LDC_W"} \subseteq Mnemonics \ PatchedOps
      /\ "BIPUSH" \notin VarOps /\ "LDC_W" \notin VarOps
      /\ "LDC_W" \notin JumpOps
      /\ const_name(v) \in Names /\ current_func \in Names /\ v \in Int
  BY Tables, CallsAssumption
  DEF Mnemonics, OtherOps, PatchedOps, JumpOps, VarOps, Names, AllConsts
<1>2. CASE v \in MinI8..MaxI8
  BY <1>1, <1>2, PlainAppended DEF PUSH_VAL, BIPUSH
<1>3. CASE v \notin MinI8..MaxI8
  <2> DEFINE cn == const_name(v)
  <2>1. /\ InBody /\ Record("LDC_W", cn, v, 0) /\ Unlinked
        /\ IF is_constant(cn)
             THEN UNCHANGED <<constant_order, constant_map>>
             ELSE declare(cn, v)
    BY <1>3 DEF PUSH_VAL
  <2>2. CASE is_constant(cn)
    BY <1>1, <2>1, <2>2, PlainAppended DEF is_constant
  <2>3. CASE ~ is_constant(cn)
    <3>1. constant_map' = Insert(constant_map, cn, v) /\ cn \notin DOMAIN constant_map
      BY <2>1, <2>3 DEF declare, is_constant
    <3>2. cn \in DOMAIN constant_map'
      BY <3>1 DEF Insert
    <3>3. BodyCall("LDC_W", cn, v, 0)
      BY <1>1, <2>1, <3>1, <3>2 DEF BodyCall, Unlinked
    <3>4. QED
      BY <3>3, BodyAppended
  <2>4. QED
    BY <2>2, <2>3
<1>4. QED
  BY <1>2, <1>3

LEMMA SlotBound ==
    ASSUME IInv, NEW x, indexOf(locals, x) >= 0
    PROVE  indexOf(locals, x) \in Nat /\ indexOf(locals, x) < Len(locals)
<1>1. locals \in Seq(VarNames)
  BY Tables
<1>2. indexOf(locals, x) \in 0..(Len(locals) - 1)
  BY <1>1, IndexOf
<1>3. Len(locals) \in Nat
  BY <1>1
<1>4. QED
  BY <1>2, <1>3

LEMMA AssembleStep ==
    ASSUME IInv, Assemble
    PROVE  \/ \E t : Appended(t)
           \/ \E c \in ConstNames, v \in Values : constant(c, v)
           \/ Thrown
<1> DEFINE Goal == \/ \E t : Appended(t)
                   \/ \E c \in ConstNames, v \in Values : constant(c, v)
                   \/ Thrown
<1>1. ASSUME NEW l \in Labels, label(l)
      PROVE  Goal
  <2>1. "label" \notin VarOps /\ "label" \notin JumpOps /\ l \in Names
    BY OpClasses DEF Names
  <2>2. BodyCall("label", l, 0, 0)
    BY <1>1, <2>1 DEF label, BodyCall
  <2>3. QED
    BY <2>2, BodyAppended
<1>2. ASSUME NEW m \in UsedOps \cap SimpleOps, Simple(m)
      PROVE  Goal
  <2>1. m \in Mnemonics \ PatchedOps /\ m \notin VarOps /\ m # "LDC_W"
    BY OpClasses DEF Mnemonics, PatchedOps, OtherOps, JumpOps, SimpleOps
  <2>2. current_func \in Names
    BY Tables DEF Names
  <2>3. QED
    BY <1>2, <2>1, <2>2, PlainAppended DEF Simple
<1>3. ASSUME NEW c \in ConstNames, LDC_W(c)
      PROVE  Goal
  <2>1. "LDC_W" \in Mnemonics \ PatchedOps /\ "LDC_W" \notin VarOps /\ c \in Names
    BY DEF Mnemonics, OtherOps, PatchedOps, JumpOps, VarOps, Names, AllConsts
  <2>2. CASE is_constant(c)
    BY <1>3, <2>1, <2>2, PlainAppended DEF LDC_W, is_constant
  <2>3. CASE ~ is_constant(c)
    BY <1>3, <2>3 DEF LDC_W, Thrown
  <2>4. QED
    BY <2>2, <2>3
<1>4. ASSUME NEW m \in {"ILOAD", "ISTORE"}, NEW x \in VarNames, Var(m, x)
      PROVE  Goal
  <2> DEFINE n == indexOf(locals, x)
  <2>1. m \in Mnemonics \ PatchedOps /\ m # "LDC_W" /\ x \in Names
    BY DEF Mnemonics, VarOps, PatchedOps, JumpOps, Names
  <2>2. CASE n >= 0
    <3>1. n \in Nat /\ n < Len(locals)
      BY <2>2, SlotBound
    <3>2. InBody /\ Record(m, x, 0, n) /\ Unlinked /\ UNCHANGED constant_map
      BY <1>4, <2>2 DEF Var
    <3> HIDE DEF n
    <3>3. QED
      BY <2>1, <3>1, <3>2, PlainAppended
  <2>3. CASE ~ (n >= 0)
    BY <1>4, <2>3 DEF Var, Thrown
  <2>4. QED
    BY <2>2, <2>3
<1>5. ASSUME NEW x \in VarNames, NEW v \in Values, IINC(x, v)
      PROVE  Goal
  <2> DEFINE n == indexOf(locals, x)
  <2>1. "IINC" \in Mnemonics \ PatchedOps /\ x \in Names /\ v \in Int
    BY CallsAssumption DEF Mnemonics, VarOps, PatchedOps, JumpOps, Names
  <2>2. CASE n >= 0
    <3>1. n \in Nat /\ n < Len(locals)
      BY <2>2, SlotBound
    <3>2. InBody /\ Record("IINC", x, v, n) /\ Unlinked /\ UNCHANGED constant_map
      BY <1>5, <2>2 DEF IINC
    <3> HIDE DEF n
    <3>3. QED
      BY <2>1, <3>1, <3>2, PlainAppended
  <2>3. CASE ~ (n >= 0)
    BY <1>5, <2>3 DEF IINC, Thrown
  <2>4. QED
    BY <2>2, <2>3
<1>6. ASSUME NEW m \in JumpOps, NEW l \in Labels, Jump(m, l)
      PROVE  Goal
  <2>1. m \in Mnemonics /\ m \notin VarOps /\ m \notin OtherOps /\ m # "label" /\ l \in Names
    BY OpClasses DEF Mnemonics, Names
  <2>2. m # "LDC_W" /\ m # "INVOKEVIRTUAL"
    BY <2>1 DEF OtherOps
  <2>3. BodyCall(m, l, 0, 0)
    BY <1>6, <2>1, <2>2 DEF Jump, BodyCall
  <2>4. QED
    BY <2>3, BodyAppended
<1>7. ASSUME NEW f \in FuncNames, INVOKEVIRTUAL(f)
      PROVE  Goal
  <2>1. "INVOKEVIRTUAL" \in Mnemonics /\ "INVOKEVIRTUAL" \notin VarOps \cup JumpOps /\ f \in Names
    BY DEF Mnemonics, OtherOps, VarOps, JumpOps, Names
  <2>2. BodyCall("INVOKEVIRTUAL", f, 0, 0)
    BY <1>7, <2>1 DEF INVOKEVIRTUAL, BodyCall
  <2>3. QED
    BY <2>2, BodyAppended
<1>8. ASSUME NEW s \in Signatures, function(s)
      PROVE  Goal
  BY <1>8, FunctionAppended
<1>9. ASSUME NEW v \in Values, PUSH_VAL(v)
      PROVE  Goal
  BY <1>9, PushAppended
<1> HIDE DEF Goal
<1>10. Goal
  <2>1. ASSUME NEW c \in ConstNames, NEW v \in Values, constant(c, v)
        PROVE  Goal
    BY <2>1 DEF Goal
  <2>2. QED
    BY <1>1, <1>2, <1>3, <1>4, <1>5, <1>6, <1>7, <1>8, <1>9, <2>1 DEF Assemble
<1>11. QED
  BY <1>10 DEF Goal

-----------------------------------------------------------------------------
(* compile and link.                                                       *)

\* What the calls and the tables say stays said while neither changes.
LEMMA HistoryKept ==
    ASSUME History, UNCHANGED symbols
    PROVE  History'
<1>1. UNCHANGED <<constant_map, laddrs, jmpaddrs, faddrs, invokes, current_func, locals, text>>
  BY DEF symbols
<1>2. Numbered' /\ LabelTable' /\ JumpTable' /\ CallTable'
  BY <1>1 DEF History, Numbered, LabelTable, JumpTable, CallTable, InFunction
<1>3. FunctionTable' /\ Frames' /\ Generated'
  BY <1>1 DEF History, FunctionTable, Frames, Generated
<1>4. QED
  BY <1>2, <1>3 DEF History

LEMMA DeclaredHistory ==
    ASSUME IInv, History, NEW c \in ConstNames, NEW v \in Values, constant(c, v)
    PROVE  History'
<1>1. /\ UNCHANGED <<laddrs, jmpaddrs, faddrs, invokes, current_func, locals, text>>
      /\ constant_map' = Insert(constant_map, c, v)
  BY DEF constant, declare
<1>2. Numbered' /\ LabelTable' /\ JumpTable' /\ CallTable'
  BY <1>1 DEF History, Numbered, LabelTable, JumpTable, CallTable, InFunction
<1>3. FunctionTable' /\ Frames'
  BY <1>1 DEF History, FunctionTable, Frames
<1>4. Generated'
  <2>1. \A x : x \notin ConstNames =>
           /\ x \in DOMAIN constant_map' => x \in DOMAIN constant_map
           /\ x \in DOMAIN constant_map => constant_map'[x] = constant_map[x]
    BY <1>1 DEF Insert
  <2>2. DOMAIN constant_map \subseteq DOMAIN constant_map'
    BY <1>1 DEF Insert
  <2>3. QED
    BY <1>1, <2>1, <2>2 DEF History, Generated
<1>5. QED
  BY <1>2, <1>3, <1>4 DEF History

\* The order of the functions has each of them.
LEMMA OrderComplete ==
    ASSUME NEW S, IsFiniteSet(S), NEW order \in SetToSeqs(S)
    PROVE  order \in Seq(S) /\ ToSet(order) = S
<1> DEFINE n == Cardinality(S)
<1>1. n \in Nat
  BY FS_CardinalityType
<1>2. order \in [1..n -> S] /\ order \in SetToSeqs(S)
  BY DEF SetToSeqs
<1>3. \A i, j \in 1..n : i # j => order[i] # order[j]
  BY <1>2 DEF SetToSeqs, IsInjective
<1>4. order \in Injection(1..n, S)
  BY <1>2, <1>3 DEF Injection, IsInjective
<1>5. IsFiniteSet(1..n) /\ Cardinality(1..n) = n
  BY <1>1, FS_Interval
<1>6. order \in Surjection(1..n, S)
  BY <1>4, <1>5, FS_Injection
<1>7. DOMAIN order = 1..n
  BY <1>2
<1>8. ToSet(order) = S
  BY <1>2, <1>6, <1>7 DEF ToSet, Surjection
<1> HIDE DEF n
<1>9. order \in Seq(S)
  BY <1>1, <1>2
<1>10. QED
  BY <1>8, <1>9

LEMMA CompileLaysOut ==
    ASSUME IInv, compile
    PROVE  LaidOut'
<1>1. PICK order \in SetToSeqs(DOMAIN faddrs) :
         /\ pool' = pool_of(order)
         /\ findexes' = [f \in DOMAIN faddrs |-> findex(order, f)]
  BY DEF compile
<1>2. order \in Seq(DOMAIN faddrs) /\ ToSet(order) = DOMAIN faddrs
  BY Tables, OrderComplete
<1>3. UNCHANGED <<constant_order, constant_map, faddrs>>
  BY DEF compile, symbols
<1> DEFINE cs == [i \in DOMAIN constant_order |-> constant_map[constant_order[i]]]
           fs == [i \in DOMAIN order |-> faddrs[order[i]]]
           nc == Len(constant_order)
           nf == Len(order)
<1>4. cs \in Seq(Int) /\ Len(cs) = nc /\ \A k \in 1..nc : cs[k] = constant_map[constant_order[k]]
  <2>1. /\ constant_order \in Seq(AllConsts) /\ ToSet(constant_order) = DOMAIN constant_map
        /\ IsMap(constant_map, AllConsts, Values) /\ Values \subseteq Int
    BY Tables, CallsAssumption DEF ConstantsKnown
  <2>2. ASSUME NEW i \in 1..nc
        PROVE  constant_map[constant_order[i]] \in Int
    <3>1. constant_order[i] \in DOMAIN constant_map
      BY <2>1 DEF ToSet
    <3>2. QED
      BY <2>1, <3>1 DEF IsMap
  <2>3. DOMAIN constant_order = 1..nc /\ nc \in Nat
    BY <2>1
  <2>4. cs \in [1..nc -> Int] /\ \A k \in 1..nc : cs[k] = constant_map[constant_order[k]]
    BY <2>2, <2>3
  <2> HIDE DEF cs, nc
  <2>5. QED
    BY <2>3, <2>4
<1>5. /\ fs \in Seq(Int) /\ Len(fs) = nf /\ \A k \in 1..nf : fs[k] = faddrs[order[k]]
      /\ nf \in Nat
  <2>1. IsMap(faddrs, FuncNames \ {"main"}, 0..Len(code))
    BY Tables
  <2>2. DOMAIN order = 1..nf /\ nf \in Nat
    BY <1>2
  <2>3. ASSUME NEW i \in 1..nf
        PROVE  faddrs[order[i]] \in Int
    BY <1>2, <2>1 DEF IsMap
  <2>4. fs \in [1..nf -> Int] /\ \A k \in 1..nf : fs[k] = faddrs[order[k]]
    BY <2>2, <2>3
  <2> HIDE DEF fs, nf
  <2>5. QED
    BY <2>2, <2>4
<1>6. pool' = cs \o fs /\ nc \in Nat
  BY <1>1, Tables DEF pool_of
<1> HIDE DEF cs, fs
<1>7. /\ Len(pool') = nc + nf
      /\ \A k \in 1..(nc + nf) : pool'[k] = IF k <= nc THEN cs[k] ELSE fs[k - nc]
  <2> HIDE DEF nc, nf
  <2>1. cs \in Seq(Int) /\ fs \in Seq(Int) /\ Len(cs) = nc /\ Len(fs) = nf
    BY <1>4, <1>5
  <2>2. /\ Len(cs \o fs) = Len(cs) + Len(fs)
        /\ \A k \in 1..(Len(cs) + Len(fs)) :
              (cs \o fs)[k] = IF k <= Len(cs) THEN cs[k] ELSE fs[k - Len(cs)]
    BY <2>1, ConcatProperties
  <2>3. QED
    BY <1>6, <2>1, <2>2
<1>8. ASSUME NEW f \in DOMAIN faddrs
      PROVE  /\ findexes'[f] \in Nat /\ findexes'[f] < Len(pool')
             /\ pool'[findexes'[f] + 1] = faddrs[f]
  <2> DEFINE x == indexOf(order, f)
  <2>1. x \in 0..(nf - 1) /\ order[x + 1] = f
    BY <1>2, IndexOf
  <2>2. findexes'[f] = nc + x
    BY <1>1 DEF findex
  <2> HIDE DEF x, nc, nf
  <2>3. /\ nc + x \in Nat /\ nc + x < nc + nf /\ (nc + x) + 1 \in 1..(nc + nf)
        /\ ~ ((nc + x) + 1 <= nc) /\ ((nc + x) + 1) - nc = x + 1 /\ x + 1 \in 1..nf
    BY <1>5, <1>6, <2>1
  <2>4. pool'[(nc + x) + 1] = fs[x + 1] /\ fs[x + 1] = faddrs[f]
    BY <1>5, <1>7, <2>1, <2>3
  <2>5. QED
    BY <1>7, <2>2, <2>3, <2>4
<1>9. DOMAIN findexes' = DOMAIN faddrs
  BY <1>1
<1>10. /\ Len(pool') >= nc
       /\ \A k \in 1..nc : pool'[k] = constant_map[constant_order[k]]
  <2> HIDE DEF nc, nf
  <2>1. ASSUME NEW k \in 1..nc
        PROVE  pool'[k] = cs[k]
    BY <1>5, <1>6, <1>7, <2>1
  <2>2. QED
    BY <1>4, <1>5, <1>6, <1>7, <2>1
<1>11. QED
  BY <1>3, <1>8, <1>9, <1>10 DEF LaidOut

(***************************************************************************)
(* A patch is read back where it was written and nowhere else.             *)
(***************************************************************************)
LEMMA PatchedOperands ==
    ASSUME IInv, NEW i \in DOMAIN text, text[i].op \in PatchedOps, NEW n \in Int,
           code' = write_u16(code, text[i].at + 1, n)
    PROVE  /\ ReadBig(code', text[i].at + 1) = n % WordBase
           /\ \A j \in DOMAIN text : (text[j].op \in PatchedOps /\ text[j].at # text[i].at) =>
                ReadBig(code', text[j].at + 1) = ReadBig(code, text[j].at + 1)
<1> DEFINE a == text[i].at
<1>1. /\ a \in Nat /\ a + 3 <= Len(code)
      /\ code \in Seq(Cell) /\ DOMAIN code = 1..Len(code) /\ Len(code) \in Nat
  BY SiteRoom, Tables
<1> HIDE DEF a
<1>2. code' = [code EXCEPT ![a + 2] = BigEndian(n)[1], ![a + 3] = BigEndian(n)[2]]
  <2>1. (a + 1) + 1 = a + 2 /\ (a + 1) + 2 = a + 3
    BY <1>1
  <2>2. code' = write_u16(code, a + 1, n)
    BY DEF a
  <2>3. QED
    BY <2>1, <2>2 DEF write_u16
<1>3. code'[a + 2] = BigEndian(n)[1] /\ code'[a + 3] = BigEndian(n)[2]
  <2> DEFINE x == BigEndian(n)[1]
             y == BigEndian(n)[2]
  <2> HIDE DEF x, y
  <2>1. code' = [code EXCEPT ![a + 2] = x, ![a + 3] = y]
    BY <1>2 DEF x, y
  <2>2. a + 2 # a + 3 /\ a + 2 \in DOMAIN code /\ a + 3 \in DOMAIN code
    BY <1>1
  <2>3. QED
    BY <2>1, <2>2 DEF x, y
<1>4. ReadBig(code', a + 1) = n % WordBase
  <2>1. a + 1 \in Nat /\ (a + 1) + 1 = a + 2 /\ (a + 1) + 2 = a + 3
    BY <1>1
  <2>2. QED
    BY <1>3, <2>1, ReadBack
<1>5. ASSUME NEW j \in DOMAIN text, text[j].op \in PatchedOps, text[j].at # a
      PROVE  ReadBig(code', text[j].at + 1) = ReadBig(code, text[j].at + 1)
  <2> DEFINE b == text[j].at
  <2>1. b \in Nat /\ b + 3 <= Len(code) /\ Size(text[j]) = 3 /\ Size(text[i]) = 3
    BY <1>5, SiteRoom
  <2>2. b + 3 <= a \/ a + 3 <= b
    <3>1. i \in Nat /\ j \in Nat /\ i # j
      BY <1>5, TextType DEF a
    <3>2. i < j \/ j < i
      BY <3>1
    <3>3. (i < j => a + 3 <= b) /\ (j < i => b + 3 <= a)
      BY <2>1 DEF IInv, Layout, a
    <3>4. QED
      BY <3>2, <3>3
  <2> HIDE DEF b
  <2>3. ASSUME NEW k \in {b + 2, b + 3}
        PROVE  code'[k] = code[k]
    <3>1. k \in DOMAIN code /\ k # a + 2 /\ k # a + 3
      BY <1>1, <2>1, <2>2
    <3>2. QED
      BY <1>2, <3>1
  <2>4. b + 1 \in Nat /\ (b + 1) + 1 = b + 2 /\ ((b + 1) + 1) + 1 = b + 3
    BY <2>1
  <2>5. Same(code, code', b + 1) /\ Same(code, code', (b + 1) + 1)
    BY <2>3, <2>4 DEF Same
  <2>6. ReadBig(code', b + 1) = ReadBig(code, b + 1)
    BY <2>4, <2>5, SameWord
  <2>7. QED
    BY <2>6 DEF b
<1>6. QED
  BY <1>4, <1>5 DEF a

LEMMA NotLinking ==
    ASSUME phase' \in {"assemble", "thrown"}
    PROVE  Linked'
BY DEF Linked, LaidOut, JumpsLinked, CallsLinked, PanicJustified

LEMMA CompileLinked ==
    ASSUME IInv, History, compile
    PROVE  Linked'
<1>1. phase' = "link_jumps" /\ pending' = DOMAIN jmpaddrs /\ UNCHANGED text
  BY DEF compile, symbols
<1>2. JumpsLinked'
  BY <1>1 DEF JumpsLinked, History, JumpTable
<1>3. CallsLinked' /\ PanicJustified'
  BY <1>1 DEF CallsLinked, PanicJustified
<1>4. QED
  BY <1>2, <1>3, CompileLaysOut DEF Linked

LEMMA LinkJumpLinked ==
    ASSUME IInv, History, Linked, NEW p \in pending, LinkJump(p)
    PROVE  Linked'
<1>1. phase = "link_jumps" /\ UNCHANGED <<pool, findexes, symbols>>
      /\ UNCHANGED <<constant_order, constant_map, laddrs, jmpaddrs, faddrs, invokes, text>>
  BY DEF LinkJump, symbols
<1>2. p \in DOMAIN jmpaddrs
  BY <1>1, PendingType DEF Pending
<1>3. PICK i \in DOMAIN text : text[i].at = p /\ text[i].op \in JumpOps
  BY <1>2, PendingType DEF Sites
<1>4. CASE jmpaddrs[p] \in DOMAIN laddrs
  <2>1. /\ code' = write_u16(code, p + 1, displacement(p))
        /\ pending' = pending \ {p} /\ phase' = "link_jumps"
    BY <1>1, <1>4 DEF LinkJump
  <2>2. displacement(p) \in Int
    <3>1. laddrs[jmpaddrs[p]] \in 0..Len(code)
      BY <1>4, Tables DEF IsMap
    <3>2. p \in Nat
      BY PendingType
    <3>3. QED
      BY <3>1, <3>2 DEF displacement
  <2>3. /\ ReadBig(code', p + 1) = displacement(p) % WordBase
        /\ \A j \in DOMAIN text : (text[j].op \in PatchedOps /\ text[j].at # p) =>
             ReadBig(code', text[j].at + 1) = ReadBig(code, text[j].at + 1)
    <3>1. text[i].op \in PatchedOps /\ code' = write_u16(code, text[i].at + 1, displacement(p))
      BY <1>3, <2>1 DEF PatchedOps
    <3>2. QED
      BY <1>3, <2>2, <3>1, PatchedOperands
  <2>4. displacement(p)' = displacement(p)
        /\ \A j \in DOMAIN text : displacement(text[j].at)' = displacement(text[j].at)
    BY <1>1 DEF displacement
  <2>5. ASSUME NEW j \in DOMAIN text, text[j].op \in JumpOps, text[j].at \notin pending'
        PROVE  JumpLinked(j)'
    <3>1. CASE text[j].at = p
      BY <1>1, <1>4, <2>3, <2>4, <3>1 DEF JumpLinked
    <3>2. CASE text[j].at # p
      <4>1. JumpLinked(j)
        BY <1>1, <2>1, <2>5, <3>2 DEF Linked, JumpsLinked
      <4>2. ReadBig(code', text[j].at + 1) = ReadBig(code, text[j].at + 1)
        BY <2>3, <2>5, <3>2 DEF PatchedOps
      <4>3. QED
        BY <1>1, <2>4, <2>5, <4>1, <4>2 DEF JumpLinked
    <3>3. QED
      BY <3>1, <3>2
  <2>6. JumpsLinked'
    BY <1>1, <2>1, <2>5 DEF JumpsLinked
  <2>7. LaidOut' /\ CallsLinked' /\ PanicJustified'
    BY <1>1, <2>1 DEF Linked, LaidOut, CallsLinked, PanicJustified
  <2>8. QED
    BY <2>6, <2>7 DEF Linked
<1>5. CASE jmpaddrs[p] \notin DOMAIN laddrs
  <2>1. phase' = "panicked"
    BY <1>5 DEF LinkJump
  <2>2. /\ jmpaddrs[p] \in FuncNames \X Labels
        /\ InFunction(text, i, jmpaddrs[p][1]) /\ jmpaddrs[p][2] = text[i].name
    BY <1>2, <1>3, Tables DEF IsMap, History, JumpTable
  <2>3. ASSUME NEW j \in DOMAIN text, text[j].op = "label", SameLabel(i, j)
        PROVE  FALSE
    <3>1. InFunction(text, j, jmpaddrs[p][1]) /\ text[j].name = jmpaddrs[p][2]
      BY <2>2, <2>3 DEF SameLabel, InFunction
    <3>2. <<jmpaddrs[p][1], jmpaddrs[p][2]>> \in DOMAIN laddrs
      BY <2>2, <2>3, <3>1 DEF History, LabelTable
    <3>3. QED
      BY <1>5, <2>2, <3>2
  <2>4. \E k \in CallsTo(JumpOps) : \A j \in CallsTo({"label"}) : ~ SameLabel(k, j)
    BY <1>3, <2>3 DEF CallsTo
  <2>5. PanicJustified'
    BY <1>1, <2>4 DEF PanicJustified, CallsTo, SameLabel
  <2>6. LaidOut' /\ JumpsLinked' /\ CallsLinked'
    BY <2>1 DEF LaidOut, JumpsLinked, CallsLinked
  <2>7. QED
    BY <2>5, <2>6 DEF Linked
<1>6. QED
  BY <1>4, <1>5

LEMMA LinkCallLinked ==
    ASSUME IInv, History, Linked, NEW p \in pending, LinkCall(p)
    PROVE  Linked'
<1>1. phase = "link_calls" /\ UNCHANGED <<pool, findexes, symbols>>
      /\ UNCHANGED <<constant_order, constant_map, laddrs, jmpaddrs, faddrs, invokes, text>>
  BY DEF LinkCall, symbols
<1>2. p \in DOMAIN invokes
  BY <1>1, PendingType DEF Pending
<1>3. PICK i \in DOMAIN text : text[i].at = p /\ text[i].op = "INVOKEVIRTUAL"
  BY <1>2, PendingType DEF Sites
<1>4. CASE invokes[p] \in DOMAIN findexes
  <2> DEFINE n == findexes[invokes[p]]
  <2>1. /\ code' = write_u16(code, p + 1, n)
        /\ pending' = pending \ {p} /\ phase' = "link_calls"
    BY <1>1, <1>4 DEF LinkCall
  <2>2. n \in Int
    BY <1>4, PendingType DEF IsMap
  <2> HIDE DEF n
  <2>3. /\ ReadBig(code', p + 1) = n % WordBase
        /\ \A j \in DOMAIN text : (text[j].op \in PatchedOps /\ text[j].at # p) =>
             ReadBig(code', text[j].at + 1) = ReadBig(code, text[j].at + 1)
    <3>1. text[i].op \in PatchedOps /\ code' = write_u16(code, text[i].at + 1, n)
      BY <1>3, <2>1 DEF PatchedOps
    <3>2. QED
      BY <1>3, <2>2, <3>1, PatchedOperands
  <2>4. ASSUME NEW j \in DOMAIN text, text[j].op = "INVOKEVIRTUAL", text[j].at \notin pending'
        PROVE  CallLinked(j)'
    <3>1. CASE text[j].at = p
      BY <1>1, <1>4, <2>3, <3>1 DEF CallLinked, n
    <3>2. CASE text[j].at # p
      <4>1. CallLinked(j)
        BY <1>1, <2>1, <2>4, <3>2 DEF Linked, CallsLinked
      <4>2. ReadBig(code', text[j].at + 1) = ReadBig(code, text[j].at + 1)
        BY <2>3, <2>4, <3>2 DEF PatchedOps
      <4>3. QED
        BY <1>1, <2>4, <4>1, <4>2 DEF CallLinked
    <3>3. QED
      BY <3>1, <3>2
  <2>5. CallsLinked'
    BY <1>1, <2>1, <2>4 DEF CallsLinked
  <2>6. ASSUME NEW j \in DOMAIN text, text[j].op \in JumpOps
        PROVE  JumpLinked(j)'
    <3>1. JumpLinked(j)
      BY <1>1, <2>6 DEF Linked, JumpsLinked
    <3>2. text[j].at # p
      <4>1. text[i].op \notin JumpOps
        BY <1>3 DEF JumpOps
      <4>2. text[j].op \in PatchedOps /\ text[i].op \in PatchedOps
        BY <1>3, <2>6 DEF PatchedOps
      <4>3. i \in Nat /\ j \in Nat /\ text[i].at \in Nat /\ text[j].at \in Nat
            /\ Size(text[i]) = 3 /\ Size(text[j]) = 3
        BY <4>2, TextType, SiteRoom
      <4>4. i < j \/ j < i
        BY <2>6, <4>1, <4>3
      <4>5. /\ i < j => text[i].at + 3 <= text[j].at
            /\ j < i => text[j].at + 3 <= text[i].at
        BY <4>3 DEF IInv, Layout
      <4>6. QED
        BY <1>3, <4>3, <4>4, <4>5
    <3>3. ReadBig(code', text[j].at + 1) = ReadBig(code, text[j].at + 1)
      BY <2>3, <2>6, <3>2 DEF PatchedOps
    <3>4. QED
      BY <1>1, <3>1, <3>3 DEF JumpLinked, displacement
  <2>7. JumpsLinked'
    BY <1>1, <2>6 DEF JumpsLinked
  <2>8. LaidOut' /\ PanicJustified'
    BY <1>1, <2>1 DEF Linked, LaidOut, PanicJustified
  <2>9. QED
    BY <2>5, <2>7, <2>8 DEF Linked
<1>5. CASE invokes[p] \notin DOMAIN findexes
  <2>1. phase' = "panicked"
    BY <1>5 DEF LinkCall
  <2>2. invokes[p] = text[i].name /\ text[i].name \notin DOMAIN faddrs
    BY <1>1, <1>3, <1>5 DEF History, CallTable, Linked, LaidOut
  <2>3. ASSUME NEW j \in DOMAIN text, text[j].op = "function", text[j].name = text[i].name
        PROVE  text[j].name = "main"
    BY <2>2, <2>3 DEF History, FunctionTable
  <2>4. \E k \in CallsTo({"INVOKEVIRTUAL"}) :
           \A j \in CallsTo({"function"}) :
              text[j].name = text[k].name => text[j].name = "main"
    BY <1>3, <2>3 DEF CallsTo
  <2>5. PanicJustified'
    BY <1>1, <2>4 DEF PanicJustified, CallsTo
  <2>6. LaidOut' /\ JumpsLinked' /\ CallsLinked'
    BY <2>1 DEF LaidOut, JumpsLinked, CallsLinked
  <2>7. QED
    BY <2>5, <2>6 DEF Linked
<1>6. QED
  BY <1>4, <1>5

LEMMA LinkDoneLinked ==
    ASSUME IInv, History, Linked, LinkJumpsDone \/ LinkDone
    PROVE  Linked'
<1>1. UNCHANGED <<pool, findexes, code, constant_order, constant_map, laddrs, jmpaddrs,
                  faddrs, invokes, text>>
      /\ phase \in {"link_jumps", "link_calls"} /\ phase' \in {"link_calls", "linked"}
  BY DEF LinkJumpsDone, LinkDone, symbols
<1>2. \A i : (JumpLinked(i) => JumpLinked(i)') /\ (CallLinked(i) => CallLinked(i)')
  BY <1>1 DEF JumpLinked, CallLinked, displacement
<1>3. JumpsLinked'
  <2>1. ASSUME NEW i \in DOMAIN text, text[i].op \in JumpOps
        PROVE  JumpLinked(i)
    BY <2>1 DEF Linked, JumpsLinked, LinkJumpsDone, LinkDone
  <2>2. QED
    BY <1>1, <1>2, <2>1 DEF JumpsLinked
<1>4. CallsLinked'
  <2>1. CASE LinkJumpsDone
    <3>1. phase' = "link_calls" /\ pending' = DOMAIN invokes
      BY <2>1 DEF LinkJumpsDone
    <3>2. QED
      BY <1>1, <3>1 DEF CallsLinked, History, CallTable
  <2>2. CASE LinkDone
    <3>1. ASSUME NEW i \in DOMAIN text, text[i].op = "INVOKEVIRTUAL"
          PROVE  CallLinked(i)
      BY <2>2, <3>1 DEF Linked, CallsLinked, LinkDone
    <3>2. QED
      BY <1>1, <1>2, <3>1 DEF CallsLinked
  <2>3. QED
    BY <2>1, <2>2
<1>5. LaidOut' /\ PanicJustified'
  BY <1>1 DEF Linked, LaidOut, PanicJustified
<1>6. QED
  BY <1>3, <1>4, <1>5 DEF Linked

LEMMA StutterLinked ==
    ASSUME Linked, UNCHANGED vars
    PROVE  Linked'
<1>1. UNCHANGED <<phase, pool, findexes, pending, code, constant_order, constant_map, laddrs,
                  jmpaddrs, faddrs, invokes, text>>
  BY DEF vars, output, symbols
<1>2. JumpsLinked' /\ CallsLinked'
  BY <1>1 DEF Linked, JumpsLinked, CallsLinked, JumpLinked, CallLinked, displacement
<1>3. LaidOut' /\ PanicJustified'
  BY <1>1 DEF Linked, LaidOut, PanicJustified, CallsTo, SameLabel
<1>4. QED
  BY <1>2, <1>3 DEF Linked

-----------------------------------------------------------------------------

LEMMA LInitInv == Init => LInv
<1> SUFFICES ASSUME Init
             PROVE  LInv
  OBVIOUS
<1>1. text = << >> /\ DOMAIN text = {} /\ phase = "assemble"
  BY DEF Init
<1>2. DOMAIN laddrs = {} /\ DOMAIN faddrs = {} /\ DOMAIN constant_map = {}
  BY DEF Init, Empty
<1>3. Numbered /\ LabelTable /\ JumpTable /\ CallTable
  BY <1>1, <1>2 DEF Numbered, LabelTable, JumpTable, CallTable
<1>4. FunctionTable /\ Frames /\ Generated
  BY <1>1, <1>2 DEF FunctionTable, Frames, Generated
<1>5. LaidOut /\ JumpsLinked /\ CallsLinked /\ PanicJustified
  BY <1>1 DEF LaidOut, JumpsLinked, CallsLinked, PanicJustified
<1>6. QED
  BY <1>3, <1>4, <1>5, InitInv DEF LInv, History, Linked

LEMMA LNextInv == LInv /\ [Next]_vars => LInv'
<1> SUFFICES ASSUME LInv, [Next]_vars
             PROVE  LInv'
  OBVIOUS
<1>0. IInv /\ History /\ Linked
  BY DEF LInv
<1>1. IInv'
  BY <1>0, NextInv
<1>2. History' /\ Linked'
  <2>1. CASE Assemble
    <3>1. ASSUME NEW t, Appended(t)
          PROVE  History' /\ Linked'
      <4>1. phase' = "assemble"
        BY <3>1 DEF Appended, output
      <4>2. QED
        BY <1>0, <3>1, <4>1, HistoryStep, NotLinking
    <3>2. ASSUME NEW c \in ConstNames, NEW v \in Values, constant(c, v)
          PROVE  History' /\ Linked'
      <4>1. phase' = "assemble"
        BY <3>2 DEF constant, output
      <4>2. QED
        BY <1>0, <3>2, <4>1, DeclaredHistory, NotLinking
    <3>3. CASE Thrown
      <4>1. phase' = "thrown" /\ (History => History')
        BY <3>3 DEF Thrown, History, Numbered, LabelTable, JumpTable, CallTable, InFunction,
                    FunctionTable, Frames, Generated
      <4>2. QED
        BY <1>0, <4>1, NotLinking
    <3>4. QED
      BY <1>0, <2>1, <3>1, <3>2, <3>3, AssembleStep
  <2>2. CASE Link
    <3>1. UNCHANGED symbols
      BY <2>2 DEF Link, compile, LinkJump, LinkJumpsDone, LinkCall, LinkDone
    <3>2. Linked'
      BY <1>0, <2>2, CompileLinked, LinkJumpLinked, LinkCallLinked, LinkDoneLinked DEF Link
    <3>3. QED
      BY <1>0, <3>1, <3>2, HistoryKept
  <2>3. CASE Terminated \/ UNCHANGED vars
    <3>1. UNCHANGED vars /\ UNCHANGED symbols
      BY <2>3 DEF Terminated, vars
    <3>2. QED
      BY <1>0, <3>1, HistoryKept, StutterLinked
  <2>4. QED
    BY <2>1, <2>2, <2>3 DEF Next
<1>3. QED
  BY <1>1, <1>2 DEF LInv

-----------------------------------------------------------------------------

LEMMA WordIsEven == WordBase % 2 = 0
<1> DEFINE h == ByteBase \div 2
<1>1. ByteBase = 2 * h /\ h \in Int
  BY WordAssumption
<1> HIDE DEF h
<1>2. WordBase = 2 * (h * ByteBase) /\ h * ByteBase \in Int
  BY <1>1, WordBaseType DEF WordBase
<1> DEFINE q == h * ByteBase
<1> HIDE DEF q
<1>3. WordBase = 2 * q + 0 /\ q \in Int
  BY <1>2 DEF q
<1>4. (2 * q + 0) % 2 = 0
  BY <1>3, DivisionUnique
<1>5. QED
  BY <1>3, <1>4

(***************************************************************************)
(* A jump arrives at the label of its own function, whatever the order in  *)
(* which link comes to the jumps (ijvm_assembler.cpp:193-214, 252-266).    *)
(***************************************************************************)
THEOREM JumpsArrive == Spec => []JumpsReachLabels
<1>1. ASSUME LInv
      PROVE  JumpsReachLabels
  <2>1. SUFFICES ASSUME phase = "linked", DistinctFunctions,
                        NEW i \in DOMAIN text, text[i].op \in JumpOps,
                        NEW j \in DOMAIN text, text[j].op = "label",
                        SameLabel(i, j),
                        \A k \in CallsTo({"label"}) : SameLabel(k, j) => k = j,
                        text[j].at - text[i].at \in MinI16..MaxI16
                 PROVE  text[i].at + Signed(ReadBig(code, text[i].at + 1), WordBase) = text[j].at
    BY DEF JumpsReachLabels, CallsTo
  <2> DEFINE a   == text[i].at
             key == jmpaddrs[a]
             d   == text[j].at - a
  <2>2. IInv /\ JumpLinked(i) /\ LabelTable /\ JumpTable
    BY <1>1, <2>1 DEF LInv, Linked, JumpsLinked, History
  <2>3. /\ key \in DOMAIN laddrs /\ InFunction(text, i, key[1]) /\ key[2] = text[i].name
        /\ ReadBig(code, a + 1) = (laddrs[key] - a) % WordBase
    BY <2>1, <2>2 DEF JumpLinked, JumpTable, displacement
  <2>4. PICK k \in DOMAIN text :
           /\ text[k].op = "label" /\ text[k].at = laddrs[key]
           /\ InFunction(text, k, key[1]) /\ text[k].name = key[2]
    BY <2>2, <2>3 DEF LabelTable
  <2>5. text[k].fn = text[i].fn
    BY <2>1, <2>3, <2>4 DEF InFunction, DistinctFunctions, CallsTo
  <2>6. k = j
    BY <2>1, <2>3, <2>4, <2>5 DEF SameLabel, CallsTo
  <2>7. a \in Nat /\ text[j].at \in Nat /\ d \in Int
    BY <2>2, TextType
  <2>8. ReadBig(code, a + 1) = d % WordBase
    BY <2>3, <2>4, <2>6
  <2>9. Signed(d % WordBase, WordBase) = d
    <3>1. d \in -(WordBase \div 2)..(WordBase \div 2 - 1)
      BY <2>1 DEF MinI16, MaxI16
    <3> HIDE DEF d
    <3>2. QED
      BY <3>1, WordBaseType, WordIsEven, SignedRemainder
  <2>10. a + d = text[j].at
    BY <2>7
  <2>11. QED
    BY <2>8, <2>9, <2>10
<1>2. QED
  BY <1>1, LInitInv, LNextInv, PTL DEF Spec

(***************************************************************************)
(* A call finds the address of the function it names, whatever order the   *)
(* hash tables give the functions in the pool (ijvm_assembler.cpp:19-22,   *)
(* 268-279).                                                               *)
(***************************************************************************)
THEOREM CallsArrive == Spec => []CallsReachFunctions
<1>1. ASSUME LInv
      PROVE  CallsReachFunctions
  <2>1. SUFFICES ASSUME phase = "linked", DistinctFunctions, Len(pool) <= WordBase,
                        NEW i \in DOMAIN text, text[i].op = "INVOKEVIRTUAL",
                        NEW j \in DOMAIN text, text[j].op = "function",
                        text[i].name = text[j].name
                 PROVE  PoolHolds(ReadBig(code, text[i].at + 1), text[j].at)
    BY DEF CallsReachFunctions, CallsTo
  <2> DEFINE f == text[i].name
             n == findexes[f]
  <2>2. IInv /\ CallLinked(i) /\ CallTable /\ FunctionTable /\ LaidOut
    BY <1>1, <2>1 DEF LInv, Linked, CallsLinked, History
  <2>3. /\ f \in DOMAIN faddrs /\ n \in Nat /\ n < Len(pool) /\ pool[n + 1] = faddrs[f]
        /\ ReadBig(code, text[i].at + 1) = n % WordBase
    BY <2>1, <2>2 DEF CallLinked, CallTable, LaidOut
  <2>4. PICK k \in DOMAIN text :
           text[k].op = "function" /\ text[k].name = f /\ text[k].at = faddrs[f]
    BY <2>2, <2>3 DEF FunctionTable
  <2>5. k = j
    BY <2>1, <2>4 DEF DistinctFunctions, CallsTo
  <2> HIDE DEF n
  <2>6. Len(pool) \in Nat
    BY <2>2, PendingType
  <2>7. n % WordBase = n
    <3>1. n \in 0..(WordBase - 1)
      BY <2>1, <2>3, <2>6, WordBaseType
    <3>2. QED
      BY <3>1, WordBaseType, SmallRemainder
  <2>8. QED
    BY <2>3, <2>4, <2>5, <2>7 DEF PoolHolds
<1>2. QED
  BY <1>1, LInitInv, LNextInv, PTL DEF Spec

(***************************************************************************)
(* link gives up only over a label or a function that does not exist       *)
(* (ijvm_assembler.cpp:255-261, 269-276).                                  *)
(***************************************************************************)
THEOREM PanicsJustified == Spec => []PanicJustified
<1>1. LInv => PanicJustified
  BY DEF LInv, Linked
<1>2. QED
  BY <1>1, LInitInv, LNextInv, PTL DEF Spec

(***************************************************************************)
(* The number that is pushed through the pool is the number in the pool    *)
(* (assembler.cpp:16-30).                                                  *)
(***************************************************************************)
THEOREM PushesHold == Spec => []PushedValues
<1>1. ASSUME LInv
      PROVE  PushedValues
  <2>1. SUFFICES ASSUME phase = "linked", Len(pool) <= WordBase,
                        NEW i \in DOMAIN text, text[i].op = "LDC_W",
                        text[i].name \notin ConstNames,
                        text[i].name = const_name(text[i].value)
                 PROVE  PoolHolds(ReadBig(code, text[i].at + 1), text[i].value)
    BY DEF PushedValues, CallsTo
  <2> DEFINE t == text[i]
             x == ReadBig(code, t.at + 1)
  <2>2. IInv /\ Generated /\ LaidOut
    BY <1>1 DEF LInv, Linked, History
  <2>3. t \in Calls /\ t.value \in Int
    BY <2>2, TextType
  <2>4. Len(pool) \in Nat /\ Len(constant_order) \in Nat /\ Len(pool) >= Len(constant_order)
        /\ \A k \in 1..Len(constant_order) : pool[k] = constant_map[constant_order[k]]
    BY <2>1, <2>2, Tables, PendingType DEF LaidOut
  <2>5. Len(constant_order) <= WordBase
    BY <2>1, <2>4, WordBaseType
  <2>6. x \in Nat /\ x < Len(constant_order) /\ constant_order[x + 1] = t.name
    <3>1. Good(code, constant_order, t)
      BY <2>2 DEF IInv, AllGood
    <3>2. QED
      BY <2>1, <2>5, <3>1 DEF Good, Intact
  <2>7. constant_map[t.name] = t.value
    <3>1. t.name \in DOMAIN constant_map /\ DOMAIN constant_map \subseteq AllConsts
      BY <2>1, <2>2, Tables DEF Generated, IsMap
    <3>2. PICK v \in Values : t.name = const_name(v)
      BY <2>1, <3>1 DEF AllConsts
    <3>3. v = t.value
      BY <2>1, <2>3, <3>2, CallsAssumption, SameName
    <3>4. QED
      BY <2>1, <2>2, <3>1, <3>2, <3>3 DEF Generated
  <2> HIDE DEF x, t
  <2>8. x + 1 \in 1..Len(constant_order) /\ x < Len(pool)
    BY <2>4, <2>6
  <2>9. PoolHolds(x, t.value)
    BY <2>4, <2>6, <2>7, <2>8 DEF PoolHolds
  <2>10. QED
    BY <2>9 DEF x, t
<1>2. QED
  BY <1>1, LInitInv, LNextInv, PTL DEF Spec

(***************************************************************************)
(* A function addresses no variable outside of the frame its header asks   *)
(* for (ijvm_assembler.cpp:77-97, 129-179).                                *)
(***************************************************************************)
THEOREM SlotsLieInFrames == Spec => []SlotsInFrame
<1>1. ASSUME LInv
      PROVE  SlotsInFrame
  <2>1. SUFFICES ASSUME NEW i \in DOMAIN text, text[i].op = "function",
                        NEW j \in DOMAIN text, text[j].op \in VarOps,
                        text[i].fn = text[j].fn, text[i].name # "main", FitsHeader(text[i])
                 PROVE  text[j].slot < ReadBig(code, text[i].at) + ReadBig(code, text[i].at + 2)
    BY DEF SlotsInFrame, CallsTo
  <2>2. IInv /\ Frames
    BY <1>1 DEF LInv, History
  <2>3. /\ ReadBig(code, text[i].at) = text[i].value % WordBase
        /\ ReadBig(code, text[i].at + 2) = text[i].slot % WordBase
    <3>1. Intact(code, constant_order, text[i])
      BY <2>2 DEF IInv, AllGood, Good
    <3>2. QED
      BY <2>1, <3>1 DEF Intact, Truncated
  <2>4. text[j].slot < text[i].value + text[i].slot
    BY <2>1, <2>2 DEF Frames
  <2>5. /\ text[j].slot \in Nat /\ text[i].slot \in Nat /\ text[i].value \in Int
    BY <2>2, TextType
  <2>6. ASSUME NEW n \in Int, n < WordBase
        PROVE  n % WordBase >= n /\ n % WordBase \in Int
    <3>1. WordBase \in Nat /\ WordBase > 0
      BY WordBaseType
    <3>2. n % WordBase \in 0..(WordBase - 1)
      BY <3>1, Division
    <3>3. n >= 0 => n % WordBase = n
      BY <2>6, <3>1, SmallRemainder
    <3>4. QED
      BY <3>2, <3>3
  <2>7. /\ text[i].value % WordBase >= text[i].value /\ text[i].value % WordBase \in Int
        /\ text[i].slot % WordBase >= text[i].slot /\ text[i].slot % WordBase \in Int
    BY <2>1, <2>5, <2>6 DEF FitsHeader
  <2>8. QED
    BY <2>3, <2>4, <2>5, <2>7
<1>2. QED
  BY <1>1, LInitInv, LNextInv, PTL DEF Spec

=============================================================================
