------------------------- MODULE IjvmFrontendProofs -------------------------
(***************************************************************************)
(* Proofs about IjvmFrontend, for every set of binaries and every width of *)
(* a slot: what it emits is typed, emitted once, linkable and in place,    *)
(* and its walks implement the disassembly of module Disassembly.          *)
(***************************************************************************)
EXTENDS IjvmFrontend, ProofBasics

-----------------------------------------------------------------------------
(* Decoding.                                                               *)

LEMMA BinaryFacts ==
    ASSUME NEW b, IsBinary(b), NEW o \in Places(b)
    PROVE  /\ b.size \in Nat /\ o \in Nat /\ o < b.size
           /\ b.text[o] \in Instruction
           /\ b.text[o].op \in Opcodes /\ b.text[o].to \in Int /\ b.text[o].func \in Nat
           /\ b.text[o].narrow \in Slots /\ b.text[o].wide \in Slots
           /\ b.header[o] \in Header
<1>1. b.size \in Nat /\ o \in 0 .. b.size - 1
  BY DEF IsBinary, Places
<1>2. b.text[o] \in Instruction /\ b.header[o] \in Header
  BY <1>1 DEF IsBinary
<1>3. QED
  BY <1>1, <1>2 DEF Instruction

LEMMA OperandsInt ==
    ASSUME NEW o, NEW w
    PROVE  operands(o, w) \in Nat
<1>1. CASE w
  BY <1>1 DEF operands
<1>2. CASE ~ w
  BY <1>2 DEF operands
<1>3. QED
  BY <1>1, <1>2

(***************************************************************************)
(* Where the opcode behind the WIDEs lies.                                 *)
(***************************************************************************)
LEMMA OpcodeAt ==
    ASSUME NEW b, IsBinary(b), NEW o \in Places(b)
    PROVE  /\ opcode_at(b, o) \in o .. b.size
           /\ b.text[o].op # "WIDE" => opcode_at(b, o) = o
           /\ b.text[o].op = "WIDE" => opcode_at(b, o) # o
<1>1. b.size \in Nat /\ o \in Nat /\ o < b.size
  BY BinaryFacts
<1> DEFINE T == {p \in o .. b.size - 1 : b.text[p].op # "WIDE"}
<1>2. CASE T = {}
  <2>1. ~ \E p \in o .. b.size - 1 : b.text[p].op # "WIDE"
    BY <1>2
  <2>2. opcode_at(b, o) = b.size
    BY <2>1 DEF opcode_at
  <2>3. o \in o .. b.size - 1
    BY <1>1
  <2>4. b.text[o].op = "WIDE"
    BY <2>1, <2>3
  <2>5. QED
    BY <1>1, <2>2, <2>4
<1>3. CASE T # {}
  <2>1. T \in SUBSET Nat
    BY <1>1
  <2>2. PICK m \in T : \A y \in T : m <= y
    BY <1>3, <2>1, LeastElement
  <2> DEFINE Is(p) == /\ b.text[p].op # "WIDE"
                      /\ \A q \in o .. p - 1 : b.text[q].op = "WIDE"
  <2>3. m \in o .. b.size - 1 /\ b.text[m].op # "WIDE"
    BY <2>2
  <2>4. ASSUME NEW q \in o .. m - 1
        PROVE  b.text[q].op = "WIDE"
    <3>1. q \in o .. b.size - 1 /\ ~ (m <= q)
      BY <1>1, <2>3
    <3>2. QED
      BY <2>2, <3>1
  <2>5. Is(m)
    BY <2>3, <2>4
  <2>6. \E p \in o .. b.size - 1 : b.text[p].op # "WIDE"
    BY <2>3
  <2>7. opcode_at(b, o) = CHOOSE p \in o .. b.size - 1 : Is(p)
    BY <2>6 DEF opcode_at
  <2>8. opcode_at(b, o) \in o .. b.size - 1 /\ Is(opcode_at(b, o))
    <3> HIDE DEF Is
    <3>1. QED
      BY <2>3, <2>5, <2>7
  <2>9. ASSUME b.text[o].op # "WIDE", opcode_at(b, o) # o
        PROVE  FALSE
    <3>1. o \in o .. opcode_at(b, o) - 1
      BY <1>1, <2>8, <2>9
    <3>2. QED
      BY <2>8, <2>9, <3>1
  <2>10. QED
    BY <1>1, <2>8, <2>9
<1>4. QED
  BY <1>2, <1>3

LEMMA FollowingInt ==
    ASSUME NEW b, IsBinary(b), NEW o \in Places(b)
    PROVE  following(b, o) \in Int
<1>1. opcode_at(b, o) \in Int
  BY OpcodeAt, BinaryFacts
<1> DEFINE p == opcode_at(b, o)
<1>2. operands(b.text[p].op, p > o) \in Nat
  BY OperandsInt
<1> HIDE DEF p
<1>3. p + 1 + operands(b.text[p].op, p > o) \in Int
  BY <1>1, <1>2 DEF p
<1>4. QED
  BY <1>3 DEF following, p

LEMMA PlainInstruction ==
    ASSUME NEW b, IsBinary(b), NEW o \in Places(b), b.text[o].op # "WIDE"
    PROVE  /\ opcode_at(b, o) = o
           /\ following(b, o) = o + 1 + operands(b.text[o].op, FALSE)
           /\ slot_at(b, o) = b.text[o].narrow
<1>1. opcode_at(b, o) = o /\ (o > o) = FALSE
  BY OpcodeAt, BinaryFacts
<1>2. QED
  BY <1>1 DEF following, slot_at

(***************************************************************************)
(* Where control goes from an instruction is what a walk goes on with: the *)
(* target it puts away and the instruction behind it.                      *)
(***************************************************************************)
LEMMA Onward ==
    ASSUME NEW b, IsBinary(b), NEW o \in Places(b), opcode_at(b, o) < b.size
    PROVE  /\ targets(b.text[opcode_at(b, o)]) \in Seq(Int)
           /\ successors(b, o) =
                ToSet(targets(b.text[opcode_at(b, o)])) \cup
                (IF ends_trail(b.text[opcode_at(b, o)].op) THEN {} ELSE {following(b, o)})
<1> DEFINE i == b.text[opcode_at(b, o)]
           n == following(b, o)
<1>1. i.op \in Opcodes /\ i.to \in Int
  <2>1. opcode_at(b, o) \in Places(b)
    BY OpcodeAt, BinaryFacts DEF Places
  <2>2. QED
    BY <2>1, BinaryFacts
<1>2. successors(b, o) = CASE is_final(i.op)    -> {}
                           [] i.op = "GOTO"     -> {i.to}
                           [] i.op \in Branches -> {i.to, n}
                           [] OTHER             -> {n}
  BY DEF successors
<1> HIDE DEF i, n
<1>3. ToSet(<< >>) = {} /\ ToSet(<<i.to>>) = {i.to}
  BY DEF ToSet
<1>4. targets(i) = IF i.op \in JumpOps THEN <<i.to>> ELSE << >>
  BY DEF targets, has_jmp_arg
<1>5. targets(i) \in Seq(Int)
  BY <1>1, <1>4
<1>6. CASE is_final(i.op)
  <2>1. i.op \notin JumpOps /\ ends_trail(i.op) /\ i.op # "GOTO" /\ i.op \notin Branches
    BY <1>6 DEF is_final, Finals, JumpOps, Branches, ends_trail
  <2>2. successors(b, o) = {}
    BY <1>2, <1>6, <2>1
  <2>3. QED
    BY <1>3, <1>4, <1>5, <2>1, <2>2 DEF i, n
<1>7. CASE i.op = "GOTO"
  <2>1. i.op \in JumpOps /\ ends_trail(i.op) /\ ~ is_final(i.op) /\ i.op \notin Branches
    BY <1>7 DEF is_final, Finals, JumpOps, Branches, ends_trail
  <2>2. successors(b, o) = {i.to}
    BY <1>2, <1>7, <2>1
  <2>3. QED
    BY <1>3, <1>4, <1>5, <2>1, <2>2 DEF i, n
<1>8. CASE i.op \in Branches
  <2>1. i.op \in JumpOps /\ ~ ends_trail(i.op) /\ ~ is_final(i.op) /\ i.op # "GOTO"
    BY <1>8 DEF is_final, Finals, JumpOps, Branches, ends_trail
  <2>2. successors(b, o) = {i.to, n}
    BY <1>2, <1>8, <2>1
  <2>3. QED
    BY <1>3, <1>4, <1>5, <2>1, <2>2 DEF i, n
<1>9. CASE ~ is_final(i.op) /\ i.op # "GOTO" /\ i.op \notin Branches
  <2>1. i.op \notin JumpOps /\ ~ ends_trail(i.op)
    BY <1>9 DEF JumpOps, ends_trail
  <2>2. successors(b, o) = {n}
    BY <1>2, <1>9
  <2>3. QED
    BY <1>3, <1>4, <1>5, <2>1, <2>2 DEF i, n
<1>10. QED
  BY <1>6, <1>7, <1>8, <1>9

-----------------------------------------------------------------------------
(* What control can reach.                                                 *)

\* T contains the entry of f and wherever control goes from the text in T.
Flows(b, f, T) ==
    /\ entry(f) \in T
    /\ \A o \in T \cap Places(b) : opcode_at(b, o) < b.size => successors(b, o) \subseteq T

\* What lies in every such set.
Reached(b, f) == {o \in Int : \A T \in SUBSET Int : Flows(b, f, T) => o \in T}

LEMMA ReachedLeast ==
    ASSUME NEW b, NEW f, NEW T \in SUBSET Int, Flows(b, f, T)
    PROVE  Reached(b, f) \subseteq T
BY DEF Reached

LEMMA SuccessorsInt ==
    ASSUME NEW b, IsBinary(b), NEW o \in Places(b), opcode_at(b, o) < b.size
    PROVE  successors(b, o) \subseteq Int
<1> DEFINE ts == targets(b.text[opcode_at(b, o)])
<1>1. ts \in Seq(Int)
  BY Onward
<1>2. ToSet(ts) \subseteq Int
  BY <1>1 DEF ToSet
<1>3. following(b, o) \in Int
  BY FollowingInt
<1> HIDE DEF ts
<1>4. successors(b, o) = ToSet(ts) \cup
        (IF ends_trail(b.text[opcode_at(b, o)].op) THEN {} ELSE {following(b, o)})
  BY Onward DEF ts
<1>5. QED
  BY <1>2, <1>3, <1>4

LEMMA ReachedOnward ==
    ASSUME NEW b, IsBinary(b), NEW f, NEW o \in Reached(b, f), o \in Places(b),
           opcode_at(b, o) < b.size
    PROVE  successors(b, o) \subseteq Reached(b, f)
<1>1. successors(b, o) \subseteq Int
  BY SuccessorsInt
<1>2. ASSUME NEW T \in SUBSET Int, Flows(b, f, T)
      PROVE  successors(b, o) \subseteq T
  <2>1. o \in T
    BY <1>2 DEF Reached
  <2>2. QED
    BY <1>2, <2>1 DEF Flows
<1>3. QED
  BY <1>1, <1>2 DEF Reached

LEMMA ReachedEntry ==
    ASSUME NEW b, NEW f, entry(f) \in Int
    PROVE  entry(f) \in Reached(b, f)
BY DEF Reached, Flows

\* What an execution needs, Disassembly can have only if it is sound.
LEMMA ClosedFlows ==
    ASSUME NEW b, NEW f, NEW T, ClosedUnderFlow(b, f, T)
    PROVE  T \in SUBSET Places(b) /\ Flows(b, f, T)
<1>1. T \in SUBSET Places(b)
  BY DEF ClosedUnderFlow, Sound
<1>2. QED
  BY <1>1 DEF ClosedUnderFlow, Flows

LEMMA ReachedIsNeeded ==
    ASSUME NEW b, IsBinary(b), NEW f, NEW o \in Reached(b, f), ~ Sound(b, f, o)
    PROVE  ~ Translatable(b, f)
<1>1. ASSUME NEW S \in SUBSET {p \in Places(b) : Sound(b, f, p)}, ClosedUnderFlow(b, f, S)
      PROVE  FALSE
  <2>1. S \in SUBSET Int /\ Flows(b, f, S)
    <3>1. S \in SUBSET Places(b) /\ Flows(b, f, S)
      BY <1>1, ClosedFlows
    <3>2. Places(b) \subseteq Int
      BY DEF Places
    <3>3. QED
      BY <3>1, <3>2
  <2>2. o \in S
    BY <2>1, ReachedLeast
  <2>3. QED
    BY <2>2
<1>2. QED
  BY <1>1 DEF Translatable

LEMMA ReachedCovers ==
    ASSUME NEW b, IsBinary(b), NEW f, HasHeader(b, f), entry(f) \in Int,
           \A o \in Reached(b, f) : Sound(b, f, o)
    PROVE  Covers(b, f, Reached(b, f))
<1> DEFINE R == Reached(b, f)
<1>1. ASSUME NEW o \in R
      PROVE  successors(b, o) \subseteq R
  <2>1. o \in Places(b) /\ opcode_at(b, o) < b.size
    BY <1>1 DEF Sound
  <2>2. QED
    BY <2>1, ReachedOnward
<1>2. ClosedUnderFlow(b, f, R)
  BY <1>1, ReachedEntry DEF ClosedUnderFlow
<1>3. ASSUME NEW T \in SUBSET R, ClosedUnderFlow(b, f, T)
      PROVE  T = R
  <2>1. T \in SUBSET Places(b) /\ Flows(b, f, T)
    BY <1>3, ClosedFlows
  <2>2. T \in SUBSET Int
    BY <2>1 DEF Places
  <2>3. QED
    BY <2>1, <2>2, ReachedLeast
<1>4. QED
  BY <1>2, <1>3 DEF Covers

-----------------------------------------------------------------------------
(* A walk.                                                                 *)

\* What a walk has still to look at: t put away, and the reader at a.
Ahead(t, r, a) == ToSet(t) \cup (IF r THEN {a} ELSE {})

\* A walk that has read v and knows of w has missed nothing but what lies in
\* drop, and gone nowhere but where control can go.
Walk(b, f, drop, v, w) ==
    /\ entry(f) \in w \cup drop
    /\ v \subseteq w
    /\ w \subseteq Reached(b, f)
    /\ \A o \in v : opcode_at(b, o) < b.size /\ successors(b, o) \subseteq w \cup drop

LEMMA WalkBegins ==
    ASSUME NEW b, NEW f, entry(f) \in Int, NEW drop
    PROVE  Walk(b, f, drop, {}, {entry(f)})
BY ReachedEntry DEF Walk

LEMMA WalkDrops ==
    ASSUME NEW b, NEW f, NEW drop, NEW v, NEW w, NEW u, Walk(b, f, drop, v, w),
           v \subseteq u, u \subseteq w, w \subseteq u \cup drop
    PROVE  Walk(b, f, drop, v, u)
BY DEF Walk

LEMMA WalkReads ==
    ASSUME NEW b, IsBinary(b), NEW f, NEW drop, NEW v, NEW w, Walk(b, f, drop, v, w),
           NEW o \in w, o \in Places(b), opcode_at(b, o) < b.size
    PROVE  Walk(b, f, drop, v \cup {o}, w \cup successors(b, o))
<1>1. o \in Reached(b, f)
  BY DEF Walk
<1>2. successors(b, o) \subseteq Reached(b, f)
  BY <1>1, ReachedOnward
<1>3. QED
  BY <1>2 DEF Walk

LEMMA WalkEnds ==
    ASSUME NEW b, NEW f, NEW drop \in SUBSET Int, drop \cap Places(b) = {},
           NEW v \in SUBSET Places(b), Walk(b, f, drop, v, v)
    PROVE  Reached(b, f) \subseteq v \cup drop
<1>1. v \cup drop \in SUBSET Int
  BY DEF Places
<1>2. Flows(b, f, v \cup drop)
  BY DEF Flows, Walk
<1>3. QED
  BY <1>1, <1>2, ReachedLeast

LEMMA AheadSeek ==
    ASSUME NEW t \in Seq(Int), t # << >>, NEW a
    PROVE  Ahead(Front(t), TRUE, Last(t)) = Ahead(t, FALSE, a)
BY FrontLast DEF Ahead

LEMMA AheadEnds ==
    ASSUME NEW a
    PROVE  Ahead(<< >>, FALSE, a) = {}
BY DEF Ahead, ToSet

-----------------------------------------------------------------------------
(* Types.                                                                  *)

LEMMA CutOff ==
    ASSUME NEW n \in Int
    PROVE  /\ u16(n) \in Slots
           /\ n \in Slots => u16(n) = n
           /\ n = -1 => u16(n) = SlotBase - 1
           /\ n = SlotBase => u16(n) = 0
<1>1. SlotBase \in Nat \ {0}
  BY BinariesAssumption
<1>2. u16(n) \in Slots
  BY <1>1 DEF u16, Slots
<1>3. n \in Slots => u16(n) = n
  BY <1>1 DEF u16, Slots
<1>4. n = -1 => u16(n) = SlotBase - 1
  BY <1>1 DEF u16
<1>5. n = SlotBase => u16(n) = 0
  BY <1>1 DEF u16
<1>6. QED
  BY <1>2, <1>3, <1>4, <1>5

LEMMA SlotsAreNumbers == Slots \subseteq Nat
BY BinariesAssumption DEF Slots

\* Where the program is, as far as the types depend on it.
Underway ==
    /\ phase \in {"method", "wide"} => method.name \in {Main} \cup Nat
    /\ phase = "wide" => at \in Places(binary)

TypeInv == TypeOK /\ Underway

LEMMA LocalNameType ==
    ASSUME TypeOK, NEW slot \in Slots
    PROVE  /\ local_index(slot) \in Nat
           /\ local_name(slot) \in [kind : {"arg", "lvar", ""}, n : Nat]
<1>1. local_index(slot) \in Nat
  <2>1. slot \in Nat /\ slot - 1 \in Int
    BY SlotsAreNumbers
  <2>2. u16(slot - 1) \in Nat
    BY <2>1, CutOff, SlotsAreNumbers
  <2>3. QED
    BY <2>1, <2>2 DEF local_index
<1>2. method.args \in Nat
  BY SlotsAreNumbers DEF TypeOK
<1> DEFINE n == local_index(slot)
<1>3. local_name(slot) = IF n < method.args THEN [kind |-> "arg", n |-> n]
                                            ELSE [kind |-> "lvar", n |-> n - method.args]
  BY DEF local_name
<1> HIDE DEF n
<1>4. ~ (n < method.args) => n - method.args \in Nat
  BY <1>1, <1>2 DEF n
<1>5. local_name(slot) \in [kind : {"arg", "lvar", ""}, n : Nat]
  BY <1>1, <1>3, <1>4 DEF n
<1>6. QED
  BY <1>1, <1>5

LEMMA LabelTypes ==
    ASSUME NEW S \in SUBSET Int, NEW o \in S
    PROVE  /\ loc_04x(o) \in [offset : S, padded : BOOLEAN]
           /\ loc_x(o) \in [offset : S, padded : BOOLEAN]
BY DEF loc_04x, loc_x

LEMMA EmittedType ==
    ASSUME TypeOK, method.name \in {Main} \cup Nat, at \in Places(binary),
           NEW i \in Instruction
    PROVE  emitted(i) \in Emission
<1>1. at \in Nat /\ i.op \in Opcodes /\ i.to \in Int /\ i.func \in Nat /\ i.narrow \in Slots
  BY BinaryFacts DEF TypeOK, Instruction
<1> DEFINE l  == loc_04x(at)
           jm == IF i.op = "ICMPEQ" THEN loc_x(i.to) ELSE loc_04x(i.to)
           lc == IF has_var_arg(i.op) THEN local_name(i.narrow) ELSE NoName
<1>2. l \in [offset : Nat, padded : BOOLEAN]
  <2>1. Nat \in SUBSET Int
    OBVIOUS
  <2>2. QED
    BY <1>1, <2>1, LabelTypes
<1>3. jm \in [offset : Int, padded : BOOLEAN]
  BY <1>1, LabelTypes
<1>4. lc \in [kind : {"arg", "lvar", ""}, n : Nat]
  <2>1. NoName \in [kind : {"arg", "lvar", ""}, n : Nat]
    BY DEF NoName
  <2>2. local_name(i.narrow) \in [kind : {"arg", "lvar", ""}, n : Nat]
    BY <1>1, LocalNameType
  <2> HIDE DEF lc
  <2>3. lc = local_name(i.narrow) \/ lc = NoName
    BY DEF lc
  <2>4. QED
    BY <2>1, <2>2, <2>3
<1>5. emitted(i) = [fn |-> method.name, label |-> l, op |-> i.op, jump |-> jm,
                    func |-> i.func, slot |-> i.narrow, local |-> lc]
  BY DEF emitted
<1> HIDE DEF l, jm, lc
<1> DEFINE Name  == {Main} \cup Nat
           Label == [offset : Nat, padded : BOOLEAN]
           Goal  == [offset : Int, padded : BOOLEAN]
           Local == [kind : {"arg", "lvar", ""}, n : Nat]
<1>6. /\ method.name \in Name /\ l \in Label /\ i.op \in Opcodes /\ jm \in Goal
      /\ i.func \in Nat /\ i.narrow \in Slots /\ lc \in Local
  BY <1>1, <1>2, <1>3, <1>4
<1>7. Emission = [fn : Name, label : Label, op : Opcodes, jump : Goal, func : Nat,
                  slot : Slots, local : Local]
  BY DEF Emission
<1> HIDE DEF Name, Label, Goal, Local
<1>8. QED
  BY <1>5, <1>6, <1>7

LEMMA MarkedType ==
    ASSUME TypeOK, at \in Places(binary)
    PROVE  marked \subseteq Places(binary)
BY DEF marked, TypeOK

LEMMA MainEntry == entry(Main) = 0
BY DEF entry

LEMMA EntryInt ==
    ASSUME NEW f \in {Main} \cup Nat
    PROVE  entry(f) \in Int
BY DEF entry, HeaderSize

\* A pending jump target is an offset.
LEMMA FollowType ==
    ASSUME TypeOK, at \in Places(binary), opcode_at(binary, at) < binary.size,
           Follow(binary.text[opcode_at(binary, at)], following(binary, at))
    PROVE  /\ todo' \in Seq(Int) /\ visited' \subseteq Places(binary)
           /\ reading' \in BOOLEAN /\ at' \in Int
<1> DEFINE i == binary.text[opcode_at(binary, at)]
<1>1. IsBinary(binary) /\ todo \in Seq(Int)
  BY DEF TypeOK
<1>2. targets(i) \in Seq(Int)
  BY <1>1, Onward
<1>3. following(binary, at) \in Int
  BY <1>1, FollowingInt
<1> HIDE DEF i
<1>4. todo \o targets(i) \in Seq(Int)
  BY <1>1, <1>2
<1>5. visited' = marked /\ todo' = todo \o targets(i) /\ at' = following(binary, at)
      /\ reading' = (~ ends_trail(i.op))
  BY DEF Follow, i
<1>6. QED
  BY <1>3, <1>4, <1>5, MarkedType DEF ends_trail, is_final

LEMMA InitType == Init => TypeInv
<1> SUFFICES ASSUME Init PROVE TypeInv
  OBVIOUS
<1>1. IsBinary(binary)
  BY BinariesAssumption DEF Init
<1>2. 0 \in Slots /\ var_count \in 0 .. SlotBase
  BY BinariesAssumption DEF Slots, Init
<1>3. method \in [name : {-2, Main} \cup Nat, args : Slots, vars : Slots]
  BY <1>2 DEF Init, NoMethod
<1>4. todo \in Seq(Int) /\ funcs \in Seq(Nat) /\ out \in Seq(Emission)
  BY DEF Init
<1>5. phase = "count" /\ visited = {} /\ reading = FALSE /\ at = 0 /\ funcs_visited = {}
  BY DEF Init
<1>6. TypeOK
  <2>1. phase \in {"count", "method", "wide", "next"} \cup Final
    BY <1>5
  <2>2. visited \subseteq Places(binary) /\ at \in Int /\ funcs_visited \subseteq Nat
    BY <1>5
  <2>3. reading \in BOOLEAN
    BY <1>5, Zenon
  <2>4. QED
    BY <1>1, <1>2, <1>3, <1>4, <2>1, <2>2, <2>3 DEF TypeOK
<1>7. Underway
  BY <1>5 DEF Underway
<1>8. QED
  BY <1>6, <1>7 DEF TypeInv

\* What Begin leaves is typed if what it is given is.
LEMMA BeginType ==
    ASSUME TypeOK, NEW name \in {Main} \cup Nat, NEW args \in Slots, NEW count \in Slots,
           Begin(name, args, count), binary' = binary, var_count' = var_count,
           funcs' \in Seq(Nat), funcs_visited' \subseteq Nat, out' \in Seq(Emission)
    PROVE  TypeInv'
<1>1. /\ phase' = "method" /\ todo' = <<entry(name)>> /\ visited' = {}
      /\ reading' = FALSE /\ at' = entry(name)
      /\ method' = [name |-> name, args |-> args, vars |-> count]
  BY DEF Begin
<1>2. entry(name) \in Int
  BY EntryInt
<1>3. todo' \in Seq(Int) /\ at' \in Int /\ visited' \subseteq Places(binary')
  BY <1>1, <1>2
<1>4. reading' \in BOOLEAN
  BY <1>1, Zenon
<1>5. method' \in [name : {-2, Main} \cup Nat, args : Slots, vars : Slots]
      /\ method'.name = name
  BY <1>1
<1>6. IsBinary(binary') /\ var_count' \in 0 .. SlotBase
  BY DEF TypeOK
<1>7. phase' \in {"count", "method", "wide", "next"} \cup Final
  BY <1>1
<1>8. TypeOK'
  BY <1>3, <1>4, <1>5, <1>6, <1>7 DEF TypeOK
<1>9. Underway'
  BY <1>1, <1>5 DEF Underway
<1>10. QED
  BY <1>8, <1>9 DEF TypeInv

\* The phases in which a method is translated, or is no more.
LEMMA ThrowType ==
    ASSUME TypeInv, phase' \in {"thrown", "panicked"},
           UNCHANGED <<binary, trail, var_count, progress, out>>
    PROVE  TypeInv'
<1>1. TypeOK'
  BY DEF TypeInv, TypeOK, trail, progress, Final
<1>2. QED
  BY <1>1 DEF TypeInv, Underway

LEMMA TrailType ==
    ASSUME TypeInv, Seek \/ Meet \/ CountEnd
    PROVE  TypeInv'
<1>1. /\ UNCHANGED <<binary, phase, visited, var_count, progress, out>>
      /\ TypeOK /\ Underway /\ phase \in {"count", "method"}
  BY DEF TypeInv, Seek, Meet, CountEnd
<1>2. at' \in Int /\ todo' \in Seq(Int) /\ reading' \in BOOLEAN
  <2>1. at \in Int /\ todo \in Seq(Int)
    BY <1>1 DEF TypeOK
  <2>2. CASE Seek
    <3>1. at' = Last(todo) /\ todo' = Front(todo) /\ reading' = TRUE /\ todo # << >>
      BY <2>2 DEF Seek
    <3>2. at' \in Int /\ todo' \in Seq(Int)
      BY <2>1, <3>1, FrontLast
    <3>3. reading' \in BOOLEAN
      BY <3>1, Zenon
    <3>4. QED
      BY <3>2, <3>3
  <2>3. CASE Meet \/ CountEnd
    <3>1. at' = at /\ todo' = todo /\ reading' = FALSE
      BY <2>3 DEF Meet, CountEnd
    <3>2. reading' \in BOOLEAN
      BY <3>1, Zenon
    <3>3. QED
      BY <2>1, <3>1, <3>2
  <2>4. QED
    BY <2>2, <2>3
<1>3. TypeOK'
  BY <1>1, <1>2 DEF TypeOK, progress
<1>4. Underway'
  BY <1>1 DEF Underway, progress
<1>5. QED
  BY <1>3, <1>4 DEF TypeInv

\* What is behind the WIDEs at `at` can be read.
LEMMA WhatIsRead ==
    ASSUME TypeOK, at \in Places(binary), opcode_at(binary, at) < binary.size
    PROVE  /\ opcode_at(binary, at) \in Places(binary)
           /\ slot_at(binary, at) \in Slots
<1>1. IsBinary(binary)
  BY DEF TypeOK
<1>2. opcode_at(binary, at) \in Places(binary)
  BY <1>1, OpcodeAt, BinaryFacts DEF Places
<1>3. QED
  BY <1>1, <1>2, BinaryFacts DEF slot_at

LEMMA CountReadType ==
    ASSUME TypeInv, CountRead
    PROVE  TypeInv'
<1> DEFINE p == opcode_at(binary, at)
           i == binary.text[p]
<1>1. TypeOK /\ Underway /\ at \in Places(binary) /\ phase = "count" /\ IsBinary(binary)
  BY DEF TypeInv, TypeOK, CountRead
<1>2. CASE p = binary.size \/ following(binary, at) > binary.size
  <2>1. Throw
    BY <1>2 DEF CountRead
  <2>2. QED
    BY <2>1, ThrowType DEF Throw
<1>3. CASE ~ (p = binary.size \/ following(binary, at) > binary.size)
  <2>1. /\ Follow(i, following(binary, at))
        /\ var_count' = IF has_var_arg(i.op) /\ slot_at(binary, at) >= var_count
                          THEN slot_at(binary, at) + 1 ELSE var_count
        /\ UNCHANGED <<binary, phase, progress, out>>
    BY <1>3 DEF CountRead
  <2>2. opcode_at(binary, at) < binary.size
    BY <1>1, <1>3, OpcodeAt, BinaryFacts
  <2>3. /\ todo' \in Seq(Int) /\ visited' \subseteq Places(binary)
        /\ reading' \in BOOLEAN /\ at' \in Int
    BY <1>1, <2>1, <2>2, FollowType
  <2>4. var_count' \in 0 .. SlotBase
    <3>1. slot_at(binary, at) \in 0 .. SlotBase - 1 /\ var_count \in 0 .. SlotBase
      BY <1>1, <2>2, WhatIsRead DEF Slots, TypeOK
    <3>2. SlotBase \in Nat
      BY BinariesAssumption
    <3>3. var_count' = slot_at(binary, at) + 1 \/ var_count' = var_count
      BY <2>1
    <3>4. QED
      BY <3>1, <3>2, <3>3
  <2>5. TypeOK'
    BY <1>1, <2>1, <2>3, <2>4 DEF TypeOK, progress
  <2>6. Underway'
    BY <1>1, <2>1 DEF Underway
  <2>7. QED
    BY <2>5, <2>6 DEF TypeInv
<1>4. QED
  BY <1>2, <1>3

LEMMA BeginMainType ==
    ASSUME TypeInv, BeginMain
    PROVE  TypeInv'
<1>1. TypeOK
  BY DEF TypeInv
<1>2. /\ Begin(Main, 0, u16(var_count))
      /\ binary' = binary /\ var_count' = var_count
      /\ funcs' = funcs /\ funcs_visited' = funcs_visited /\ out' = out
  BY DEF BeginMain
<1>3. 0 \in Slots /\ u16(var_count) \in Slots
  <2>1. var_count \in Int
    BY <1>1, BinariesAssumption DEF TypeOK
  <2>2. 0 \in Slots
    BY BinariesAssumption DEF Slots
  <2>3. QED
    BY <2>1, <2>2, CutOff
<1>4. funcs' \in Seq(Nat) /\ funcs_visited' \subseteq Nat /\ out' \in Seq(Emission)
  BY <1>1, <1>2 DEF TypeOK
<1>5. Main \in {Main} \cup Nat
  OBVIOUS
<1>6. QED
  BY <1>1, <1>2, <1>3, <1>4, <1>5, BeginType

LEMMA MethodReadType ==
    ASSUME TypeInv, MethodRead
    PROVE  TypeInv'
<1> DEFINE i == binary.text[at]
           n == at + 1 + operands(i.op, FALSE)
           wrong == \/ i.op = "INVALID" \/ n > binary.size
                    \/ has_var_arg(i.op) /\ ~ has_local(i.narrow)
<1>1. /\ TypeOK /\ Underway /\ at \in Places(binary) /\ phase = "method"
      /\ IsBinary(binary) /\ i.op # "WIDE"
  BY DEF TypeInv, TypeOK, MethodRead
<1>2. CASE wrong
  <2>1. Throw
    BY <1>2 DEF MethodRead
  <2>2. QED
    BY <2>1, ThrowType DEF Throw
<1>3. CASE ~ wrong
  <2>1. /\ Follow(i, n)
        /\ out' = Append(out, emitted(i))
        /\ funcs' = IF i.op = "INVOKEVIRTUAL" THEN Append(funcs, i.func) ELSE funcs
        /\ UNCHANGED <<binary, phase, var_count, method, funcs_visited>>
    BY <1>3 DEF MethodRead
  <2>2. opcode_at(binary, at) = at /\ following(binary, at) = n
    BY <1>1, PlainInstruction
  <2>3. opcode_at(binary, at) < binary.size
    BY <1>1, <2>2, BinaryFacts
  <2>4. /\ todo' \in Seq(Int) /\ visited' \subseteq Places(binary)
        /\ reading' \in BOOLEAN /\ at' \in Int
    BY <1>1, <2>1, <2>2, <2>3, FollowType
  <2>5. i \in Instruction /\ i.func \in Nat /\ method.name \in {Main} \cup Nat
    BY <1>1, BinaryFacts DEF Underway
  <2> HIDE DEF i, n
  <2>6. out' \in Seq(Emission)
    <3>1. emitted(i) \in Emission
      BY <1>1, <2>5, EmittedType
    <3>2. out \in Seq(Emission)
      BY <1>1 DEF TypeOK
    <3>3. QED
      BY <2>1, <3>1, <3>2
  <2>7. funcs' \in Seq(Nat)
    <3>1. funcs \in Seq(Nat)
      BY <1>1 DEF TypeOK
    <3>2. QED
      BY <2>1, <2>5, <3>1
  <2>8. TypeOK'
    BY <1>1, <2>1, <2>4, <2>6, <2>7 DEF TypeOK
  <2>9. Underway'
    BY <1>1, <2>1 DEF Underway
  <2>10. QED
    BY <2>8, <2>9 DEF TypeInv
<1>4. QED
  BY <1>2, <1>3

LEMMA MethodWideType ==
    ASSUME TypeInv, MethodWide
    PROVE  TypeInv'
<1>1. /\ phase' = "wide" /\ visited' = marked
      /\ out' = Append(out, emitted(binary.text[at]))
      /\ UNCHANGED <<binary, todo, reading, at, var_count, progress>>
      /\ phase \in {"method", "wide"}
  BY DEF MethodWide
<1>2. TypeOK /\ IsBinary(binary) /\ at \in Places(binary) /\ method.name \in {Main} \cup Nat
  BY <1>1 DEF TypeInv, TypeOK, Underway, MethodWide
<1>3. out' \in Seq(Emission)
  <2>1. emitted(binary.text[at]) \in Emission
    BY <1>2, BinaryFacts, EmittedType
  <2>2. out \in Seq(Emission)
    BY <1>2 DEF TypeOK
  <2>3. QED
    BY <1>1, <2>1, <2>2
<1>4. visited' \subseteq Places(binary)
  BY <1>1, <1>2, MarkedType
<1>5. TypeOK'
  BY <1>1, <1>2, <1>3, <1>4 DEF TypeOK, progress
<1>6. Underway'
  BY <1>1, <1>2 DEF Underway, progress
<1>7. QED
  BY <1>5, <1>6 DEF TypeInv

LEMMA BetweenType ==
    ASSUME TypeInv, EndMethod \/ SkipMethod \/ Finish
    PROVE  TypeInv'
<1>1. TypeOK /\ UNCHANGED <<binary, trail, var_count, funcs_visited, out>>
  BY DEF TypeInv, EndMethod, SkipMethod, Finish, progress
<1>2. phase' \in {"next", "done"}
  BY DEF EndMethod, SkipMethod, Finish
<1>3. method' \in [name : {-2, Main} \cup Nat, args : Slots, vars : Slots]
  <2>1. 0 \in Slots
    BY BinariesAssumption DEF Slots
  <2>2. NoMethod \in [name : {-2, Main} \cup Nat, args : Slots, vars : Slots]
    BY <2>1 DEF NoMethod
  <2>3. method' = NoMethod \/ method' = method
    BY DEF EndMethod, SkipMethod, Finish, progress
  <2>4. QED
    BY <1>1, <2>2, <2>3 DEF TypeOK
<1>4. funcs' \in Seq(Nat)
  <2>1. funcs \in Seq(Nat)
    BY <1>1 DEF TypeOK
  <2>2. funcs' = funcs \/ (funcs # << >> /\ funcs' = Front(funcs))
    BY DEF EndMethod, SkipMethod, Finish, progress
  <2>3. QED
    BY <2>1, <2>2, FrontLast
<1>5. TypeOK'
  BY <1>1, <1>2, <1>3, <1>4 DEF TypeOK, trail, Final
<1>6. QED
  BY <1>2, <1>5 DEF TypeInv, Underway

\* The header of a method is in front of its code.
LEMMA HeaderFacts ==
    ASSUME NEW b, IsBinary(b), NEW f \in Nat, f + HeaderSize <= b.size
    PROVE  /\ f \in Places(b)
           /\ b.header[f].args \in Slots /\ b.header[f].vars \in Slots
           /\ u16(b.header[f].args - 1) = b.header[f].args - 1
           /\ b.header[f].args - 1 \in Slots
           /\ b.header[f].args + b.header[f].vars < SlotBase
<1>1. b.size \in Nat
  BY DEF IsBinary
<1>2. f \in Places(b)
  BY <1>1 DEF HeaderSize, Places
<1>3. b.header[f] \in Header
  BY <1>2, BinaryFacts
<1>4. /\ b.header[f].args \in Slots /\ b.header[f].vars \in Slots /\ b.header[f].args >= 1
      /\ b.header[f].args + b.header[f].vars < SlotBase
  BY <1>3 DEF Header
<1>5. b.header[f].args - 1 \in Slots
  BY <1>4, BinariesAssumption DEF Slots
<1>6. b.header[f].args - 1 \in Int
  <2>1. b.header[f].args \in Nat
    BY <1>4, SlotsAreNumbers
  <2>2. QED
    BY <2>1
<1>7. QED
  BY <1>2, <1>4, <1>5, <1>6, CutOff

LEMMA BeginMethodType ==
    ASSUME TypeInv, BeginMethod
    PROVE  TypeInv'
<1> DEFINE f == Last(funcs)
<1>1. /\ TypeOK /\ IsBinary(binary) /\ funcs \in Seq(Nat) /\ funcs # << >>
      /\ funcs_visited \subseteq Nat
  BY DEF TypeInv, TypeOK, BeginMethod
<1>2. /\ funcs' = Front(funcs) /\ funcs_visited' = funcs_visited \cup {f}
      /\ binary' = binary /\ var_count' = var_count /\ out' = out
  BY DEF BeginMethod
<1>3. f \in Nat /\ funcs' \in Seq(Nat)
  BY <1>1, <1>2, FrontLast
<1>4. funcs_visited' \subseteq Nat /\ out' \in Seq(Emission)
  BY <1>1, <1>2, <1>3 DEF TypeOK
<1>5. CASE f + HeaderSize > binary.size
  <2>1. phase' = "thrown" /\ UNCHANGED <<trail, method>>
    BY <1>5 DEF BeginMethod
  <2>2. TypeOK'
    BY <1>1, <1>2, <1>3, <1>4, <2>1 DEF TypeOK, trail, Final
  <2>3. QED
    BY <2>1, <2>2 DEF TypeInv, Underway
<1>6. CASE ~ (f + HeaderSize > binary.size)
  <2>1. Begin(f, u16(binary.header[f].args - 1), binary.header[f].vars)
    BY <1>6 DEF BeginMethod
  <2> HIDE DEF f
  <2>2. f + HeaderSize <= binary.size
    <3>1. f + HeaderSize \in Int /\ binary.size \in Int
      BY <1>1, <1>3 DEF HeaderSize, IsBinary
    <3>2. QED
      BY <1>6, <3>1
  <2>3. u16(binary.header[f].args - 1) \in Slots /\ binary.header[f].vars \in Slots
    BY <1>1, <1>3, <2>2, HeaderFacts
  <2>4. f \in {Main} \cup Nat
    BY <1>3
  <2>5. QED
    BY <1>1, <1>2, <1>3, <1>4, <2>1, <2>3, <2>4, BeginType
<1>7. QED
  BY <1>5, <1>6

LEMMA NextType == TypeInv /\ [Next]_vars => TypeInv'
<1> SUFFICES ASSUME TypeInv, [Next]_vars PROVE TypeInv'
  OBVIOUS
<1>1. CASE Seek \/ Meet \/ CountEnd
  BY <1>1, TrailType
<1>2. CASE CountRead
  BY <1>2, CountReadType
<1>3. CASE BeginMain
  BY <1>3, BeginMainType
<1>4. CASE Trailing
  BY <1>4, ThrowType DEF Trailing
<1>5. CASE MethodRead
  BY <1>5, MethodReadType
<1>6. CASE MethodWide
  BY <1>6, MethodWideType
<1>7. CASE EndMethod \/ SkipMethod \/ Finish
  BY <1>7, BetweenType
<1>8. CASE BeginMethod
  BY <1>8, BeginMethodType
<1>9. CASE UNCHANGED vars
  BY <1>9 DEF TypeInv, TypeOK, Underway, vars, trail, progress
<1>10. QED
  BY <1>1, <1>2, <1>3, <1>4, <1>5, <1>6, <1>7, <1>8, <1>9
     DEF Next, Step, Count, Method, Call, Terminated

(***************************************************************************)
(* Every register of the front end is typed, the records it emits and its  *)
(* 16-bit counts included.                                                 *)
(***************************************************************************)
THEOREM TypeAlwaysOK == Spec => []TypeOK
<1>1. TypeInv => TypeOK
  BY DEF TypeInv
<1>2. QED
  BY InitType, NextType, <1>1, PTL DEF Spec

-----------------------------------------------------------------------------
(* The inductive invariant.                                                *)

\* Where the instructions that o has of method f lie.
OffsetsOf(o, f) == {o[k].label.offset : k \in {j \in DOMAIN o : o[j].fn = f}}

\* The functions that o calls outside of f.
CalledOutside(o, f) ==
    {o[k].func : k \in {j \in DOMAIN o : o[j].op = "INVOKEVIRTUAL" /\ o[j].fn # f}}

\* e tells the assembler what lies at its label.
Reads(b, e) ==
    LET i == b.text[e.label.offset]
    IN  /\ e.label.offset \in Places(b)
        /\ e.label = loc_04x(e.label.offset)
        /\ e.op = i.op
        /\ e.jump = (IF i.op = "ICMPEQ" THEN loc_x(i.to) ELSE loc_04x(i.to))
        /\ e.func = i.func
        /\ e.slot = i.narrow

Transcribed == \A k \in DOMAIN out : Reads(binary, out[k])

\* Who may have instructions; nobody has while main is walked to be counted.
Owners ==
    /\ phase = "count" =>
         out = << >> /\ funcs = << >> /\ funcs_visited = {} /\ method = NoMethod
    /\ phase = "next" => method = NoMethod
    /\ phase \in {"method", "wide"} => method.name \in {Main} \cup funcs_visited
    /\ \A k \in DOMAIN out : out[k].fn \in {Main} \cup funcs_visited

\* A variable that the instruction behind the WIDEs at o names.
Names(b, o) ==
    /\ opcode_at(b, o) < b.size
    /\ has_var_arg(b.text[opcode_at(b, o)].op)

\* The walk that counts the variables of main, and what it leaves.
Counting ==
    phase = "count" =>
        /\ Walk(binary, Main, Int \ Places(binary), visited,
                visited \cup Ahead(todo, reading, at))
        /\ \A o \in visited : Names(binary, o) => slot_at(binary, o) < var_count

Highest ==
    var_count # 0 =>
        \E o \in Reached(binary, Main) \cap Places(binary) :
            Names(binary, o) /\ slot_at(binary, o) = var_count - 1

Counted ==
    (phase = "method" /\ method.name = Main) =>
        \A o \in Reached(binary, Main) \cap Places(binary) :
            Names(binary, o) => slot_at(binary, o) < var_count

\* The walk that translates a method.
Translating ==
    phase = "method" =>
        /\ HasHeader(binary, method.name)
        /\ IF method.name = Main
             THEN method.args = 0 /\ method.vars = u16(var_count)
             ELSE /\ method.args = binary.header[method.name].args - 1
                  /\ method.vars = binary.header[method.name].vars
        /\ Walk(binary, method.name, {}, visited, visited \cup Ahead(todo, reading, at))
        /\ \A o \in visited : Sound(binary, method.name, o)
        /\ visited = OffsetsOf(out, method.name)
        /\ method.name \in {Main} \cup CalledOutside(out, method.name)

\* The methods that are through.
Covered == \A f \in Complete : Covers(binary, f, OffsetsOf(out, f))

\* What is called is waiting, or was met before.
Queue ==
    phase \in {"method", "next"} =>
        /\ {Main} \cup funcs_visited \subseteq Complete \cup {method.name}
        /\ ToSet(funcs) \subseteq CalledOutside(out, NoMethod.name)
        /\ CalledOutside(out, NoMethod.name) \subseteq ToSet(funcs) \cup funcs_visited

IInv ==
    /\ TypeInv /\ Transcribed /\ Owners
    /\ Counting /\ Highest /\ Counted /\ Translating
    /\ Covered /\ Queue

-----------------------------------------------------------------------------
(* What has been emitted.                                                  *)

FnsOf(o) == {o[k].fn : k \in DOMAIN o}

LEMMA AppendAt ==
    ASSUME NEW S, NEW o \in Seq(S), NEW e \in S
    PROVE  /\ DOMAIN Append(o, e) = DOMAIN o \cup {Len(o) + 1}
           /\ \A k \in DOMAIN o : k # Len(o) + 1 /\ Append(o, e)[k] = o[k]
           /\ Append(o, e)[Len(o) + 1] = e
OBVIOUS

LEMMA AppendOffsets ==
    ASSUME NEW S, NEW o \in Seq(S), NEW e \in S, NEW f
    PROVE  /\ e.fn = f => OffsetsOf(Append(o, e), f) = OffsetsOf(o, f) \cup {e.label.offset}
           /\ e.fn # f => OffsetsOf(Append(o, e), f) = OffsetsOf(o, f)
<1> DEFINE n == Len(o) + 1
           q == Append(o, e)
<1>1. /\ DOMAIN q = DOMAIN o \cup {n}
      /\ \A k \in DOMAIN o : k # n /\ q[k] = o[k]
      /\ q[n] = e
  BY AppendAt
<1> HIDE DEF n, q
<1>2. CASE e.fn = f
  <2>1. {j \in DOMAIN q : q[j].fn = f} = {j \in DOMAIN o : o[j].fn = f} \cup {n}
    BY <1>1, <1>2
  <2>2. OffsetsOf(q, f) = OffsetsOf(o, f) \cup {e.label.offset}
    BY <1>1, <2>1 DEF OffsetsOf
  <2>3. QED
    BY <1>2, <2>2 DEF q
<1>3. CASE e.fn # f
  <2>1. {j \in DOMAIN q : q[j].fn = f} = {j \in DOMAIN o : o[j].fn = f}
    BY <1>1, <1>3
  <2>2. OffsetsOf(q, f) = OffsetsOf(o, f)
    BY <1>1, <2>1 DEF OffsetsOf
  <2>3. QED
    BY <1>3, <2>2 DEF q
<1>4. QED
  BY <1>2, <1>3

LEMMA AppendCalled ==
    ASSUME NEW S, NEW o \in Seq(S), NEW e \in S, NEW f
    PROVE  /\ e.op = "INVOKEVIRTUAL" /\ e.fn # f =>
                CalledOutside(Append(o, e), f) = CalledOutside(o, f) \cup {e.func}
           /\ ~ (e.op = "INVOKEVIRTUAL" /\ e.fn # f) =>
                CalledOutside(Append(o, e), f) = CalledOutside(o, f)
<1> DEFINE n == Len(o) + 1
           q == Append(o, e)
           P(x) == x.op = "INVOKEVIRTUAL" /\ x.fn # f
<1>1. /\ DOMAIN q = DOMAIN o \cup {n}
      /\ \A k \in DOMAIN o : k # n /\ q[k] = o[k]
      /\ q[n] = e
  BY AppendAt
<1> HIDE DEF n, q
<1>2. CASE P(e)
  <2>1. {j \in DOMAIN q : P(q[j])} = {j \in DOMAIN o : P(o[j])} \cup {n}
    BY <1>1, <1>2
  <2>2. CalledOutside(q, f) = CalledOutside(o, f) \cup {e.func}
    BY <1>1, <2>1 DEF CalledOutside
  <2>3. QED
    BY <1>2, <2>2 DEF q
<1>3. CASE ~ P(e)
  <2>1. {j \in DOMAIN q : P(q[j])} = {j \in DOMAIN o : P(o[j])}
    BY <1>1, <1>3
  <2>2. CalledOutside(q, f) = CalledOutside(o, f)
    BY <1>1, <2>1 DEF CalledOutside
  <2>3. QED
    BY <1>3, <2>2 DEF q
<1>4. QED
  BY <1>2, <1>3

LEMMA AppendFns ==
    ASSUME NEW S, NEW o \in Seq(S), NEW e \in S
    PROVE  FnsOf(Append(o, e)) = FnsOf(o) \cup {e.fn}
<1> DEFINE n == Len(o) + 1
           q == Append(o, e)
<1>1. /\ DOMAIN q = DOMAIN o \cup {n}
      /\ \A k \in DOMAIN o : k # n /\ q[k] = o[k]
      /\ q[n] = e
  BY AppendAt
<1> HIDE DEF n, q
<1>2. FnsOf(q) = FnsOf(o) \cup {e.fn}
  BY <1>1 DEF FnsOf
<1>3. QED
  BY <1>2 DEF q

\* The fields of what is emitted at `at`.
LEMMA EmittedFields ==
    ASSUME TypeOK, at \in Places(binary), NEW i, i = binary.text[at]
    PROVE  /\ emitted(i).fn = method.name
           /\ emitted(i).label = loc_04x(at) /\ emitted(i).label.offset = at
           /\ emitted(i).op = i.op /\ emitted(i).func = i.func
           /\ Reads(binary, emitted(i))
<1>1. /\ emitted(i).fn = method.name
      /\ emitted(i).label = loc_04x(at)
      /\ emitted(i).op = i.op
      /\ emitted(i).jump = (IF i.op = "ICMPEQ" THEN loc_x(i.to) ELSE loc_04x(i.to))
      /\ emitted(i).func = i.func
      /\ emitted(i).slot = i.narrow
  BY DEF emitted
<1>2. emitted(i).label.offset = at
  BY <1>1 DEF loc_04x
<1> HIDE DEF emitted
<1>3. Reads(binary, emitted(i))
  BY <1>1, <1>2 DEF Reads
<1>4. QED
  BY <1>1, <1>2, <1>3

-----------------------------------------------------------------------------
(* The first state and the steps along a trail.                            *)

LEMMA InitInv == Init => IInv
<1> SUFFICES ASSUME Init PROVE IInv
  OBVIOUS
<1>1. TypeInv
  BY InitType
<1>2. /\ phase = "count" /\ out = << >> /\ funcs = << >> /\ funcs_visited = {}
      /\ method = NoMethod /\ visited = {} /\ todo = <<0>> /\ reading = FALSE
      /\ var_count = 0
  BY DEF Init
<1>3. DOMAIN out = {}
  BY <1>2
<1>4. Transcribed /\ Owners
  BY <1>2, <1>3 DEF Transcribed, Owners
<1>5. Counting
  <2>1. Ahead(todo, reading, at) = {entry(Main)}
    BY <1>2, MainEntry DEF Ahead, ToSet
  <2>2. visited \cup Ahead(todo, reading, at) = {entry(Main)}
    BY <1>2, <2>1
  <2>3. entry(Main) \in Int
    BY MainEntry
  <2>4. Walk(binary, Main, Int \ Places(binary), visited,
             visited \cup Ahead(todo, reading, at))
    BY <1>2, <2>2, <2>3, WalkBegins
  <2>5. QED
    BY <1>2, <2>4 DEF Counting
<1>6. Highest /\ Counted /\ Translating /\ Queue
  BY <1>2 DEF Highest, Counted, Translating, Queue
<1>7. Covered
  BY <1>3 DEF Covered, Complete
<1>8. QED
  BY <1>1, <1>4, <1>5, <1>6, <1>7 DEF IInv

\* What a turn of the trail without an instruction does to what is ahead.
LEMMA TrailTurns ==
    ASSUME TypeInv, Seek \/ Meet \/ CountEnd, NEW drop,
           CountEnd => Int \ Places(binary) \subseteq drop
    PROVE  LET w == visited \cup Ahead(todo, reading, at)
               u == visited \cup Ahead(todo', reading', at')
           IN  visited \subseteq u /\ u \subseteq w /\ w \subseteq u \cup drop
<1>1. todo \in Seq(Int) /\ at \in Int
  BY DEF TypeInv, TypeOK
<1>2. CASE Seek
  <2>1. at' = Last(todo) /\ todo' = Front(todo) /\ reading' = TRUE /\ ~ reading /\ todo # << >>
    BY <1>2 DEF Seek
  <2>2. ToSet(todo) = ToSet(Front(todo)) \cup {Last(todo)}
    BY <1>1, <2>1, FrontLast
  <2>3. Ahead(todo', reading', at') = ToSet(Front(todo)) \cup {Last(todo)}
    BY <2>1 DEF Ahead
  <2>4. Ahead(todo, reading, at) = ToSet(todo)
    BY <2>1 DEF Ahead
  <2>5. QED
    BY <2>2, <2>3, <2>4
<1>3. CASE Meet \/ CountEnd
  <2>1. at' = at /\ todo' = todo /\ reading' = FALSE /\ reading
    BY <1>3 DEF Meet, CountEnd
  <2>2. Ahead(todo', reading', at') = ToSet(todo)
    BY <2>1 DEF Ahead
  <2>3. Ahead(todo, reading, at) = ToSet(todo) \cup {at}
    BY <2>1 DEF Ahead
  <2>4. at \in visited \cup drop
    BY <1>1, <1>3 DEF Meet, CountEnd
  <2>5. QED
    BY <2>2, <2>3, <2>4
<1>4. QED
  BY <1>2, <1>3

LEMMA TrailInv ==
    ASSUME IInv, Seek \/ Meet \/ CountEnd
    PROVE  IInv'
<1>1. /\ UNCHANGED <<binary, phase, visited, var_count, progress, out>>
      /\ TypeInv /\ (CountEnd => phase = "count")
  BY DEF IInv, Seek, Meet, CountEnd
<1>2. TypeInv'
  BY <1>1, TrailType
<1>3. Transcribed' /\ Owners' /\ Highest' /\ Counted' /\ Covered' /\ Queue'
  BY <1>1 DEF IInv, Transcribed, Owners, Highest, Counted, Covered, Queue, Complete, progress
<1> DEFINE w == visited \cup Ahead(todo, reading, at)
           u == visited \cup Ahead(todo', reading', at')
           out_of == Int \ Places(binary)
<1>4. Counting'
  <2> SUFFICES ASSUME phase = "count"
               PROVE  Walk(binary, Main, out_of, visited, u)
    BY <1>1 DEF Counting, IInv
  <2>1. Walk(binary, Main, out_of, visited, w)
    BY DEF IInv, Counting
  <2>2. visited \subseteq u /\ u \subseteq w /\ w \subseteq u \cup out_of
    BY <1>1, TrailTurns
  <2> HIDE DEF w, u, out_of
  <2>3. QED
    BY <2>1, <2>2, WalkDrops
<1>5. Translating'
  <2> SUFFICES ASSUME phase = "method"
               PROVE  Walk(binary, method.name, {}, visited, u)
    BY <1>1 DEF Translating, IInv, progress
  <2>1. Walk(binary, method.name, {}, visited, w)
    BY DEF IInv, Translating
  <2>2. visited \subseteq u /\ u \subseteq w /\ w \subseteq u \cup {}
    BY <1>1, TrailTurns
  <2> HIDE DEF w, u
  <2>3. QED
    BY <2>1, <2>2, WalkDrops
<1>6. QED
  BY <1>2, <1>3, <1>4, <1>5 DEF IInv

\* A step into an end, or one that changes nothing.
LEMMA ThrowInv ==
    ASSUME IInv, phase' \in {"thrown", "panicked"},
           UNCHANGED <<binary, trail, var_count, progress, out>>
    PROVE  IInv'
<1>1. TypeInv'
  BY ThrowType DEF IInv
<1>2. QED
  BY <1>1 DEF IInv, Transcribed, Owners, Counting, Highest, Counted, Translating, Covered,
              Queue, Complete, progress

LEMMA StutterInv ==
    ASSUME IInv, UNCHANGED vars
    PROVE  IInv'
<1>1. TypeInv'
  BY DEF IInv, TypeInv, TypeOK, Underway, vars, trail, progress
<1>2. Transcribed' /\ Owners' /\ Highest' /\ Counted' /\ Covered' /\ Queue'
  BY DEF IInv, Transcribed, Owners, Highest, Counted, Covered, Queue, Complete, progress, vars
<1>3. Counting' /\ Translating'
  BY DEF IInv, Counting, Translating, vars, trail, progress
<1>4. QED
  BY <1>1, <1>2, <1>3 DEF IInv

-----------------------------------------------------------------------------
(* Counting the variables of main.                                         *)

\* A walk whose reader follows the instruction at `at`.
LEMMA FollowWalk ==
    ASSUME TypeOK, reading, at \in Places(binary), opcode_at(binary, at) < binary.size,
           Follow(binary.text[opcode_at(binary, at)], following(binary, at)),
           NEW f, NEW drop,
           Walk(binary, f, drop, visited, visited \cup Ahead(todo, reading, at))
    PROVE  Walk(binary, f, drop, visited', visited' \cup Ahead(todo', reading', at'))
<1> DEFINE i == binary.text[opcode_at(binary, at)]
           n == following(binary, at)
           w == visited \cup Ahead(todo, reading, at)
<1>1. IsBinary(binary) /\ todo \in Seq(Int)
  BY DEF TypeOK
<1>2. /\ visited' = visited \cup {at} /\ todo' = todo \o targets(i)
      /\ at' = n /\ reading' = (~ ends_trail(i.op))
  BY DEF Follow, marked
<1>3. Ahead(todo, reading, at) = Ahead(todo, TRUE, at)
  BY DEF Ahead
<1>4. (visited \cup {at}) \cup Ahead(todo \o targets(i), ~ ends_trail(i.op), n)
        = (visited \cup Ahead(todo, TRUE, at)) \cup successors(binary, at)
  <2>1. /\ targets(i) \in Seq(Int)
        /\ successors(binary, at) =
             ToSet(targets(i)) \cup (IF ends_trail(i.op) THEN {} ELSE {n})
    BY <1>1, Onward
  <2> HIDE DEF i, n
  <2>2. ToSet(todo \o targets(i)) = ToSet(todo) \cup ToSet(targets(i))
    BY <1>1, <2>1, ToSetConcat
  <2>3. CASE ends_trail(i.op)
    <3>1. successors(binary, at) = ToSet(targets(i))
      BY <2>1, <2>3
    <3>2. Ahead(todo \o targets(i), ~ ends_trail(i.op), n) =
            ToSet(todo) \cup ToSet(targets(i))
      BY <2>2, <2>3 DEF Ahead
    <3>3. QED
      BY <3>1, <3>2 DEF Ahead
  <2>4. CASE ~ ends_trail(i.op)
    <3>1. successors(binary, at) = ToSet(targets(i)) \cup {n}
      BY <2>1, <2>4
    <3>2. Ahead(todo \o targets(i), ~ ends_trail(i.op), n) =
            ToSet(todo) \cup ToSet(targets(i)) \cup {n}
      BY <2>2, <2>4 DEF Ahead
    <3>3. QED
      BY <3>1, <3>2 DEF Ahead
  <2>5. QED
    BY <2>3, <2>4
<1>5. at \in w
  BY DEF Ahead
<1>6. Walk(binary, f, drop, visited \cup {at}, w \cup successors(binary, at))
  <2> HIDE DEF w
  <2>1. Walk(binary, f, drop, visited, w)
    BY DEF w
  <2>2. QED
    BY <1>1, <1>5, <2>1, WalkReads
<1>7. w \cup successors(binary, at)
        = (visited \cup {at}) \cup Ahead(todo \o targets(i), ~ ends_trail(i.op), n)
  BY <1>3, <1>4
<1> HIDE DEF i, n, w
<1>8. QED
  BY <1>2, <1>6, <1>7

LEMMA CountReadInv ==
    ASSUME IInv, CountRead
    PROVE  IInv'
<1> DEFINE p == opcode_at(binary, at)
           i == binary.text[p]
<1>1. /\ TypeInv /\ TypeOK /\ reading /\ at \in Places(binary) /\ phase = "count"
      /\ IsBinary(binary)
  BY DEF IInv, TypeInv, TypeOK, CountRead
<1>2. CASE p = binary.size \/ following(binary, at) > binary.size
  <2>1. Throw
    BY <1>2 DEF CountRead
  <2>2. QED
    BY <2>1, ThrowInv DEF Throw
<1>3. CASE ~ (p = binary.size \/ following(binary, at) > binary.size)
  <2>1. /\ Follow(i, following(binary, at))
        /\ var_count' = IF has_var_arg(i.op) /\ slot_at(binary, at) >= var_count
                          THEN slot_at(binary, at) + 1 ELSE var_count
        /\ UNCHANGED <<binary, phase, progress, out>>
    BY <1>3 DEF CountRead
  <2>2. p < binary.size
    BY <1>1, <1>3, OpcodeAt, BinaryFacts
  <2>3. TypeInv'
    BY <1>1, CountReadType
  <2>4. Transcribed' /\ Owners' /\ Covered' /\ Counted' /\ Translating' /\ Queue'
    BY <1>1, <2>1 DEF IInv, Transcribed, Owners, Covered, Complete, Counted, Translating,
                      Queue, progress
  <2>5. Walk(binary, Main, Int \ Places(binary), visited, visited \cup Ahead(todo, reading, at))
    BY <1>1 DEF IInv, Counting
  <2>6. slot_at(binary, at) \in Nat /\ var_count \in Int
    <3>1. slot_at(binary, at) \in Nat
      BY <1>1, <2>2, WhatIsRead, SlotsAreNumbers
    <3>2. SlotBase \in Int /\ var_count \in 0 .. SlotBase
      BY <1>1, BinariesAssumption DEF TypeOK
    <3>3. QED
      BY <3>1, <3>2
  <2>7. at \in Reached(binary, Main) \cap Places(binary)
    BY <1>1, <2>5 DEF Walk, Ahead
  <2>8. visited' = visited \cup {at}
    BY <2>1 DEF Follow, marked
  <2> HIDE DEF i
  <2>9. var_count' >= var_count /\ var_count' \in Int
    BY <2>1, <2>6
  <2>10. Names(binary, at) => slot_at(binary, at) < var_count'
    BY <2>1, <2>6 DEF Names, i
  <2>11. Counting'
    <3>1. Walk(binary, Main, Int \ Places(binary), visited',
               visited' \cup Ahead(todo', reading', at'))
      BY <1>1, <2>1, <2>2, <2>5, FollowWalk DEF i
    <3>2. ASSUME NEW o \in visited', Names(binary, o)
          PROVE  slot_at(binary, o) < var_count'
      <4>1. CASE o = at
        BY <2>10, <3>2, <4>1
      <4>2. CASE o # at
        <5>1. o \in visited /\ o \in Places(binary)
          BY <1>1, <2>8, <3>2, <4>2 DEF TypeOK
        <5>2. slot_at(binary, o) < var_count
          BY <1>1, <3>2, <5>1 DEF IInv, Counting
        <5>3. slot_at(binary, o) \in Nat
          <6>1. opcode_at(binary, o) \in Places(binary)
            BY <1>1, <3>2, <5>1, OpcodeAt, BinaryFacts DEF Names, Places
          <6>2. QED
            BY <1>1, <6>1, BinaryFacts, SlotsAreNumbers DEF slot_at
        <5>4. QED
          BY <2>6, <2>9, <5>2, <5>3
      <4>3. QED
        BY <4>1, <4>2
    <3>3. QED
      BY <2>1, <3>1, <3>2 DEF Counting
  <2>12. Highest'
    <3>1. CASE has_var_arg(i.op) /\ slot_at(binary, at) >= var_count
      <4>1. var_count' = slot_at(binary, at) + 1
        BY <2>1, <3>1
      <4>2. Names(binary, at)
        BY <2>2, <3>1 DEF Names, i
      <4>3. slot_at(binary, at) = var_count' - 1
        BY <2>6, <4>1
      <4>4. QED
        BY <2>1, <2>7, <4>2, <4>3 DEF Highest
    <3>2. CASE ~ (has_var_arg(i.op) /\ slot_at(binary, at) >= var_count)
      <4>1. var_count' = var_count
        BY <2>1, <3>2
      <4>2. QED
        BY <2>1, <4>1 DEF IInv, Highest
    <3>3. QED
      BY <3>1, <3>2
  <2>13. QED
    BY <2>3, <2>4, <2>11, <2>12 DEF IInv
<1>4. QED
  BY <1>2, <1>3

-----------------------------------------------------------------------------
(* Beginning a method.                                                     *)

\* What is ahead when a walk begins is the entry.
LEMMA BeginAhead ==
    ASSUME NEW name, NEW args, NEW count, Begin(name, args, count)
    PROVE  /\ visited' = {}
           /\ visited' \cup Ahead(todo', reading', at') = {entry(name)}
<1>1. /\ todo' = <<entry(name)>> /\ visited' = {} /\ reading' = FALSE
  BY DEF Begin
<1>2. Ahead(todo', reading', at') = {entry(name)}
  BY <1>1 DEF Ahead, ToSet
<1>3. QED
  BY <1>1, <1>2

\* Nothing has been emitted of a method that begins.
LEMMA NoOffsets ==
    ASSUME NEW o, NEW f, \A k \in DOMAIN o : o[k].fn # f
    PROVE  OffsetsOf(o, f) = {} /\ FnsOf(o) \ {f} = FnsOf(o)
BY DEF OffsetsOf, FnsOf

\* A walk of main that is over has met every variable of main.
LEMMA CountedAll ==
    ASSUME IInv, phase = "count", ~ reading, todo = << >>
    PROVE  \A o \in Reached(binary, Main) \cap Places(binary) :
               Names(binary, o) => slot_at(binary, o) < var_count
<1>1. Ahead(todo, reading, at) = {}
  BY AheadEnds DEF Ahead
<1>2. visited \cup Ahead(todo, reading, at) = visited
  BY <1>1
<1>3. Walk(binary, Main, Int \ Places(binary), visited, visited)
  BY <1>2 DEF IInv, Counting
<1>4. visited \in SUBSET Places(binary)
  BY DEF IInv, TypeInv, TypeOK
<1>5. Reached(binary, Main) \subseteq visited \cup (Int \ Places(binary))
  <2> DEFINE drop == Int \ Places(binary)
  <2>1. drop \in SUBSET Int /\ drop \cap Places(binary) = {}
    OBVIOUS
  <2> HIDE DEF drop
  <2>2. Reached(binary, Main) \subseteq visited \cup drop
    BY <1>3, <1>4, <2>1, WalkEnds DEF drop
  <2>3. QED
    BY <2>2 DEF drop
<1>6. QED
  BY <1>5 DEF IInv, Counting

LEMMA BeginMainInv ==
    ASSUME IInv, BeginMain
    PROVE  IInv'
<1>1. /\ Begin(Main, 0, u16(var_count))
      /\ UNCHANGED <<binary, var_count, funcs, funcs_visited, out>>
      /\ phase = "count" /\ ~ reading /\ todo = << >>
  BY DEF BeginMain
<1>2. /\ phase' = "method" /\ method' = [name |-> Main, args |-> 0, vars |-> u16(var_count)]
  BY <1>1 DEF Begin
<1>3. /\ method'.name = Main /\ method'.args = 0 /\ method'.vars = u16(var_count)
  BY <1>2
<1>4. TypeInv'
  BY BeginMainType DEF IInv
<1>5. out = << >> /\ funcs = << >> /\ funcs_visited = {} /\ DOMAIN out = {}
  BY <1>1 DEF IInv, Owners
<1>6. Transcribed' /\ Owners'
  BY <1>1, <1>2, <1>3, <1>5 DEF Transcribed, Owners
<1>7. Counting' /\ Highest'
  BY <1>1, <1>2 DEF IInv, Counting, Highest
<1>8. Counted'
  BY <1>1, <1>2, <1>3, CountedAll DEF Counted
<1>9. Translating'
  <2>1. visited' = {} /\ visited' \cup Ahead(todo', reading', at') = {entry(Main)}
    BY <1>1, BeginAhead
  <2>2. entry(Main) \in Int
    BY MainEntry
  <2>3. Walk(binary, Main, {}, visited', visited' \cup Ahead(todo', reading', at'))
    BY <2>1, <2>2, WalkBegins
  <2>4. OffsetsOf(out, Main) = {}
    BY <1>5, NoOffsets
  <2>5. HasHeader(binary, Main)
    BY DEF HasHeader
  <2>6. QED
    BY <1>1, <1>3, <2>1, <2>3, <2>4, <2>5 DEF Translating
<1>10. Covered'
  BY <1>1, <1>5 DEF Covered, Complete
<1>11. Queue'
  <2>1. CalledOutside(out, NoMethod.name) = {}
    BY <1>5 DEF CalledOutside
  <2>2. ToSet(funcs) = {}
    BY <1>5 DEF ToSet
  <2>3. QED
    BY <1>1, <1>3, <1>5, <2>1, <2>2 DEF Queue
<1>12. QED
  BY <1>4, <1>6, <1>7, <1>8, <1>9, <1>10, <1>11 DEF IInv

-----------------------------------------------------------------------------
(* Translating a method.                                                   *)

\* A method but main has the variables its header counts, bar the OBJREF.
LEMMA MethodLocals ==
    ASSUME IInv, phase = "method", method.name # Main, NEW slot \in Slots
    PROVE  /\ has_local(slot) <=> slot \in LocalSlots(binary, method.name)
           /\ has_local(slot) => local_index(slot) = slot - 1 /\ slot >= 1
           /\ method.args = binary.header[method.name].args - 1
           /\ method.args \in Nat
<1> DEFINE f == method.name
           a == binary.header[f].args
           v == binary.header[f].vars
<1>1. IsBinary(binary) /\ f \in Nat
  BY DEF IInv, TypeInv, TypeOK, Underway
<1>2. f + HeaderSize <= binary.size
  BY DEF IInv, Translating, HasHeader
<1>3. method.args = a - 1 /\ method.vars = v
  BY DEF IInv, Translating
<1>4. a \in Slots /\ v \in Slots /\ a - 1 \in Slots /\ a + v < SlotBase
  <2> HIDE DEF f
  <2>1. QED
    BY <1>1, <1>2, HeaderFacts
<1>5. LocalSlots(binary, f) = 1 .. a - 1 + v
  BY DEF LocalSlots
<1>6. local_index(slot) = u16(slot - 1)
  BY DEF local_index
<1>7. has_local(slot) <=> u16(slot - 1) < a - 1 + v
  BY <1>3, <1>6 DEF has_local
<1> HIDE DEF f, a, v
<1>8. a \in Nat /\ v \in Nat /\ slot \in Nat /\ slot < SlotBase /\ SlotBase \in Nat /\ a - 1 \in Nat
  BY <1>4, BinariesAssumption, SlotsAreNumbers DEF Slots
<1>9. CASE slot = 0
  <2>1. u16(slot - 1) = SlotBase - 1
    <3>1. slot - 1 = -1 /\ slot - 1 \in Int
      BY <1>9
    <3>2. QED
      BY <3>1, CutOff
  <2>2. ~ has_local(slot)
    BY <1>4, <1>7, <1>8, <2>1
  <2>3. slot \notin LocalSlots(binary, f)
    BY <1>5, <1>9
  <2>4. QED
    BY <1>3, <1>8, <2>2, <2>3 DEF f, a
<1>10. CASE slot # 0
  <2>1. slot - 1 \in Slots /\ slot - 1 \in Int /\ slot >= 1
    BY <1>8, <1>10 DEF Slots
  <2>2. u16(slot - 1) = slot - 1
    BY <2>1, CutOff
  <2>3. has_local(slot) <=> slot - 1 < a - 1 + v
    BY <1>7, <2>2
  <2>4. (slot - 1 < a - 1 + v) <=> slot \in 1 .. a - 1 + v
    BY <1>8, <2>1
  <2>5. QED
    BY <1>3, <1>5, <1>6, <1>8, <2>1, <2>2, <2>3, <2>4 DEF f, a
<1>11. QED
  BY <1>9, <1>10

\* main has the variables it was found to have, as many as a u16 counts.
LEMMA MainLocals ==
    ASSUME IInv, phase = "method", method.name = Main, NEW slot \in Slots
    PROVE  /\ has_local(slot) <=> slot < u16(var_count)
           /\ has_local(slot) => slot \in LocalSlots(binary, Main)
           /\ local_index(slot) = slot /\ method.args = 0
<1>1. method.args = 0 /\ method.vars = u16(var_count)
  BY DEF IInv, Translating
<1>2. local_index(slot) = slot
  BY DEF local_index
<1>3. u16(var_count) \in Slots
  <2>1. var_count \in Int
    BY BinariesAssumption DEF IInv, TypeInv, TypeOK
  <2>2. QED
    BY <2>1, CutOff
<1>4. u16(var_count) \in Nat /\ slot \in Nat
  BY <1>3, SlotsAreNumbers
<1>5. has_local(slot) <=> slot < 0 + u16(var_count)
  BY <1>1, <1>2 DEF has_local
<1>6. has_local(slot) <=> slot < u16(var_count)
  BY <1>4, <1>5
<1>7. slot < u16(var_count) => slot \in 0 .. SlotBase - 2
  BY <1>3, <1>4, BinariesAssumption DEF Slots
<1>8. QED
  BY <1>1, <1>2, <1>6, <1>7 DEF LocalSlots

\* What is translated is sound.
LEMMA ReadIsSound ==
    ASSUME IInv, phase = "method", at \in Places(binary),
           NEW i, i = binary.text[at], i.op \notin {"WIDE", "INVALID"},
           at + 1 + operands(i.op, FALSE) <= binary.size,
           has_var_arg(i.op) => has_local(i.narrow)
    PROVE  Sound(binary, method.name, at)
<1>1. IsBinary(binary)
  BY DEF IInv, TypeInv, TypeOK
<1>2. /\ opcode_at(binary, at) = at
      /\ following(binary, at) = at + 1 + operands(i.op, FALSE)
      /\ slot_at(binary, at) = i.narrow
  BY <1>1, PlainInstruction
<1>3. at < binary.size /\ i.narrow \in Slots
  BY <1>1, BinaryFacts
<1>4. has_var_arg(i.op) => i.narrow \in LocalSlots(binary, method.name)
  <2>1. CASE method.name = Main
    BY <1>3, <2>1, MainLocals
  <2>2. CASE method.name # Main
    BY <1>3, <2>2, MethodLocals
  <2>3. QED
    BY <2>1, <2>2
<1>5. QED
  BY <1>2, <1>3, <1>4 DEF Sound

\* What an instruction that is translated adds to what has been emitted.
LEMMA EmittedAdds ==
    ASSUME TypeOK, method.name \in {Main} \cup Nat, at \in Places(binary),
           NEW i, i = binary.text[at]
    PROVE  LET o == Append(out, emitted(i))
           IN  /\ FnsOf(o) = FnsOf(out) \cup {method.name}
               /\ OffsetsOf(o, method.name) = OffsetsOf(out, method.name) \cup {at}
               /\ \A f : f # method.name => OffsetsOf(o, f) = OffsetsOf(out, f)
               /\ CalledOutside(o, method.name) = CalledOutside(out, method.name)
               /\ i.op = "INVOKEVIRTUAL" =>
                    CalledOutside(o, NoMethod.name) = CalledOutside(out, NoMethod.name) \cup {i.func}
               /\ i.op # "INVOKEVIRTUAL" =>
                    CalledOutside(o, NoMethod.name) = CalledOutside(out, NoMethod.name)
<1> DEFINE e == emitted(i)
<1>1. /\ e.fn = method.name /\ e.label.offset = at /\ e.op = i.op /\ e.func = i.func
  BY EmittedFields
<1>2. out \in Seq(Emission) /\ e \in Emission
  <2>1. i \in Instruction
    BY BinaryFacts DEF TypeOK
  <2>2. QED
    BY <2>1, EmittedType DEF TypeOK
<1>3. e.fn # NoMethod.name
  BY <1>1 DEF NoMethod, Main
<1> HIDE DEF e
<1>4. FnsOf(Append(out, e)) = FnsOf(out) \cup {method.name}
  BY <1>1, <1>2, AppendFns
<1>5. OffsetsOf(Append(out, e), method.name) = OffsetsOf(out, method.name) \cup {at}
  BY <1>1, <1>2, AppendOffsets
<1>6. \A f : f # method.name => OffsetsOf(Append(out, e), f) = OffsetsOf(out, f)
  BY <1>1, <1>2, AppendOffsets
<1>7. CalledOutside(Append(out, e), method.name) = CalledOutside(out, method.name)
  BY <1>1, <1>2, AppendCalled
<1>8. i.op = "INVOKEVIRTUAL" =>
        CalledOutside(Append(out, e), NoMethod.name) = CalledOutside(out, NoMethod.name) \cup {i.func}
  BY <1>1, <1>2, <1>3, AppendCalled
<1>9. i.op # "INVOKEVIRTUAL" =>
        CalledOutside(Append(out, e), NoMethod.name) = CalledOutside(out, NoMethod.name)
  BY <1>1, <1>2, <1>3, AppendCalled
<1>10. QED
  BY <1>4, <1>5, <1>6, <1>7, <1>8, <1>9 DEF e

\* What an instruction adds is no change to the methods that are through.
LEMMA EmittedKeeps ==
    ASSUME TypeOK, Transcribed, Owners, Covered,
           method.name \in {Main} \cup funcs_visited, at \in Places(binary),
           NEW i, i = binary.text[at],
           UNCHANGED <<binary, method, funcs_visited>>, out' = Append(out, emitted(i))
    PROVE  /\ Transcribed' /\ Covered' /\ Complete' = Complete
           /\ \A k \in DOMAIN out' : out'[k].fn \in {Main} \cup funcs_visited'
<1>1. method.name \in {Main} \cup Nat /\ out \in Seq(Emission)
  BY DEF TypeOK
<1> DEFINE e == emitted(i)
<1>2. e \in Emission /\ e.fn = method.name /\ Reads(binary, e)
  <2>1. i \in Instruction
    BY BinaryFacts DEF TypeOK
  <2>2. QED
    BY <1>1, <2>1, EmittedType, EmittedFields
<1>3. /\ FnsOf(out') = FnsOf(out) \cup {method.name}
      /\ \A f : f # method.name => OffsetsOf(out', f) = OffsetsOf(out, f)
  BY <1>1, EmittedAdds
<1> HIDE DEF e
<1>4. /\ DOMAIN out' = DOMAIN out \cup {Len(out) + 1}
      /\ \A k \in DOMAIN out : k # Len(out) + 1 /\ out'[k] = out[k]
      /\ out'[Len(out) + 1] = e
  <2>1. out' = Append(out, e)
    BY DEF e
  <2>2. QED
    BY <1>1, <1>2, <2>1, AppendAt
<1>5. Transcribed'
  BY <1>2, <1>4 DEF Transcribed
<1>6. \A k \in DOMAIN out' : out'[k].fn \in {Main} \cup funcs_visited'
  BY <1>2, <1>4 DEF Owners
<1>7. Complete' = Complete
  <2>1. Complete = FnsOf(out) \ {method.name} /\ Complete' = FnsOf(out') \ {method.name}
    BY DEF Complete, FnsOf
  <2>2. QED
    BY <1>3, <2>1
<1>8. Covered'
  <2>1. ASSUME NEW f \in Complete
        PROVE  Covers(binary, f, OffsetsOf(out', f))
    <3>1. f # method.name
      BY DEF Complete
    <3>2. QED
      BY <1>3, <3>1 DEF Covered
  <2>2. QED
    BY <1>7, <2>1 DEF Covered
<1>9. QED
  BY <1>5, <1>6, <1>7, <1>8

LEMMA MethodReadInv ==
    ASSUME IInv, MethodRead
    PROVE  IInv'
<1> DEFINE i == binary.text[at]
           n == at + 1 + operands(i.op, FALSE)
           wrong == \/ i.op = "INVALID" \/ n > binary.size
                    \/ has_var_arg(i.op) /\ ~ has_local(i.narrow)
<1>1. /\ TypeInv /\ TypeOK /\ reading /\ at \in Places(binary) \ visited /\ phase = "method"
      /\ IsBinary(binary) /\ i.op # "WIDE" /\ Transcribed /\ Owners /\ Covered /\ Queue
      /\ Translating
  BY DEF IInv, TypeInv, TypeOK, MethodRead
<1>2. CASE wrong
  <2>1. Throw
    BY <1>2 DEF MethodRead
  <2>2. QED
    BY <2>1, ThrowInv DEF Throw
<1>3. CASE ~ wrong
  <2>1. /\ Follow(i, n)
        /\ out' = Append(out, emitted(i))
        /\ funcs' = IF i.op = "INVOKEVIRTUAL" THEN Append(funcs, i.func) ELSE funcs
        /\ UNCHANGED <<binary, phase, var_count, method, funcs_visited>>
    BY <1>3 DEF MethodRead
  <2>2. TypeInv'
    BY <1>1, MethodReadType
  <2>3. opcode_at(binary, at) = at /\ following(binary, at) = n /\ at < binary.size
    BY <1>1, PlainInstruction, BinaryFacts
  <2>4. Sound(binary, method.name, at)
    <3>1. n \in Int /\ binary.size \in Int
      <4> DEFINE k == operands(i.op, FALSE)
      <4>1. k \in Nat
        BY OperandsInt
      <4>2. at \in Int /\ binary.size \in Int
        BY <1>1, BinaryFacts
      <4> HIDE DEF k
      <4>3. at + 1 + k \in Int
        BY <4>1, <4>2
      <4>4. QED
        BY <4>2, <4>3 DEF k
    <3>2. at + 1 + operands(i.op, FALSE) <= binary.size
      <4>1. ~ (n > binary.size)
        BY <1>3
      <4> HIDE DEF n
      <4>2. n <= binary.size
        BY <3>1, <4>1
      <4>3. QED
        BY <4>2 DEF n
    <3>3. has_var_arg(i.op) => has_local(i.narrow)
      BY <1>3
    <3>4. i.op \notin {"WIDE", "INVALID"} /\ i = binary.text[at]
      BY <1>1, <1>3
    <3> HIDE DEF i
    <3>5. QED
      BY <1>1, <3>2, <3>3, <3>4, ReadIsSound
  <2>5. method.name \in {Main} \cup funcs_visited /\ method.name \in {Main} \cup Nat
    BY <1>1 DEF Owners, TypeInv, Underway
  <2>6. i = binary.text[at]
    OBVIOUS
  <2>7. Follow(binary.text[opcode_at(binary, at)], following(binary, at))
    BY <2>1, <2>3
  <2> HIDE DEF i, n
  <2>8. /\ Transcribed' /\ Covered' /\ Complete' = Complete
        /\ \A k \in DOMAIN out' : out'[k].fn \in {Main} \cup funcs_visited'
    BY <1>1, <2>1, <2>5, <2>6, EmittedKeeps
  <2>9. /\ OffsetsOf(out', method.name) = OffsetsOf(out, method.name) \cup {at}
        /\ CalledOutside(out', method.name) = CalledOutside(out, method.name)
        /\ i.op = "INVOKEVIRTUAL" =>
             CalledOutside(out', NoMethod.name) = CalledOutside(out, NoMethod.name) \cup {i.func}
        /\ i.op # "INVOKEVIRTUAL" =>
             CalledOutside(out', NoMethod.name) = CalledOutside(out, NoMethod.name)
    BY <1>1, <2>1, <2>5, <2>6, EmittedAdds
  <2>10. Owners'
    BY <1>1, <2>1, <2>5, <2>8 DEF Owners
  <2>11. Counting' /\ Highest' /\ Counted'
    BY <1>1, <2>1 DEF IInv, Counting, Highest, Counted
  <2>12. Translating'
    <3>1. visited' = visited \cup {at}
      BY <2>1 DEF Follow, marked
    <3>2. Walk(binary, method.name, {}, visited', visited' \cup Ahead(todo', reading', at'))
      <4>1. Walk(binary, method.name, {}, visited, visited \cup Ahead(todo, reading, at))
        BY <1>1 DEF Translating
      <4>2. QED
        BY <1>1, <2>3, <2>7, <4>1, FollowWalk
    <3>3. \A o \in visited' : Sound(binary, method.name, o)
      BY <1>1, <2>4, <3>1 DEF Translating
    <3>4. visited' = OffsetsOf(out', method.name)
      BY <1>1, <2>9, <3>1 DEF Translating
    <3>5. QED
      BY <1>1, <2>1, <2>9, <3>2, <3>3, <3>4 DEF Translating
  <2>13. Queue'
    <3>1. funcs \in Seq(Nat) /\ i.func \in Nat
      BY <1>1, <2>6, BinaryFacts DEF TypeOK
    <3>2. /\ i.op = "INVOKEVIRTUAL" => ToSet(funcs') = ToSet(funcs) \cup {i.func}
          /\ i.op # "INVOKEVIRTUAL" => funcs' = funcs
      <4>1. <<i.func>> \in Seq(Nat) /\ ToSet(<<i.func>>) = {i.func}
        BY <3>1 DEF ToSet
      <4>2. Append(funcs, i.func) = funcs \o <<i.func>>
        BY <3>1
      <4>3. ToSet(funcs \o <<i.func>>) = ToSet(funcs) \cup {i.func}
        <5> DEFINE s == <<i.func>>
        <5>1. s \in Seq(Nat) /\ ToSet(s) = {i.func}
          BY <4>1
        <5> HIDE DEF s
        <5>2. ToSet(funcs \o s) = ToSet(funcs) \cup {i.func}
          BY <3>1, <5>1, ToSetConcat
        <5>3. QED
          BY <5>2 DEF s
      <4>4. QED
        BY <2>1, <4>2, <4>3
    <3>3. CASE i.op = "INVOKEVIRTUAL"
      BY <1>1, <2>1, <2>8, <2>9, <3>2, <3>3 DEF Queue
    <3>4. CASE i.op # "INVOKEVIRTUAL"
      BY <1>1, <2>1, <2>8, <2>9, <3>2, <3>4 DEF Queue
    <3>5. QED
      BY <3>3, <3>4
  <2>14. QED
    BY <2>2, <2>8, <2>10, <2>11, <2>12, <2>13 DEF IInv
<1>4. QED
  BY <1>2, <1>3

LEMMA MethodWideInv ==
    ASSUME IInv, MethodWide
    PROVE  IInv'
<1>1. /\ phase' = "wide" /\ out' = Append(out, emitted(binary.text[at]))
      /\ UNCHANGED <<binary, todo, reading, at, var_count, progress>>
      /\ phase \in {"method", "wide"} /\ (phase = "wide" \/ at \in Places(binary))
  BY DEF MethodWide
<1>2. /\ TypeInv /\ TypeOK /\ Transcribed /\ Owners /\ Covered /\ at \in Places(binary)
      /\ method.name \in {Main} \cup funcs_visited
  BY <1>1 DEF IInv, TypeInv, Underway, Owners
<1>3. TypeInv'
  BY <1>2, MethodWideType
<1>4. /\ Transcribed' /\ Covered'
      /\ \A k \in DOMAIN out' : out'[k].fn \in {Main} \cup funcs_visited'
  <2> DEFINE i == binary.text[at]
  <2>1. i = binary.text[at] /\ out' = Append(out, emitted(i))
        /\ UNCHANGED <<binary, method, funcs_visited>>
    BY <1>1 DEF progress
  <2> HIDE DEF i
  <2>2. QED
    BY <1>2, <2>1, EmittedKeeps
<1>5. Owners'
  BY <1>1, <1>2, <1>4 DEF Owners, progress
<1>6. Counting' /\ Highest' /\ Counted' /\ Translating' /\ Queue'
  BY <1>1 DEF IInv, Counting, Highest, Counted, Translating, Queue
<1>7. QED
  BY <1>3, <1>4, <1>5, <1>6 DEF IInv

-----------------------------------------------------------------------------
(* Between two methods.                                                    *)

\* Nobody but main and the methods met has instructions.
LEMMA OwnersNamed ==
    ASSUME TypeOK, Owners
    PROVE  /\ FnsOf(out) \subseteq {Main} \cup funcs_visited
           /\ {Main} \cup funcs_visited \subseteq {Main} \cup Nat
           /\ Complete = FnsOf(out) \ {method.name}
           /\ NoMethod.name \notin {Main} \cup Nat
           /\ NoMethod.name \notin FnsOf(out)
<1>1. FnsOf(out) \subseteq {Main} \cup funcs_visited
  BY DEF FnsOf, Owners
<1>2. {Main} \cup funcs_visited \subseteq {Main} \cup Nat
  BY DEF TypeOK
<1>3. Complete = FnsOf(out) \ {method.name}
  BY DEF Complete, FnsOf
<1>4. NoMethod.name \notin {Main} \cup Nat
  BY DEF NoMethod, Main
<1>5. QED
  BY <1>1, <1>2, <1>3, <1>4

\* A walk that is over has read exactly what control reaches.
LEMMA MethodThrough ==
    ASSUME IInv, phase = "method", ~ reading, todo = << >>
    PROVE  /\ Covers(binary, method.name, OffsetsOf(out, method.name))
           /\ method.name \in FnsOf(out)
           /\ method.name \in {Main} \cup Nat
<1> DEFINE f == method.name
<1>1. /\ IsBinary(binary) /\ visited \in SUBSET Places(binary) /\ f \in {Main} \cup Nat
  BY DEF IInv, TypeInv, TypeOK, Underway
<1>2. Ahead(todo, reading, at) = {}
  BY AheadEnds DEF Ahead
<1>3. visited \cup Ahead(todo, reading, at) = visited
  BY <1>2
<1>4. /\ HasHeader(binary, f) /\ Walk(binary, f, {}, visited, visited)
      /\ \A o \in visited : Sound(binary, f, o)
      /\ visited = OffsetsOf(out, f)
  BY <1>3 DEF IInv, Translating
<1> HIDE DEF f
<1>5. visited = Reached(binary, f)
  <2>1. Reached(binary, f) \subseteq visited \cup {}
    <3> DEFINE drop == {}
    <3>1. drop \in SUBSET Int /\ drop \cap Places(binary) = {}
          /\ Walk(binary, f, drop, visited, visited)
      BY <1>4
    <3> HIDE DEF drop
    <3>2. Reached(binary, f) \subseteq visited \cup drop
      BY <1>1, <3>1, WalkEnds
    <3>3. QED
      BY <3>2 DEF drop
  <2>2. QED
    BY <1>4, <2>1 DEF Walk
<1>6. entry(f) \in Int
  BY <1>1, EntryInt
<1>7. Covers(binary, f, Reached(binary, f))
  BY <1>1, <1>4, <1>5, <1>6, ReachedCovers
<1>8. f \in FnsOf(out)
  <2>1. entry(f) \in OffsetsOf(out, f)
    BY <1>4, <1>5, <1>6, ReachedEntry
  <2>2. QED
    BY <2>1 DEF OffsetsOf, FnsOf
<1>9. QED
  BY <1>1, <1>4, <1>5, <1>7, <1>8 DEF f

LEMMA EndMethodInv ==
    ASSUME IInv, EndMethod
    PROVE  IInv' /\ Complete' = Complete \cup {method.name}
<1>1. /\ phase = "method" /\ ~ reading /\ todo = << >> /\ phase' = "next"
      /\ method' = NoMethod
      /\ UNCHANGED <<binary, trail, var_count, funcs, funcs_visited, out>>
  BY DEF EndMethod
<1>2. TypeInv'
  BY BetweenType DEF IInv
<1>3. /\ Covers(binary, method.name, OffsetsOf(out, method.name))
      /\ method.name \in FnsOf(out)
  BY <1>1, MethodThrough
<1>4. Complete' = Complete \cup {method.name}
  <2>1. Complete = FnsOf(out) \ {method.name} /\ NoMethod.name \notin FnsOf(out)
    BY OwnersNamed DEF IInv, TypeInv
  <2>2. Complete' = FnsOf(out) \ {NoMethod.name}
    BY <1>1 DEF Complete, FnsOf
  <2>3. QED
    BY <1>3, <2>1, <2>2
<1>5. Transcribed' /\ Owners'
  BY <1>1 DEF IInv, Transcribed, Owners
<1>6. Counting' /\ Highest' /\ Counted' /\ Translating'
  BY <1>1 DEF IInv, Counting, Highest, Counted, Translating
<1>7. Covered'
  BY <1>1, <1>3, <1>4 DEF IInv, Covered
<1>8. Queue'
  BY <1>1, <1>4 DEF IInv, Queue
<1>9. QED
  BY <1>2, <1>4, <1>5, <1>6, <1>7, <1>8 DEF IInv

LEMMA SkipMethodInv ==
    ASSUME IInv, SkipMethod
    PROVE  IInv' /\ Complete' = Complete
<1>1. /\ phase = "next" /\ funcs # << >> /\ Last(funcs) \in funcs_visited
      /\ funcs' = Front(funcs)
      /\ UNCHANGED <<binary, phase, trail, var_count, method, funcs_visited, out>>
  BY DEF SkipMethod
<1>2. TypeInv'
  BY BetweenType DEF IInv
<1>3. Transcribed' /\ Owners' /\ Highest' /\ Covered' /\ Complete' = Complete
  BY <1>1 DEF IInv, Transcribed, Owners, Highest, Covered, Complete
<1>4. Counting' /\ Counted' /\ Translating'
  BY <1>1 DEF Counting, Counted, Translating
<1>5. Queue'
  <2>1. ToSet(funcs) = ToSet(funcs') \cup {Last(funcs)}
    BY <1>1, FrontLast DEF IInv, TypeInv, TypeOK
  <2>2. QED
    BY <1>1, <1>3, <2>1 DEF IInv, Queue
<1>6. QED
  BY <1>2, <1>3, <1>4, <1>5 DEF IInv

LEMMA FinishInv ==
    ASSUME IInv, Finish
    PROVE  IInv' /\ Complete' = Complete
<1>1. /\ phase' = "done" /\ UNCHANGED <<binary, trail, var_count, progress, out>>
  BY DEF Finish
<1>2. TypeInv'
  BY BetweenType DEF IInv
<1>3. QED
  BY <1>1, <1>2 DEF IInv, Transcribed, Owners, Counting, Highest, Counted, Translating, Covered,
                    Queue, Complete, progress

\* A method that begins is new.
LEMMA BeginsNew ==
    ASSUME IInv, BeginMethod
    PROVE  /\ Last(funcs) \in Nat
           /\ ToSet(funcs) = ToSet(Front(funcs)) \cup {Last(funcs)}
           /\ Last(funcs) \notin FnsOf(out)
           /\ Complete = FnsOf(out) /\ method = NoMethod
           /\ Last(funcs) \in CalledOutside(out, NoMethod.name)
<1>1. /\ phase = "next" /\ funcs # << >> /\ Last(funcs) \notin funcs_visited
      /\ funcs \in Seq(Nat) /\ TypeOK /\ Owners /\ Queue /\ method = NoMethod
  BY DEF BeginMethod, IInv, TypeInv, TypeOK, Owners
<1>2. Last(funcs) \in Nat /\ ToSet(funcs) = ToSet(Front(funcs)) \cup {Last(funcs)}
  BY <1>1, FrontLast
<1>3. Last(funcs) # Main
  BY <1>2 DEF Main
<1>4. /\ FnsOf(out) \subseteq {Main} \cup funcs_visited
      /\ Complete = FnsOf(out) \ {NoMethod.name} /\ NoMethod.name \notin FnsOf(out)
  BY <1>1, OwnersNamed
<1>5. Last(funcs) \notin FnsOf(out) /\ Complete = FnsOf(out)
  BY <1>1, <1>3, <1>4
<1>6. Last(funcs) \in CalledOutside(out, NoMethod.name)
  BY <1>1, <1>2 DEF Queue
<1>7. QED
  BY <1>1, <1>2, <1>5, <1>6

LEMMA BeginMethodInv ==
    ASSUME IInv, BeginMethod
    PROVE  IInv' /\ Complete' = Complete
<1> DEFINE f == Last(funcs)
<1>1. /\ phase = "next" /\ funcs' = Front(funcs)
      /\ funcs_visited' = funcs_visited \cup {f}
      /\ UNCHANGED <<binary, var_count, out>>
      /\ TypeOK /\ IsBinary(binary) /\ Transcribed /\ Owners /\ Covered /\ Queue /\ Highest
  BY DEF BeginMethod, IInv, TypeInv, TypeOK
<1>2. /\ f \in Nat /\ f # Main /\ ToSet(funcs) = ToSet(funcs') \cup {f}
      /\ f \notin FnsOf(out) /\ Complete = FnsOf(out)
      /\ method = NoMethod /\ f \in CalledOutside(out, NoMethod.name)
  BY <1>1, BeginsNew DEF Main
<1>3. TypeInv'
  BY BeginMethodType DEF IInv
<1>4. Transcribed' /\ Highest'
  BY <1>1 DEF Transcribed, Highest
<1>5. CASE f + HeaderSize > binary.size
  <2>1. phase' = "thrown" /\ UNCHANGED <<trail, method>>
    BY <1>5 DEF BeginMethod
  <2> HIDE DEF f
  <2>2. Complete' = Complete /\ Covered'
    BY <1>1, <2>1 DEF Complete, Covered
  <2>3. Owners'
    BY <1>1, <2>1 DEF Owners
  <2>4. Counting' /\ Counted' /\ Translating' /\ Queue'
    BY <2>1 DEF Counting, Counted, Translating, Queue
  <2>5. QED
    BY <1>3, <1>4, <2>2, <2>3, <2>4 DEF IInv
<1>6. CASE ~ (f + HeaderSize > binary.size)
  <2> DEFINE args == u16(binary.header[f].args - 1)
             count == binary.header[f].vars
  <2>1. Begin(f, args, count)
    BY <1>6 DEF BeginMethod
  <2>2. f + HeaderSize <= binary.size
    <3> HIDE DEF f
    <3>1. f + HeaderSize \in Int /\ binary.size \in Int
      BY <1>1, <1>2 DEF HeaderSize, IsBinary
    <3>2. QED
      BY <1>6, <3>1
  <2>3. args = binary.header[f].args - 1
    <3> HIDE DEF f
    <3>1. QED
      BY <1>1, <1>2, <2>2, HeaderFacts
  <2>4. count = binary.header[f].vars
    OBVIOUS
  <2> HIDE DEF f, args, count
  <2>5. phase' = "method" /\ method' = [name |-> f, args |-> args, vars |-> count]
    BY <2>1 DEF Begin
  <2>6. method'.name = f /\ method'.args = args /\ method'.vars = count
    BY <2>5
  <2>7. Complete' = Complete
    <3>1. Complete' = FnsOf(out) \ {f}
      BY <1>1, <2>6 DEF Complete, FnsOf
    <3>2. QED
      BY <1>2, <3>1
  <2>8. Covered'
    BY <1>1, <2>7 DEF Covered
  <2>9. Owners'
    BY <1>1, <2>5, <2>6 DEF Owners
  <2>10. Counting' /\ Counted'
    BY <1>2, <2>5, <2>6 DEF Counting, Counted
  <2>11. Translating'
    <3>1. visited' = {} /\ visited' \cup Ahead(todo', reading', at') = {entry(f)}
      BY <2>1, BeginAhead
    <3>2. Walk(binary, f, {}, visited', visited' \cup Ahead(todo', reading', at'))
      <4>1. entry(f) \in Int
        BY <1>2, EntryInt
      <4>2. QED
        BY <3>1, <4>1, WalkBegins
    <3>3. OffsetsOf(out, f) = {}
      BY <1>2, NoOffsets DEF FnsOf
    <3>4. HasHeader(binary, f)
      BY <2>2 DEF HasHeader
    <3>5. CalledOutside(out, NoMethod.name) \subseteq CalledOutside(out, f)
      BY <1>2 DEF CalledOutside, FnsOf
    <3>6. QED
      BY <1>1, <1>2, <2>3, <2>4, <2>6, <3>1, <3>2, <3>3, <3>4, <3>5 DEF Translating
  <2>12. Queue'
    <3>1. {Main} \cup funcs_visited \subseteq Complete \cup {NoMethod.name}
      BY <1>1, <1>2 DEF Queue
    <3>2. NoMethod.name \notin {Main} \cup funcs_visited
      BY <1>1, OwnersNamed
    <3>3. {Main} \cup funcs_visited' \subseteq Complete' \cup {method'.name}
      BY <1>1, <2>6, <2>7, <3>1, <3>2
    <3>4. QED
      BY <1>1, <1>2, <3>3 DEF Queue
  <2>13. QED
    BY <1>3, <1>4, <2>7, <2>8, <2>9, <2>10, <2>11, <2>12 DEF IInv
<1>7. QED
  BY <1>5, <1>6

LEMMA NextInv == IInv /\ [Next]_vars => IInv'
<1> SUFFICES ASSUME IInv, [Next]_vars PROVE IInv'
  OBVIOUS
<1>1. CASE Seek \/ Meet \/ CountEnd
  BY <1>1, TrailInv
<1>2. CASE CountRead
  BY <1>2, CountReadInv
<1>3. CASE BeginMain
  BY <1>3, BeginMainInv
<1>4. CASE Trailing
  BY <1>4, ThrowInv DEF Trailing
<1>5. CASE MethodRead
  BY <1>5, MethodReadInv
<1>6. CASE MethodWide
  BY <1>6, MethodWideInv
<1>7. CASE EndMethod
  BY <1>7, EndMethodInv
<1>8. CASE SkipMethod
  BY <1>8, SkipMethodInv
<1>9. CASE Finish
  BY <1>9, FinishInv
<1>10. CASE BeginMethod
  BY <1>10, BeginMethodInv
<1>11. CASE UNCHANGED vars
  BY <1>11, StutterInv
<1>12. QED
  BY <1>1, <1>2, <1>3, <1>4, <1>5, <1>6, <1>7, <1>8, <1>9, <1>10, <1>11
     DEF Next, Step, Count, Method, Call, Terminated

-----------------------------------------------------------------------------
(* What is emitted, once and in its place.                                 *)

LEMMA ReadsOnce ==
    ASSUME IInv, EmittedOnce, MethodRead, ~ (phase' = "thrown")
    PROVE  EmittedOnce'
<1> DEFINE e == emitted(binary.text[at])
<1>1. /\ at \in Places(binary) /\ at \notin visited /\ phase = "method"
      /\ out' = Append(out, e)
  BY DEF MethodRead, Throw
<1>2. TypeOK /\ method.name \in {Main} \cup Nat /\ out \in Seq(Emission)
  BY <1>1 DEF IInv, TypeInv, TypeOK, Underway
<1>3. e.fn = method.name /\ e.label.offset = at /\ e \in Emission
  <2>1. binary.text[at] \in Instruction
    BY <1>1, <1>2, BinaryFacts DEF TypeOK
  <2>2. QED
    BY <1>1, <1>2, <2>1, EmittedFields, EmittedType
<1> HIDE DEF e
<1>4. /\ DOMAIN out' = DOMAIN out \cup {Len(out) + 1}
      /\ \A k \in DOMAIN out : k # Len(out) + 1 /\ out'[k] = out[k]
      /\ out'[Len(out) + 1] = e
  BY <1>1, <1>2, <1>3, AppendAt
<1>5. visited = OffsetsOf(out, method.name)
  BY <1>1 DEF IInv, Translating
<1>6. ASSUME NEW k \in DOMAIN out, out[k].fn = e.fn, out[k].label = e.label
      PROVE  FALSE
  <2>1. out[k].label.offset \in OffsetsOf(out, method.name)
    BY <1>3, <1>6 DEF OffsetsOf
  <2>2. QED
    BY <1>1, <1>3, <1>5, <1>6, <2>1
<1>7. \A j, k \in DOMAIN out :
         (out[j].fn = out[k].fn /\ out[j].label = out[k].label) => j = k
  BY <1>1 DEF EmittedOnce
<1>8. QED
  BY <1>4, <1>6, <1>7 DEF EmittedOnce

LEMMA OnceNext == IInv /\ EmittedOnce /\ [Next]_vars => EmittedOnce'
<1> SUFFICES ASSUME IInv, EmittedOnce, [Next]_vars PROVE EmittedOnce'
  OBVIOUS
<1>1. CASE MethodWide
  BY <1>1 DEF MethodWide, EmittedOnce
<1>2. CASE MethodRead /\ phase' # "thrown"
  BY <1>2, ReadsOnce
<1>3. CASE MethodRead /\ phase' = "thrown"
  <2>1. out' = out /\ phase # "wide"
    <3>1. phase = "method"
      BY <1>3 DEF MethodRead
    <3>2. Throw
      BY <1>3, <3>1 DEF MethodRead
    <3>3. QED
      BY <3>1, <3>2 DEF Throw
  <2>2. QED
    BY <2>1 DEF EmittedOnce
<1>4. CASE ~ MethodWide /\ ~ MethodRead
  <2>1. out' = out /\ (phase' = "wide" \/ phase # "wide")
    BY <1>4 DEF Next, Step, Seek, Meet, Count, CountEnd, CountRead, Throw, Method, BeginMain,
                Trailing, EndMethod, Call, SkipMethod, BeginMethod, Finish, Terminated, vars
  <2>2. QED
    BY <2>1 DEF EmittedOnce
<1>5. QED
  BY <1>1, <1>2, <1>3, <1>4

(***************************************************************************)
(* A label is set once in a method and a method is translated once.  The   *)
(* walk marks an offset when it is read, and a method when it begins       *)
(* (compile.cpp:140-146, 276-281).                                         *)
(***************************************************************************)
THEOREM EmissionIsOnce == Spec => []EmittedOnce
<1>1. Init => EmittedOnce
  BY DEF Init, EmittedOnce
<1>2. QED
  BY InitInv, NextInv, <1>1, OnceNext, PTL DEF Spec

\* A variable that is translated gets the slot it had.
LEMMA LocalInPlace ==
    ASSUME IInv, phase = "method", at \in Places(binary),
           NEW i, i = binary.text[at], has_var_arg(i.op), has_local(i.narrow)
    PROVE  assembled_slot(emitted(i)) = emitted(i).slot
<1> DEFINE e == emitted(i)
           n == local_index(i.narrow)
<1>1. TypeOK /\ IsBinary(binary) /\ i.narrow \in Slots
  BY BinaryFacts DEF IInv, TypeInv, TypeOK
<1>2. e.fn = method.name /\ e.slot = i.narrow /\ e.local = local_name(i.narrow)
  BY DEF emitted
<1>3. local_name(i.narrow) = IF n < method.args THEN [kind |-> "arg", n |-> n]
                                                ELSE [kind |-> "lvar", n |-> n - method.args]
  BY DEF local_name
<1>4. n \in Nat /\ i.narrow \in Nat
  BY <1>1, LocalNameType, SlotsAreNumbers
<1> HIDE DEF e
<1>5. CASE method.name = Main
  <2>1. n = i.narrow /\ method.args = 0
    BY <1>1, <1>5, MainLocals
  <2> HIDE DEF n
  <2>2. e.local = [kind |-> "lvar", n |-> n - 0]
    BY <1>2, <1>3, <1>4, <2>1
  <2>3. e.local.kind = "lvar" /\ e.local.n = n - 0
    BY <2>2
  <2>4. assembled_slot(e) = 0 + (n - 0)
    BY <1>2, <1>5, <2>3 DEF assembled_slot
  <2>5. 0 + (n - 0) = n
    BY <1>4
  <2>6. QED
    BY <1>2, <2>1, <2>4, <2>5 DEF e
<1>6. CASE method.name # Main
  <2> DEFINE a == binary.header[method.name].args
  <2>1. n = i.narrow - 1 /\ method.args = a - 1 /\ method.args \in Nat
    BY <1>1, <1>6, MethodLocals
  <2>2. assembled_slot(e) = IF e.local.kind = "arg" THEN e.local.n + 1 ELSE a + e.local.n
    BY <1>2, <1>6 DEF assembled_slot
  <2>3. a \in Int
    <3>1. method.name \in Nat /\ method.name + HeaderSize <= binary.size
      BY <1>6 DEF IInv, TypeInv, Underway, Translating, HasHeader
    <3>2. QED
      BY <1>1, <3>1, HeaderFacts, SlotsAreNumbers
  <2> HIDE DEF n, a
  <2>4. CASE n < method.args
    <3>1. e.local = [kind |-> "arg", n |-> n]
      BY <1>2, <1>3, <2>4
    <3>2. e.local.kind = "arg" /\ e.local.n = n
      BY <3>1
    <3>3. assembled_slot(e) = n + 1
      BY <2>2, <3>2
    <3>4. n + 1 = i.narrow
      BY <1>4, <2>1
    <3>5. QED
      BY <1>2, <3>3, <3>4 DEF e
  <2>5. CASE ~ (n < method.args)
    <3>1. e.local = [kind |-> "lvar", n |-> n - method.args]
      BY <1>2, <1>3, <2>5
    <3>2. e.local.kind # "arg" /\ e.local.n = n - method.args
      BY <3>1
    <3>3. assembled_slot(e) = a + (n - method.args)
      BY <2>2, <3>2
    <3>4. a + (n - method.args) = i.narrow
      BY <1>4, <2>1, <2>3
    <3>5. QED
      BY <1>2, <3>3, <3>4 DEF e
  <2>6. QED
    BY <2>4, <2>5
<1>7. QED
  BY <1>5, <1>6

LEMMA SlotsNext == IInv /\ SlotsKept /\ [Next]_vars => SlotsKept'
<1> SUFFICES ASSUME IInv, SlotsKept, [Next]_vars PROVE SlotsKept'
  OBVIOUS
<1>1. binary' = binary
  BY DEF Next, Step, Seek, Meet, Count, CountEnd, CountRead, Throw, Method, BeginMain,
         Trailing, MethodRead, MethodWide, EndMethod, Call, SkipMethod, BeginMethod, Finish,
         Terminated, vars
<1>2. CASE out' = out
  <2>1. \A e : assembled_slot(e)' = assembled_slot(e)
    BY <1>1 DEF assembled_slot
  <2>2. QED
    BY <1>1, <1>2 DEF SlotsKept, assembled_slot
<1>3. CASE out' # out
  <2> DEFINE i == binary.text[at]
  <2>1. MethodRead \/ MethodWide
    BY <1>3 DEF Next, Step, Seek, Meet, Count, CountEnd, CountRead, Throw, Method, BeginMain,
         Trailing, EndMethod, Call, SkipMethod, BeginMethod, Finish, Terminated, vars
  <2>2. at \in Places(binary) /\ method.name \in {Main} \cup Nat /\ TypeOK
    BY <2>1 DEF MethodRead, MethodWide, IInv, TypeInv, Underway
  <2>3. out' = Append(out, emitted(i))
    BY <1>3, <2>1 DEF MethodRead, MethodWide, Throw
  <2>4. i \in Instruction /\ i = binary.text[at]
    BY <2>2, BinaryFacts DEF TypeOK
  <2>5. has_var_arg(i.op) => phase = "method" /\ has_local(i.narrow)
    <3>1. CASE MethodRead
      <4>1. ~ Throw
        BY <1>3 DEF Throw
      <4>2. QED
        BY <3>1, <4>1 DEF MethodRead
    <3>2. CASE MethodWide
      BY <3>2 DEF MethodWide, has_var_arg, VarOps
    <3>3. QED
      BY <2>1, <3>1, <3>2
  <2> HIDE DEF i
  <2> DEFINE e == emitted(i)
  <2>6. e.op = i.op /\ e \in Emission
    BY <2>2, <2>4, EmittedFields, EmittedType
  <2>7. has_var_arg(e.op) => assembled_slot(e) = e.slot
    <3>1. has_var_arg(i.op) => assembled_slot(emitted(i)) = emitted(i).slot
      BY <2>2, <2>4, <2>5, LocalInPlace
    <3>2. QED
      BY <2>6, <3>1
  <2>8. /\ DOMAIN out' = DOMAIN out \cup {Len(out) + 1}
        /\ \A k \in DOMAIN out : k # Len(out) + 1 /\ out'[k] = out[k]
        /\ out'[Len(out) + 1] = e
    <3>1. out \in Seq(Emission) /\ out' = Append(out, e)
      BY <2>2, <2>3 DEF TypeOK
    <3> HIDE DEF e
    <3>2. QED
      BY <2>6, <3>1, AppendAt
  <2> HIDE DEF e
  <2>9. \A k \in DOMAIN out' :
           has_var_arg(out'[k].op) => assembled_slot(out'[k]) = out'[k].slot
    BY <2>7, <2>8 DEF SlotsKept
  <2>10. QED
    BY <1>1, <2>9 DEF SlotsKept, assembled_slot
<1>4. QED
  BY <1>2, <1>3

(***************************************************************************)
(* Assembled again, every variable is in the slot it had: main is checked  *)
(* against the number of variables its first walk found, a method against  *)
(* its header, and names are counted past the OBJREF the assembler adds    *)
(* (compile.cpp:97-129, 188-194; ijvm_assembler.cpp:90-96).                *)
(***************************************************************************)
THEOREM SlotsAreKept == Spec => []SlotsKept
<1>1. Init => SlotsKept
  BY DEF Init, SlotsKept
<1>2. QED
  BY InitInv, NextInv, <1>1, SlotsNext, PTL DEF Spec

\* A jump at an offset of a method that is through goes to an offset of it.
LEMMA JumpStays ==
    ASSUME IInv, NEW j \in DOMAIN out, out[j].fn \in Complete, has_jmp_arg(out[j].op)
    PROVE  binary.text[out[j].label.offset].to \in OffsetsOf(out, out[j].fn)
<1> DEFINE o == out[j].label.offset
           f == out[j].fn
           i == binary.text[o]
<1>1. IsBinary(binary) /\ Reads(binary, out[j])
  BY DEF IInv, TypeInv, TypeOK, Transcribed
<1>2. o \in Places(binary) /\ i.op = out[j].op
  BY <1>1 DEF Reads
<1>3. o \in OffsetsOf(out, f)
  BY DEF OffsetsOf
<1>4. Covers(binary, f, OffsetsOf(out, f))
  BY DEF IInv, Covered
<1>5. Sound(binary, f, o) /\ successors(binary, o) \subseteq OffsetsOf(out, f)
  <2> HIDE DEF o, f
  <2>1. QED
    BY <1>3, <1>4 DEF Covers, ClosedUnderFlow
<1>6. i.op \in JumpOps
  BY <1>2 DEF has_jmp_arg
<1>7. i.op # "WIDE"
  BY <1>6 DEF JumpOps, Branches
<1>8. opcode_at(binary, o) = o
  BY <1>1, <1>2, <1>7, OpcodeAt
<1>9. targets(i) = <<i.to>>
  BY <1>6 DEF targets, has_jmp_arg
<1>10. i.to \in ToSet(targets(i))
  BY <1>9 DEF ToSet
<1>11. opcode_at(binary, o) < binary.size
  BY <1>5 DEF Sound
<1>12. ToSet(targets(i)) \subseteq successors(binary, o)
  <2> HIDE DEF o
  <2>1. ToSet(targets(binary.text[opcode_at(binary, o)])) \subseteq successors(binary, o)
    BY <1>1, <1>2, <1>11, Onward
  <2>2. QED
    BY <1>8, <2>1
<1>13. QED
  BY <1>5, <1>10, <1>12

LEMMA JumpsFromInv == IInv => JumpsHaveLabels
<1> SUFFICES ASSUME IInv, NEW j \in DOMAIN out,
                    out[j].fn \in Complete, has_jmp_arg(out[j].op),
                    out[j].op # "ICMPEQ" \/ out[j].jump.offset >= Pad
             PROVE  \E k \in DOMAIN out :
                       out[k].fn = out[j].fn /\ out[k].label = out[j].jump
  BY DEF JumpsHaveLabels
<1> DEFINE to == binary.text[out[j].label.offset].to
<1>1. PICK k \in DOMAIN out : out[k].fn = out[j].fn /\ out[k].label.offset = to
  BY JumpStays DEF OffsetsOf
<1>2. out[k].label = loc_04x(to)
  BY <1>1 DEF IInv, Transcribed, Reads
<1>3. out[j].jump = IF out[j].op = "ICMPEQ" THEN loc_x(to) ELSE loc_04x(to)
  BY DEF IInv, Transcribed, Reads
<1>4. to \in Int
  BY BinaryFacts DEF IInv, TypeInv, TypeOK, Transcribed, Reads
<1> HIDE DEF to
<1>5. out[j].jump = loc_04x(to)
  <2>1. CASE out[j].op = "ICMPEQ"
    <3>1. out[j].jump = loc_x(to) /\ loc_x(to).offset = to
      BY <1>3, <2>1 DEF loc_x
    <3>2. to >= Pad
      BY <2>1, <3>1
    <3>3. to \notin 0 .. Pad - 1
      BY <1>4, <3>2, BinariesAssumption
    <3>4. loc_04x(to) = loc_x(to)
      <4> DEFINE p == to \in 0 .. Pad - 1
      <4>1. p = FALSE
        BY <3>3
      <4>2. loc_04x(to) = [offset |-> to, padded |-> p]
        BY DEF loc_04x
      <4> HIDE DEF p
      <4>3. QED
        BY <4>1, <4>2 DEF loc_x
    <3>5. QED
      BY <3>1, <3>4
  <2>2. CASE out[j].op # "ICMPEQ"
    BY <1>3, <2>2
  <2>3. QED
    BY <2>1, <2>2
<1>6. QED
  BY <1>1, <1>2, <1>5

(***************************************************************************)
(* A jump of a translated method names a label of that method, so that     *)
(* link resolves it; all but comparisons below Pad, whose target is        *)
(* written in another format (compile.cpp:204-227).                        *)
(***************************************************************************)
THEOREM JumpsAreLabelled == Spec => []JumpsHaveLabels
BY InitInv, NextInv, JumpsFromInv, PTL DEF Spec

-----------------------------------------------------------------------------
(* The walks are a disassembly.                                            *)

\* A WIDE is the last thing that is emitted before the program hangs.
Plain == phase # "wide" => \A k \in DOMAIN out : out[k].op # "WIDE"

LEMMA PlainNext == IInv /\ Plain /\ [Next]_vars => Plain'
<1> SUFFICES ASSUME IInv, Plain, [Next]_vars PROVE Plain'
  OBVIOUS
<1>1. CASE MethodWide
  BY <1>1 DEF MethodWide, Plain
<1>2. CASE MethodRead /\ out' # out
  <2> DEFINE e == emitted(binary.text[at])
  <2>1. phase = "method" /\ at \in Places(binary) /\ binary.text[at].op # "WIDE"
    BY <1>2 DEF MethodRead
  <2>2. out' = Append(out, e)
    BY <1>2 DEF MethodRead, Throw
  <2>3. TypeOK /\ method.name \in {Main} \cup Nat /\ out \in Seq(Emission)
    BY <2>1 DEF IInv, TypeInv, TypeOK, Underway
  <2>4. e.op # "WIDE" /\ e \in Emission
    <3>1. binary.text[at] \in Instruction
      BY <2>1, <2>3, BinaryFacts DEF TypeOK
    <3>2. QED
      BY <2>1, <2>3, <3>1, EmittedFields, EmittedType
  <2> HIDE DEF e
  <2>5. /\ DOMAIN out' = DOMAIN out \cup {Len(out) + 1}
        /\ \A k \in DOMAIN out : out'[k] = out[k]
        /\ out'[Len(out) + 1] = e
    BY <2>2, <2>3, <2>4, AppendAt
  <2>6. \A k \in DOMAIN out : out[k].op # "WIDE"
    BY <2>1 DEF Plain
  <2>7. QED
    BY <2>4, <2>5, <2>6 DEF Plain
<1>3. CASE ~ MethodWide /\ out' = out
  <2>1. phase' = "wide" \/ phase # "wide"
    BY <1>3 DEF Next, Step, Seek, Meet, Count, CountEnd, CountRead, Throw, Method, BeginMain,
                Trailing, MethodRead, EndMethod, Call, SkipMethod, BeginMethod, Finish,
                Terminated, vars
  <2>2. QED
    BY <1>3, <2>1 DEF Plain
<1>4. CASE ~ MethodWide /\ ~ MethodRead
  <2>1. out' = out
    BY <1>4 DEF Next, Step, Seek, Meet, Count, CountEnd, CountRead, Throw, Method, BeginMain,
                Trailing, EndMethod, Call, SkipMethod, BeginMethod, Finish, Terminated, vars
  <2>2. QED
    BY <1>3, <1>4, <2>1
<1>5. QED
  BY <1>1, <1>2, <1>3, <1>4

\* The disassembly reads binaries the way the front end does.
LEMMA SameDecoding ==
    /\ \A b : Atomic!IsBinary(b) <=> IsBinary(b)
    /\ \A b, f, S : Atomic!Covers(b, f, S) <=> Covers(b, f, S)
    /\ \A b, f : Atomic!Translatable(b, f) <=> Translatable(b, f)
    /\ \A b, S : Atomic!callees(b, S) = callees(b, S)
    /\ Atomic!Main = Main
<1>1. /\ Atomic!Main = Main /\ Atomic!HeaderSize = HeaderSize /\ Atomic!Slots = Slots
      /\ Atomic!VarOps = VarOps /\ Atomic!Branches = Branches /\ Atomic!Finals = Finals
  BY DEF Atomic!Main, Main, Atomic!HeaderSize, HeaderSize, Atomic!Slots, Slots,
         Atomic!VarOps, VarOps, Atomic!Branches, Branches, Atomic!Finals, Finals
<1>2. Atomic!JumpOps = JumpOps
  BY <1>1 DEF Atomic!JumpOps, JumpOps
<1>3. Atomic!Opcodes = Opcodes
  BY <1>1, <1>2 DEF Atomic!Opcodes, Opcodes
<1>4. Atomic!Instruction = Instruction
  BY <1>1, <1>3 DEF Atomic!Instruction, Instruction
<1>5. Atomic!Header = Header
  BY <1>1 DEF Atomic!Header, Header
<1>6. \A b : Atomic!IsBinary(b) <=> IsBinary(b)
  BY <1>4, <1>5 DEF Atomic!IsBinary, IsBinary
<1>7. \A b : Atomic!Places(b) = Places(b)
  BY DEF Atomic!Places, Places
<1>8. \A f : Atomic!entry(f) = entry(f)
  BY <1>1 DEF Atomic!entry, entry
<1>9. \A o : /\ Atomic!has_var_arg(o) <=> has_var_arg(o)
             /\ Atomic!is_final(o) <=> is_final(o)
  BY <1>1 DEF Atomic!has_var_arg, has_var_arg, Atomic!is_final, is_final
<1>10. \A o, w : Atomic!operands(o, w) = operands(o, w)
  BY <1>2 DEF Atomic!operands, operands
<1>11. \A b, o : Atomic!opcode_at(b, o) = opcode_at(b, o)
  BY DEF Atomic!opcode_at, opcode_at
<1>12. \A b, o : Atomic!following(b, o) = following(b, o)
  BY <1>10, <1>11 DEF Atomic!following, following
<1>13. \A b, o : Atomic!successors(b, o) = successors(b, o)
  BY <1>1, <1>9, <1>11, <1>12 DEF Atomic!successors, successors
<1>14. \A b, o : Atomic!slot_at(b, o) = slot_at(b, o)
  BY <1>11 DEF Atomic!slot_at, slot_at
<1>15. \A b, f : Atomic!LocalSlots(b, f) = LocalSlots(b, f)
  BY <1>1 DEF Atomic!LocalSlots, LocalSlots
<1>16. \A b, f, o : Atomic!Sound(b, f, o) <=> Sound(b, f, o)
  BY <1>7, <1>9, <1>11, <1>12, <1>14, <1>15 DEF Atomic!Sound, Sound
<1>17. \A b, f, S : Atomic!ClosedUnderFlow(b, f, S) <=> ClosedUnderFlow(b, f, S)
  BY <1>8, <1>13, <1>16 DEF Atomic!ClosedUnderFlow, ClosedUnderFlow
<1>18. \A b, f : Atomic!HasHeader(b, f) <=> HasHeader(b, f)
  BY <1>1 DEF Atomic!HasHeader, HasHeader
<1>19. \A b, f, S : Atomic!Covers(b, f, S) <=> Covers(b, f, S)
  BY <1>17, <1>18 DEF Atomic!Covers, Covers
<1>20. \A b, f : Atomic!Translatable(b, f) <=> Translatable(b, f)
  BY <1>7, <1>16, <1>17, <1>18 DEF Atomic!Translatable, Translatable
<1>21. \A b, S : Atomic!callees(b, S) = callees(b, S)
  BY <1>11 DEF Atomic!callees, callees
<1>22. QED
  BY <1>1, <1>6, <1>19, <1>20, <1>21

\* What the state amounts to.
Methods == [f \in Complete |-> OffsetsOf(out, f)]

Status == CASE phase = "done" -> "done"
            [] phase \in {"thrown", "panicked"} -> "failed"
            [] OTHER -> "working"

LEMMA StatusFacts ==
    /\ phase = "done" => Status = "done"
    /\ phase \in {"thrown", "panicked"} => Status = "failed"
    /\ phase \notin Final => Status = "working"
<1>1. phase = "done" => Status = "done"
  BY DEF Status
<1>2. phase \in {"thrown", "panicked"} => Status = "failed"
  <2>1. phase \in {"thrown", "panicked"} => phase # "done"
    OBVIOUS
  <2>2. QED
    BY <2>1 DEF Status
<1>3. phase \notin Final => Status = "working"
  BY DEF Status, Final
<1>4. QED
  BY <1>1, <1>2, <1>3

LEMMA MappedVars == Atomic!vars = <<binary, Methods, Status>>
BY DEF Atomic!vars, Methods, Status, OffsetsOf

LEMMA MappedWanted ==
    Atomic!wanted = {Main} \cup UNION {callees(binary, Methods[f]) : f \in DOMAIN Methods}
BY SameDecoding DEF Atomic!wanted, Methods, OffsetsOf

LEMMA MappedInit ==
    ASSUME IsBinary(binary), Methods = [f \in {} |-> {}], Status = "working"
    PROVE  Atomic!Init
BY SameDecoding DEF Atomic!Init, Methods, Status, OffsetsOf

LEMMA MappedTranslate ==
    ASSUME NEW f, Status = "working", f \in Atomic!wanted, f \notin DOMAIN Methods,
           DOMAIN Methods' = DOMAIN Methods \cup {f},
           \A g \in DOMAIN Methods : Methods'[g] = Methods[g],
           Covers(binary, f, Methods'[f]),
           binary' = binary, Status' = Status
    PROVE  Atomic!Next
<1>1. Atomic!Translate(f)
  BY SameDecoding DEF Atomic!Translate, Methods, Status, OffsetsOf
<1>2. QED
  BY <1>1 DEF Atomic!Next

LEMMA MappedFinish ==
    ASSUME Status = "working", Atomic!wanted \subseteq DOMAIN Methods, Status' = "done",
           binary' = binary, Methods' = Methods
    PROVE  Atomic!Next
<1>1. Atomic!Finish
  BY DEF Atomic!Finish, Methods, Status, OffsetsOf
<1>2. QED
  BY <1>1 DEF Atomic!Next

LEMMA MappedFail ==
    ASSUME NEW f, Status = "working", f \in Atomic!wanted, f \notin DOMAIN Methods,
           ~ Translatable(binary, f), Status' = "failed",
           binary' = binary, Methods' = Methods
    PROVE  Atomic!Next
<1>1. Atomic!Fail
  BY SameDecoding DEF Atomic!Fail, Methods, Status, OffsetsOf
<1>2. QED
  BY <1>1 DEF Atomic!Next

\* The methods that the translated ones call are those the assembler was
\* told about.
LEMMA WantedIsCalled ==
    ASSUME IInv, Plain, phase # "wide"
    PROVE  Atomic!wanted = {Main} \cup CalledOutside(out, method.name)
<1>1. IsBinary(binary)
  BY DEF IInv, TypeInv, TypeOK
<1>2. ASSUME NEW k \in DOMAIN out
      PROVE  LET o == out[k].label.offset
             IN  /\ binary.text[opcode_at(binary, o)].op = out[k].op
                 /\ binary.text[opcode_at(binary, o)].func = out[k].func
  <2> DEFINE o == out[k].label.offset
  <2>1. o \in Places(binary) /\ binary.text[o].op = out[k].op
        /\ binary.text[o].func = out[k].func
    BY DEF IInv, Transcribed, Reads
  <2>2. out[k].op # "WIDE"
    BY DEF Plain
  <2> HIDE DEF o
  <2>3. opcode_at(binary, o) = o
    BY <1>1, <2>1, <2>2, OpcodeAt
  <2>4. QED
    BY <2>1, <2>3 DEF o
<1>3. DOMAIN Methods = Complete /\ \A f \in Complete : Methods[f] = OffsetsOf(out, f)
  BY DEF Methods
<1>4. ASSUME NEW f \in Complete, NEW x \in callees(binary, OffsetsOf(out, f))
      PROVE  x \in CalledOutside(out, method.name)
  <2>1. PICK o \in OffsetsOf(out, f) :
           /\ binary.text[opcode_at(binary, o)].op = "INVOKEVIRTUAL"
           /\ x = binary.text[opcode_at(binary, o)].func
    BY <1>4 DEF callees
  <2>2. PICK k \in DOMAIN out : out[k].fn = f /\ o = out[k].label.offset
    BY <2>1 DEF OffsetsOf
  <2>3. out[k].op = "INVOKEVIRTUAL" /\ x = out[k].func
    BY <1>2, <2>1, <2>2
  <2>4. out[k].fn # method.name
    BY <1>4, <2>2 DEF Complete
  <2>5. QED
    BY <2>3, <2>4 DEF CalledOutside
<1>5. ASSUME NEW x \in CalledOutside(out, method.name)
      PROVE  \E f \in Complete : x \in callees(binary, OffsetsOf(out, f))
  <2>1. PICK k \in DOMAIN out :
           out[k].op = "INVOKEVIRTUAL" /\ out[k].fn # method.name /\ x = out[k].func
    BY <1>5 DEF CalledOutside
  <2>2. out[k].fn \in Complete
    BY <2>1 DEF Complete
  <2> DEFINE o == out[k].label.offset
  <2>3. /\ binary.text[opcode_at(binary, o)].op = "INVOKEVIRTUAL"
        /\ binary.text[opcode_at(binary, o)].func = x
    BY <1>2, <2>1
  <2>4. o \in OffsetsOf(out, out[k].fn)
    BY DEF OffsetsOf
  <2> HIDE DEF o
  <2>5. x \in callees(binary, OffsetsOf(out, out[k].fn))
    BY <2>3, <2>4 DEF callees
  <2>6. QED
    BY <2>2, <2>5
<1>6. UNION {callees(binary, Methods[f]) : f \in DOMAIN Methods} = CalledOutside(out, method.name)
  BY <1>3, <1>4, <1>5
<1>7. QED
  BY <1>6, MappedWanted

\* What changes neither the methods that are through nor the binary changes
\* nothing.
LEMMA SameMethods ==
    ASSUME Complete' = Complete, \A f \in Complete : OffsetsOf(out, f)' = OffsetsOf(out, f)
    PROVE  Methods' = Methods
BY DEF Methods

LEMMA MappedStutter ==
    ASSUME binary' = binary, Methods' = Methods, Status' = Status
    PROVE  UNCHANGED Atomic!vars
BY DEF Atomic!vars, Methods, Status, OffsetsOf

\* While main is counted nothing is through.
LEMMA NothingYet ==
    ASSUME IInv, phase = "count"
    PROVE  Complete = {} /\ DOMAIN Methods = {}
BY DEF IInv, Owners, Complete, Methods

\* Where a walk gives up, control arrives at something out of order.
LEMMA CountGivesUp ==
    ASSUME IInv, CountRead, Throw
    PROVE  ~ Translatable(binary, Main)
<1>1. /\ phase = "count" /\ reading /\ at \in Places(binary) /\ IsBinary(binary)
  BY DEF CountRead, IInv, TypeInv, TypeOK
<1>2. phase' = "thrown"
  BY DEF Throw
<1>3. opcode_at(binary, at) = binary.size \/ following(binary, at) > binary.size
  BY <1>1, <1>2 DEF CountRead
<1>4. at \in Reached(binary, Main)
  BY <1>1 DEF IInv, Counting, Walk, Ahead
<1>5. ~ Sound(binary, Main, at)
  <2>1. following(binary, at) \in Int /\ binary.size \in Int
    BY <1>1, FollowingInt, BinaryFacts
  <2>2. QED
    BY <1>3, <2>1 DEF Sound
<1>6. QED
  BY <1>1, <1>4, <1>5, ReachedIsNeeded

LEMMA MethodReaches ==
    ASSUME IInv, phase = "method", reading
    PROVE  at \in Reached(binary, method.name)
BY DEF IInv, Translating, Walk, Ahead

\* main has more variables than a u16 counts.
LEMMA TooManyVariables ==
    ASSUME IInv, phase = "method", method.name = Main, reading, at \in Places(binary),
           binary.text[at].op # "WIDE", has_var_arg(binary.text[at].op),
           ~ has_local(binary.text[at].narrow)
    PROVE  ~ Translatable(binary, Main)
<1> DEFINE s == binary.text[at].narrow
<1>1. IsBinary(binary) /\ SlotBase \in Nat \ {0} /\ var_count \in 0 .. SlotBase
  BY BinariesAssumption DEF IInv, TypeInv, TypeOK
<1>2. s \in Slots /\ at < binary.size
  BY <1>1, BinaryFacts
<1>3. opcode_at(binary, at) = at /\ slot_at(binary, at) = s
  BY <1>1, PlainInstruction
<1>4. at \in Reached(binary, Main) /\ Names(binary, at)
  BY <1>2, <1>3, MethodReaches DEF Names
<1>5. s < var_count
  BY <1>3, <1>4 DEF IInv, Counted
<1>6. ~ (s < u16(var_count))
  BY <1>2, MainLocals
<1>7. var_count \in Int /\ s \in Nat
  BY <1>1, <1>2, SlotsAreNumbers
<1> HIDE DEF s
<1>8. var_count = SlotBase
  <2>1. CASE var_count \in Slots
    BY <1>5, <1>6, <1>7, <2>1, CutOff
  <2>2. CASE var_count \notin Slots
    BY <1>1, <2>2 DEF Slots
  <2>3. QED
    BY <2>1, <2>2
<1>9. PICK o \in Reached(binary, Main) \cap Places(binary) :
         Names(binary, o) /\ slot_at(binary, o) = var_count - 1
  BY <1>1, <1>8 DEF IInv, Highest
<1>10. ~ Sound(binary, Main, o)
  <2>1. slot_at(binary, o) \notin LocalSlots(binary, Main)
    <3>1. LocalSlots(binary, Main) = 0 .. SlotBase - 2
      BY DEF LocalSlots
    <3>2. QED
      BY <1>1, <1>8, <1>9, <3>1
  <2>2. QED
    BY <1>9, <2>1 DEF Names, Sound
<1>11. QED
  BY <1>1, <1>9, <1>10, ReachedIsNeeded

LEMMA MethodGivesUp ==
    ASSUME IInv, MethodRead, Throw
    PROVE  ~ Translatable(binary, method.name)
<1> DEFINE i == binary.text[at]
           n == at + 1 + operands(i.op, FALSE)
<1>1. /\ phase = "method" /\ reading /\ at \in Places(binary) /\ IsBinary(binary)
      /\ i.op # "WIDE" /\ i.narrow \in Slots
  BY BinaryFacts DEF MethodRead, IInv, TypeInv, TypeOK
<1>2. at \in Reached(binary, method.name)
  BY <1>1, MethodReaches
<1>3. opcode_at(binary, at) = at /\ following(binary, at) = n /\ slot_at(binary, at) = i.narrow
  BY <1>1, PlainInstruction
<1>4. i.op = "INVALID" \/ n > binary.size \/ (has_var_arg(i.op) /\ ~ has_local(i.narrow))
  <2>1. phase' # phase
    BY <1>1 DEF Throw
  <2>2. QED
    BY <2>1 DEF MethodRead
<1>5. CASE i.op = "INVALID"
  <2>1. ~ Sound(binary, method.name, at)
    BY <1>3, <1>5 DEF Sound
  <2>2. QED
    BY <1>1, <1>2, <2>1, ReachedIsNeeded
<1>6. CASE n > binary.size
  <2>1. ~ Sound(binary, method.name, at)
    <3>1. following(binary, at) \in Int /\ binary.size \in Int
      BY <1>1, FollowingInt, BinaryFacts
    <3> HIDE DEF n
    <3>2. ~ (following(binary, at) <= binary.size)
      BY <1>3, <1>6, <3>1
    <3>3. QED
      BY <3>2 DEF Sound
  <2>2. QED
    BY <1>1, <1>2, <2>1, ReachedIsNeeded
<1>7. CASE has_var_arg(i.op) /\ ~ has_local(i.narrow)
  <2>1. CASE method.name = Main
    BY <1>1, <1>7, <2>1, TooManyVariables
  <2>2. CASE method.name # Main
    <3>1. i.narrow \notin LocalSlots(binary, method.name)
      BY <1>1, <1>7, <2>2, MethodLocals
    <3>2. ~ Sound(binary, method.name, at)
      BY <1>3, <1>7, <3>1 DEF Sound
    <3>3. QED
      BY <1>1, <1>2, <3>2, ReachedIsNeeded
  <2>3. QED
    BY <2>1, <2>2
<1>8. QED
  BY <1>4, <1>5, <1>6, <1>7

LEMMA TrailingGivesUp ==
    ASSUME IInv, Trailing
    PROVE  ~ Translatable(binary, method.name)
<1>1. phase = "method" /\ reading /\ at \notin Places(binary) /\ IsBinary(binary)
  BY DEF Trailing, IInv, TypeInv, TypeOK
<1>2. at \in Reached(binary, method.name)
  BY <1>1, MethodReaches
<1>3. ~ Sound(binary, method.name, at)
  BY <1>1 DEF Sound
<1>4. QED
  BY <1>1, <1>2, <1>3, ReachedIsNeeded

-----------------------------------------------------------------------------
(* Each step is a step of the disassembly, or none.                        *)

LEMMA GivesUpIsFail ==
    ASSUME IInv, Plain, phase \in {"count", "method"},
           NEW f, f = (IF phase = "count" THEN Main ELSE method.name),
           ~ Translatable(binary, f),
           phase' \in {"thrown", "panicked"},
           UNCHANGED <<binary, trail, var_count, progress, out>>
    PROVE  Atomic!Next
<1>1. Status = "working" /\ Status' = "failed"
  <2>1. phase \notin Final
    BY DEF Final
  <2>2. Status = "working"
    BY <2>1, StatusFacts
  <2>3. Status' = "failed"
    BY DEF Status
  <2>4. QED
    BY <2>2, <2>3
<1>2. Methods' = Methods
  BY DEF Methods, Complete, progress
<1>3. Atomic!wanted = {Main} \cup CalledOutside(out, method.name)
  BY WantedIsCalled
<1>4. f \in Atomic!wanted /\ f \notin DOMAIN Methods
  <2>1. CASE phase = "count"
    BY <1>3, <2>1, NothingYet
  <2>2. CASE phase = "method"
    BY <1>3, <2>2 DEF IInv, Translating, Methods, Complete
  <2>3. QED
    BY <2>1, <2>2
<1>5. QED
  BY <1>1, <1>2, <1>4, MappedFail

LEMMA WorkingSteps ==
    ASSUME phase \notin Final, phase' \notin Final, binary' = binary,
           Complete' = Complete, \A f \in Complete : OffsetsOf(out, f)' = OffsetsOf(out, f)
    PROVE  UNCHANGED Atomic!vars
<1>1. Status = "working" /\ Status' = "working"
  <2>1. Status = "working"
    BY StatusFacts
  <2>2. Status' = "working"
    BY DEF Status, Final
  <2>3. QED
    BY <2>1, <2>2
<1>2. Methods' = Methods
  BY SameMethods
<1>3. QED
  BY <1>1, <1>2, MappedStutter

LEMMA QuietSteps ==
    ASSUME IInv, Seek \/ Meet \/ CountEnd \/ (CountRead /\ ~ Throw) \/ BeginMain \/ SkipMethod
    PROVE  UNCHANGED Atomic!vars
<1>1. /\ binary' = binary /\ out' = out /\ (method' = method \/ phase = "count")
      /\ phase \in {"count", "method", "next"} /\ phase' \in {"count", "method", "next"}
  BY DEF Seek, Meet, CountEnd, CountRead, BeginMain, Begin, SkipMethod, progress
<1>2. Complete' = Complete
  <2>1. CASE method' = method
    BY <1>1, <2>1 DEF Complete
  <2>2. CASE phase = "count"
    BY <1>1, <2>2 DEF Complete, IInv, Owners
  <2>3. QED
    BY <1>1, <2>1, <2>2
<1>3. phase \notin Final /\ phase' \notin Final
  BY <1>1 DEF Final
<1>4. \A f \in Complete : OffsetsOf(out, f)' = OffsetsOf(out, f)
  BY <1>1
<1>5. QED
  BY <1>1, <1>2, <1>3, <1>4, WorkingSteps

LEMMA EmittingSteps ==
    ASSUME IInv, (MethodRead /\ ~ Throw) \/ MethodWide
    PROVE  UNCHANGED Atomic!vars
<1> DEFINE i == binary.text[at]
<1>1. /\ at \in Places(binary) /\ TypeOK /\ method.name \in {Main} \cup Nat
      /\ phase \in {"method", "wide"}
  BY DEF MethodRead, MethodWide, IInv, TypeInv, Underway
<1>2. /\ out' = Append(out, emitted(i)) /\ binary' = binary /\ method' = method
      /\ phase' \in {"method", "wide"}
  BY DEF MethodRead, MethodWide, progress
<1>3. i = binary.text[at]
  OBVIOUS
<1> HIDE DEF i
<1>4. /\ FnsOf(out') = FnsOf(out) \cup {method.name}
      /\ \A f : f # method.name => OffsetsOf(out', f) = OffsetsOf(out, f)
  BY <1>1, <1>2, <1>3, EmittedAdds
<1>5. Complete' = Complete
  <2>1. Complete = FnsOf(out) \ {method.name} /\ Complete' = FnsOf(out') \ {method'.name}
    BY DEF Complete, FnsOf
  <2>2. QED
    BY <1>2, <1>4, <2>1
<1>6. \A f \in Complete : OffsetsOf(out, f)' = OffsetsOf(out, f)
  BY <1>4 DEF Complete
<1>7. phase \notin Final /\ phase' \notin Final
  BY <1>1, <1>2 DEF Final
<1>8. QED
  BY <1>2, <1>5, <1>6, <1>7, WorkingSteps

LEMMA EndMethodIsTranslate ==
    ASSUME IInv, Plain, EndMethod
    PROVE  Atomic!Next
<1> DEFINE f == method.name
<1>1. /\ phase = "method" /\ ~ reading /\ todo = << >> /\ phase' = "next"
      /\ UNCHANGED <<binary, out>>
  BY DEF EndMethod
<1>2. Covers(binary, f, OffsetsOf(out, f)) /\ Complete' = Complete \cup {f}
  BY <1>1, MethodThrough, EndMethodInv
<1>3. Status = "working" /\ Status' = "working"
  <2>1. phase \notin Final
    BY <1>1 DEF Final
  <2>2. Status = "working"
    BY <2>1, StatusFacts
  <2>3. Status' = "working"
    BY <1>1 DEF Status
  <2>4. QED
    BY <2>2, <2>3
<1>4. f \in Atomic!wanted
  <2>1. Atomic!wanted = {Main} \cup CalledOutside(out, f)
    BY <1>1, WantedIsCalled
  <2>2. QED
    BY <1>1, <2>1 DEF IInv, Translating
<1>5. f \notin DOMAIN Methods
  BY DEF Methods, Complete
<1> HIDE DEF f
<1>6. /\ DOMAIN Methods = Complete /\ \A g \in Complete : Methods[g] = OffsetsOf(out, g)
      /\ DOMAIN Methods' = Complete \cup {f}
      /\ \A g \in Complete \cup {f} : Methods'[g] = OffsetsOf(out, g)
  BY <1>1, <1>2 DEF Methods
<1>7. /\ DOMAIN Methods' = DOMAIN Methods \cup {f}
      /\ \A g \in DOMAIN Methods : Methods'[g] = Methods[g]
      /\ Covers(binary, f, Methods'[f])
  BY <1>2, <1>6
<1>8. QED
  BY <1>1, <1>3, <1>4, <1>5, <1>7, MappedTranslate

LEMMA BeginMethodMapped ==
    ASSUME IInv, Plain, BeginMethod
    PROVE  Atomic!Next \/ UNCHANGED Atomic!vars
<1> DEFINE f == Last(funcs)
<1>1. /\ phase = "next" /\ UNCHANGED <<binary, out>> /\ IsBinary(binary)
      /\ Complete' = Complete
  BY BeginMethodInv DEF BeginMethod, IInv, TypeInv, TypeOK
<1>2. /\ f \in Nat /\ f \notin Complete /\ method = NoMethod
      /\ f \in CalledOutside(out, method.name)
  BY BeginsNew
<1>3. phase \notin Final
  BY <1>1 DEF Final
<1>4. CASE f + HeaderSize > binary.size
  <2>1. phase' = "thrown"
    BY <1>4 DEF BeginMethod
  <2>2. f # Main /\ ~ HasHeader(binary, f)
    <3> HIDE DEF f
    <3>1. f # Main
      BY <1>2 DEF Main
    <3>2. f + HeaderSize \in Int /\ binary.size \in Int
      BY <1>1, <1>2 DEF HeaderSize, IsBinary
    <3>3. ~ (f + HeaderSize <= binary.size)
      BY <1>4, <3>2
    <3>4. QED
      BY <3>1, <3>3 DEF HasHeader
  <2>3. ~ Translatable(binary, f)
    BY <2>2 DEF Translatable
  <2>4. Status = "working" /\ Status' = "failed"
    <3>1. Status = "working"
      BY <1>3, StatusFacts
    <3>2. Status' = "failed"
      BY <2>1 DEF Status
    <3>3. QED
      BY <3>1, <3>2
  <2>5. Methods' = Methods
    BY <1>1 DEF Methods
  <2>6. f \in Atomic!wanted /\ f \notin DOMAIN Methods
    BY <1>1, <1>2, WantedIsCalled DEF Methods
  <2> HIDE DEF f
  <2>7. Atomic!Next
    BY <1>1, <2>3, <2>4, <2>5, <2>6, MappedFail
  <2>8. QED
    BY <2>7
<1>5. CASE ~ (f + HeaderSize > binary.size)
  <2>1. phase' = "method"
    BY <1>5 DEF BeginMethod, Begin
  <2>2. phase' \notin Final
    BY <2>1 DEF Final
  <2>3. \A g \in Complete : OffsetsOf(out, g)' = OffsetsOf(out, g)
    BY <1>1
  <2>4. UNCHANGED Atomic!vars
    BY <1>1, <1>3, <2>2, <2>3, WorkingSteps
  <2>5. QED
    BY <2>4
<1>6. QED
  BY <1>4, <1>5

LEMMA FinishMapped ==
    ASSUME IInv, Plain, Finish
    PROVE  Atomic!Next
<1>1. /\ phase = "next" /\ funcs = << >> /\ phase' = "done"
      /\ UNCHANGED <<binary, method, out>>
  BY DEF Finish, progress
<1>2. Status = "working" /\ Status' = "done"
  <2>1. phase \notin Final
    BY <1>1 DEF Final
  <2>2. Status = "working"
    BY <2>1, StatusFacts
  <2>3. Status' = "done"
    BY <1>1 DEF Status
  <2>4. QED
    BY <2>2, <2>3
<1>3. Methods' = Methods
  BY <1>1 DEF Methods, Complete
<1>4. Atomic!wanted \subseteq DOMAIN Methods
  <2>1. method = NoMethod
    BY <1>1 DEF IInv, Owners
  <2>2. Atomic!wanted = {Main} \cup CalledOutside(out, NoMethod.name)
    BY <1>1, <2>1, WantedIsCalled
  <2>3. ToSet(funcs) = {}
    BY <1>1 DEF ToSet
  <2>4. CalledOutside(out, NoMethod.name) \subseteq funcs_visited
    BY <1>1, <2>3 DEF IInv, Queue
  <2>5. {Main} \cup funcs_visited \subseteq Complete \cup {NoMethod.name}
    BY <1>1, <2>1 DEF IInv, Queue
  <2>6. NoMethod.name \notin {Main} \cup funcs_visited
    BY OwnersNamed DEF IInv, TypeInv
  <2>7. QED
    BY <2>2, <2>4, <2>5, <2>6 DEF Methods
<1>5. QED
  BY <1>1, <1>2, <1>3, <1>4, MappedFinish

LEMMA InitMapped == Init => Atomic!Init
<1> SUFFICES ASSUME Init PROVE Atomic!Init
  OBVIOUS
<1>1. IsBinary(binary)
  BY BinariesAssumption DEF Init
<1>2. Complete = {}
  BY DEF Init, Complete
<1>3. Methods = [f \in {} |-> {}]
  BY <1>2 DEF Methods
<1>4. phase \notin Final
  BY DEF Init, Final
<1>5. Status = "working"
  BY <1>4, StatusFacts
<1>6. QED
  BY <1>1, <1>3, <1>5, MappedInit

LEMMA NextMapped == IInv /\ Plain /\ [Next]_vars => [Atomic!Next]_(Atomic!vars)
<1> SUFFICES ASSUME IInv, Plain, [Next]_vars
             PROVE  Atomic!Next \/ UNCHANGED Atomic!vars
  OBVIOUS
<1>1. CASE Seek \/ Meet \/ CountEnd \/ (CountRead /\ ~ Throw) \/ BeginMain \/ SkipMethod
  BY <1>1, QuietSteps
<1>2. CASE (MethodRead /\ ~ Throw) \/ MethodWide
  BY <1>2, EmittingSteps
<1>3. CASE CountRead /\ Throw
  <2>1. /\ phase = "count" /\ phase' \in {"thrown", "panicked"}
        /\ UNCHANGED <<binary, trail, var_count, progress, out>>
    BY <1>3 DEF CountRead, Throw
  <2>2. ~ Translatable(binary, Main)
    BY <1>3, CountGivesUp
  <2>3. QED
    BY <2>1, <2>2, GivesUpIsFail
<1>4. CASE MethodRead /\ Throw
  <2>1. /\ phase = "method" /\ phase' \in {"thrown", "panicked"}
        /\ UNCHANGED <<binary, trail, var_count, progress, out>>
    BY <1>4 DEF MethodRead, Throw
  <2>2. ~ Translatable(binary, method.name)
    BY <1>4, MethodGivesUp
  <2>3. QED
    BY <2>1, <2>2, GivesUpIsFail
<1>5. CASE Trailing
  <2>1. /\ phase = "method" /\ phase' \in {"thrown", "panicked"}
        /\ UNCHANGED <<binary, trail, var_count, progress, out>>
    BY <1>5 DEF Trailing
  <2>2. ~ Translatable(binary, method.name)
    BY <1>5, TrailingGivesUp
  <2>3. QED
    BY <2>1, <2>2, GivesUpIsFail
<1>6. CASE EndMethod
  BY <1>6, EndMethodIsTranslate
<1>7. CASE BeginMethod
  BY <1>7, BeginMethodMapped
<1>8. CASE Finish
  BY <1>8, FinishMapped
<1>9. CASE UNCHANGED vars
  <2>1. binary' = binary /\ Methods' = Methods /\ Status' = Status
    BY <1>9 DEF vars, progress, Methods, Complete, Status
  <2>2. QED
    BY <2>1, MappedStutter
<1>10. QED
  BY <1>1, <1>2, <1>3, <1>4, <1>5, <1>6, <1>7, <1>8, <1>9
     DEF Next, Step, Count, Method, Call, Terminated

(***************************************************************************)
(* Two worklists of offsets and one of methods amount to a disassembly     *)
(* that takes each method in one step: main and every method a translated  *)
(* one calls, each with exactly the instructions control can reach; it     *)
(* gives up only over a method it needs and that is out of order           *)
(* (compile.cpp:33-289).                                                   *)
(***************************************************************************)
THEOREM DisassemblyImplemented == Spec => ImplementsDisassembly
<1>1. Init => Plain
  BY DEF Init, Plain
<1>2. QED
  BY InitInv, NextInv, <1>1, PlainNext, InitMapped, NextMapped, PTL
     DEF Spec, ImplementsDisassembly, Atomic!Spec

=============================================================================
