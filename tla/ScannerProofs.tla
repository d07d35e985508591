--------------------------- MODULE ScannerProofs ---------------------------
(***************************************************************************)
(* Proofs that the scanner cuts a source into the longest words of its     *)
(* language, in their places and with their values, and refuses a source   *)
(* only where no word begins.                                              *)
(*                                                                         *)
(* The scanner forgets what it has read; the invariant says which piece of *)
(* the text each token, and the half-read one, stands for.                 *)
(***************************************************************************)
EXTENDS Scanner, ProofBasics, FiniteSetTheorems

\* How much of the text has been read, and the piece between two offsets.
at        == Len(text) - Len(rest)
Cut(s, e) == SubSeq(text, s + 1, e)

\* No word begins at s and goes beyond e.
LongestAt(s, e) ==
    \A o \in e + 1 .. Len(text), ty \in Names : ~ IsWord(ty, Cut(s, o))

\* The token k is the piece between s and e.
Bare(k)        == k.type = "Hexadecimal" /\ k.value = <<"0", "x">>
Right(k, s, e) ==
    /\ 0 <= s /\ s < e /\ e <= Len(text)
    /\ [line |-> k.line, col |-> k.srow] = PlaceOf(s)
    /\ Bare(k) \/ (/\ IsWord(k.type, Cut(s, e))
                   /\ Means(k.type, Cut(s, e), k.value)
                   /\ LongestAt(s, e))

\* Where the token that is being read began, and where the tokens end.
from      == OffsetOf(start)
Edge      == IF mode = "start" /\ phase # "error" THEN at ELSE from
EndsAt(i) == IF i < Len(tokens) THEN Begins(i + 1) ELSE Edge

Position ==
    /\ text \in Texts
    /\ rest \in Seq(Characters) /\ IsSuffix(rest, text)
    /\ [line |-> line, col |-> col] = PlaceOf(at)
    /\ mode # "start" \/ phase = "error" => from \in 0 .. at /\ start = PlaceOf(from)

TokenSet == [type : Names, value : Seq(Stored), line : Int, srow : Int]

Shapes ==
    /\ mode \in LoopModes \cup {"start", "string", "character"}
    /\ phase \in {"scanning", "done", "error"}
    /\ phase = "done" => mode = "start" /\ rest = << >>
    /\ builder \in Seq(Stored)
    /\ tokens \in Seq(TokenSet)

\* The tokens are the pieces of the text up to the edge.
Covered ==
    /\ tokens = << >> => Edge = 0
    /\ tokens # << >> => Begins(1) = 0
    /\ \A i \in DOMAIN tokens : Right(tokens[i], Begins(i), EndsAt(i))

\* The piece between s and e is the beginning of what the loop m reads, and the
\* builder holds its characters.
HalfRead(m, s, e) ==
    LET L == Cut(s, e)
    IN  CASE m = "start"      -> TRUE
          [] m = "comment"    -> /\ Len(L) > 1 /\ L[1] = "/" /\ L[2] = "/"
                                 /\ From(L, Characters \ {"\n"})
          [] m = "space"      -> From(L, Spaces)
          [] m = "identifier" -> L[1] \in WordStart /\ From(L, WordStart \cup Digits)
          [] m = "hex"        -> /\ Len(L) > 1 /\ L[1] = "0" /\ L[2] = "x"
                                 /\ From(Cut(s + 2, e), HexDigits)
          [] m = "decimal"    -> /\ From(L, Digits)
                                 /\ L[1] = "0" => s + 2 > Len(text) \/ text[s + 2] # "x"
          [] m = "string"     -> L[1] = "\"" /\ Inside(Cut(s + 1, e))
          [] m = "character"  -> e = s + 1 /\ L[1] = "'"

Built(m, s, e, b) ==
    LET L == Cut(s, e)
    IN  CASE m \in {"start", "character"} -> TRUE
          [] m = "comment" -> b = [i \in 1 .. Len(L) - 1 |-> char(L[i + 1])]
          [] m = "string"  -> e < Len(text) => Len(b) < Len(L) /\ Reads(b, Cut(s + 1, e))
          [] m \in LoopModes \ {"comment"} -> b = [i \in 1 .. Len(L) |-> char(L[i])]

Reading ==
    mode # "start" => from < at /\ HalfRead(mode, from, at) /\ Built(mode, from, at, builder)

Refused == phase = "error" => LongestAt(from, from)

ScanInv == Position /\ Shapes /\ Covered /\ Reading /\ Refused

-----------------------------------------------------------------------------

(***************************************************************************)
(* The kinds of characters are apart.                                      *)
(***************************************************************************)
LEMMA Kinds ==
    /\ WordStart \cap Digits = {}
    /\ (WordStart \cup Digits) \cap (Operators \cup Spaces \cup Punctuation) = {}
    /\ (WordStart \cup Digits) \cap {"\n", "\"", "'", "\\", "!", Foreign, EOF} = {}
    /\ "0" \notin WordStart /\ "0" \in Digits
    /\ "x" \notin HexDigits /\ "x" \notin Digits
    /\ EOF \notin Characters
    /\ HexDigits \subseteq WordStart \cup Digits
    /\ WordStart \subseteq Characters /\ Digits \subseteq Characters
  BY CharactersAssumption
     DEF Signs, Characters, Alpha, WordStart, HexDigits, Operators, Spaces, Punctuation, Foreign, EOF

(***************************************************************************)
(* The first characters of a word decide what it can be.                   *)
(***************************************************************************)
LEMMA WordKinds ==
    ASSUME NEW ty, NEW w \in Seq(Characters), w # << >>, IsWord(ty, w)
    PROVE  \/ ty = "Decimal" /\ w[1] \in Digits /\ From(w, Digits)
           \/ /\ ty = "Hexadecimal" /\ Len(w) > 2 /\ w[1] = "0" /\ w[2] = "x"
              /\ From(SubSeq(w, 3, Len(w)), HexDigits)
           \/ /\ ty = "Character_literal" /\ Len(w) \in {3, 4} /\ w[1] = "'" /\ w[Len(w)] = "'"
              /\ (w[2] = "\\") <=> (Len(w) = 4)
           \/ w[1] \in WordStart /\ From(w, WordStart \cup Digits)
           \/ w[1] \in Operators /\ (Len(w) = 1 \/ (Len(w) = 2 /\ w[2] = "="))
           \/ w[1] \in Spaces /\ From(w, Spaces)
           \/ Len(w) > 1 /\ w[1] = "/" /\ w[2] = "/" /\ From(w, Characters \ {"\n"})
           \/ w[1] = "\n" /\ Len(w) = 1
           \/ ty = "StringLiteral" /\ w[1] = "\"" /\ Quoted(w)
           \/ w[1] \in Punctuation /\ Len(w) = 1
<1>1. 1 \in DOMAIN w
  OBVIOUS
<1>2. \A S : From(w, S) => w[1] \in S
  BY <1>1 DEF From
<1>3. w \in keywords => w[1] \in WordStart /\ From(w, WordStart \cup Digits)
  <2> SUFFICES ASSUME w \in keywords
               PROVE  w[1] \in WordStart /\ From(w, WordStart \cup Digits)
    OBVIOUS
  <2>1. w \in Seq(WordStart \cup Digits) /\ w[1] \in WordStart
    BY KeywordsAssumption
  <2>2. QED
    BY <2>1 DEF From
<1>4. Quoted(w) => w[1] = "\""
  BY DEF Quoted
<1>5. w = <<"\n">> => w[1] = "\n" /\ Len(w) = 1
  OBVIOUS
<1> HIDE DEF WordStart, Operators, Spaces, Punctuation
<1>6. QED
  BY <1>2, <1>3, <1>4, <1>5, Zenon DEF IsWord

LEMMA NumberWord ==
    ASSUME NEW ty, NEW w \in Seq(Characters), w # << >>, IsWord(ty, w), w[1] \in Digits
    PROVE  \/ ty = "Decimal" /\ From(w, Digits)
           \/ /\ ty = "Hexadecimal" /\ Len(w) > 2 /\ w[1] = "0" /\ w[2] = "x"
              /\ From(SubSeq(w, 3, Len(w)), HexDigits)
  BY Kinds, WordKinds DEF Operators, Spaces, Punctuation

LEMMA NameWord ==
    ASSUME NEW ty, NEW w \in Seq(Characters), w # << >>, IsWord(ty, w), w[1] \in WordStart
    PROVE  From(w, WordStart \cup Digits)
  BY Kinds, WordKinds DEF Operators, Spaces, Punctuation

LEMMA SpaceWord ==
    ASSUME NEW ty, NEW w \in Seq(Characters), w # << >>, IsWord(ty, w), w[1] \in Spaces
    PROVE  From(w, Spaces)
  BY Kinds, WordKinds DEF Operators, Spaces, Punctuation

LEMMA CommentWord ==
    ASSUME NEW ty, NEW w \in Seq(Characters), Len(w) > 2, IsWord(ty, w), w[1] = "/", w[2] = "/"
    PROVE  From(w, Characters \ {"\n"})
<1> DEFINE n == Len(w)
<1>0. n \in Nat /\ n > 2
  OBVIOUS
<1>1. w # << >> /\ n # 1 /\ n # 2
  <2>1. w # << >>
    OBVIOUS
  <2> HIDE DEF n
  <2>2. QED
    BY <1>0, <2>1
<1>2. "/" \notin WordStart \cup Digits \cup Spaces \cup Punctuation
  BY Kinds DEF Operators, Spaces, Punctuation
<1>3. QED
  BY <1>1, <1>2, WordKinds

LEMMA OperatorWord ==
    ASSUME NEW ty, NEW w \in Seq(Characters), w # << >>, IsWord(ty, w), w[1] \in Operators,
           ~ (Len(w) > 1 /\ w[1] = "/" /\ w[2] = "/")
    PROVE  Len(w) = 1 \/ (Len(w) = 2 /\ w[2] = "=")
  BY Kinds, WordKinds DEF Operators, Spaces, Punctuation

LEMMA SignWord ==
    ASSUME NEW ty, NEW w \in Seq(Characters), w # << >>, IsWord(ty, w),
           w[1] \in Punctuation \cup {"\n"}
    PROVE  Len(w) = 1
  BY Kinds, WordKinds DEF Operators, Spaces, Punctuation

LEMMA StringWord ==
    ASSUME NEW ty, NEW w \in Seq(Characters), w # << >>, IsWord(ty, w), w[1] = "\""
    PROVE  ty = "StringLiteral" /\ Quoted(w)
  BY Kinds, WordKinds DEF Operators, Spaces, Punctuation

LEMMA CharacterWord ==
    ASSUME NEW ty, NEW w \in Seq(Characters), w # << >>, IsWord(ty, w), w[1] = "'"
    PROVE  /\ ty = "Character_literal" /\ Len(w) \in {3, 4} /\ w[Len(w)] = "'"
           /\ (w[2] = "\\") <=> (Len(w) = 4)
  BY Kinds, WordKinds DEF Operators, Spaces, Punctuation

LEMMA UnknownWord ==
    ASSUME NEW ty, NEW w \in Seq(Characters), w # << >>, w[1] \notin Known
    PROVE  ~ IsWord(ty, w)
  BY Kinds, WordKinds DEF Known, Operators, Spaces, Punctuation

-----------------------------------------------------------------------------

(***************************************************************************)
(* The lines and columns of a text name its offsets.                       *)
(***************************************************************************)
Ends(o) == {i \in 1 .. o : text[i] = "\n"}

LEMMA EndsFinite ==
    ASSUME NEW o \in Nat
    PROVE  IsFiniteSet(Ends(o)) /\ Cardinality(Ends(o)) \in Nat
<1>1. IsFiniteSet(1 .. o)
  BY FS_Interval
<1>2. Ends(o) \in SUBSET (1 .. o)
  BY DEF Ends
<1>3. IsFiniteSet(Ends(o))
  BY <1>1, <1>2, FS_Subset
<1>4. QED
  BY <1>3, FS_CardinalityType

LEMMA EndsNext ==
    ASSUME NEW o \in Nat
    PROVE  /\ text[o + 1] = "\n" => /\ Ends(o + 1) = Ends(o) \cup {o + 1}
                                    /\ Cardinality(Ends(o + 1)) = Cardinality(Ends(o)) + 1
           /\ text[o + 1] # "\n" => Ends(o + 1) = Ends(o)
<1>1. text[o + 1] = "\n" => Ends(o + 1) = Ends(o) \cup {o + 1}
  BY DEF Ends
<1>2. text[o + 1] # "\n" => Ends(o + 1) = Ends(o)
  BY DEF Ends
<1>3. o + 1 \notin Ends(o)
  BY DEF Ends
<1>4. QED
  BY <1>1, <1>2, <1>3, EndsFinite, FS_AddElement

\* The end of line in front of what follows the o-th character, or zero.
Behind(o, l) ==
    /\ l \in 0 .. o
    /\ l = 0 => Ends(o) = {}
    /\ l # 0 => l \in Ends(o)
    /\ \A i \in Ends(o) : i <= l

LEMMA PlaceLast ==
    ASSUME NEW o \in Nat, NEW l, Behind(o, l)
    PROVE  PlaceOf(o) = [line |-> Cardinality(Ends(o)) + 1, col |-> o - l]
<1> DEFINE last == IF Ends(o) = {} THEN 0
                   ELSE CHOOSE i \in Ends(o) : \A j \in Ends(o) : j <= i
<1>1. PlaceOf(o) = [line |-> Cardinality(Ends(o)) + 1, col |-> o - last]
  BY DEF PlaceOf, Ends
<1>2. Ends(o) \subseteq Nat
  BY DEF Ends
<1>3. last = l
  <2>1. CASE Ends(o) = {}
    BY <2>1 DEF Behind
  <2>2. CASE Ends(o) # {}
    <3>1. l \in Ends(o) /\ \A j \in Ends(o) : j <= l
      BY <2>2 DEF Behind
    <3>2. \A i \in Ends(o) : (\A j \in Ends(o) : j <= i) => i = l
      BY <1>2, <3>1
    <3>3. QED
      BY <2>2, <3>1, <3>2
  <2>3. QED
    BY <2>1, <2>2
<1>4. QED
  BY <1>1, <1>3

LEMMA BehindExists ==
    ASSUME NEW o \in Nat
    PROVE  \E l : Behind(o, l)
<1>1. CASE Ends(o) = {}
  <2>1. Behind(o, 0)
    BY <1>1 DEF Behind
  <2>2. QED
    BY <2>1
<1>2. CASE Ends(o) # {}
  <2> DEFINE T == {o - i : i \in Ends(o)}
  <2>1. T \in SUBSET Nat /\ T # {}
    BY <1>2 DEF Ends
  <2>2. PICK x \in T : \A y \in T : x <= y
    BY <2>1, LeastElement
  <2>3. PICK l \in Ends(o) : x = o - l
    BY <2>2
  <2>4. l \in 1 .. o
    BY DEF Ends
  <2>5. \A i \in Ends(o) : i <= l
    <3> SUFFICES ASSUME NEW i \in Ends(o) PROVE i <= l
      OBVIOUS
    <3>1. i \in 1 .. o
      BY DEF Ends
    <3>2. o - l <= o - i
      BY <2>2, <2>3
    <3>3. QED
      BY <2>4, <3>1, <3>2
  <2>6. Behind(o, l)
    BY <2>4, <2>5 DEF Behind
  <2>7. QED
    BY <2>6
<1>3. QED
  BY <1>1, <1>2

LEMMA PlaceFirst == PlaceOf(0) = [line |-> 1, col |-> 0]
<1>1. Ends(0) = {}
  BY DEF Ends
<1>2. Behind(0, 0)
  BY <1>1 DEF Behind
<1>3. Cardinality(Ends(0)) = 0
  BY <1>1, FS_EmptySet
<1>4. QED
  BY <1>2, <1>3, PlaceLast

LEMMA PlaceNext ==
    ASSUME NEW o \in Nat
    PROVE  PlaceOf(o + 1) = IF text[o + 1] = "\n" THEN [line |-> PlaceOf(o).line + 1, col |-> 0]
                            ELSE [line |-> PlaceOf(o).line, col |-> PlaceOf(o).col + 1]
<1> DEFINE n == Cardinality(Ends(o))
<1>1. PICK l : Behind(o, l)
  BY BehindExists
<1>2. PlaceOf(o) = [line |-> n + 1, col |-> o - l]
  BY <1>1, PlaceLast
<1>3. n \in Nat /\ l \in 0 .. o
  BY <1>1, EndsFinite DEF Behind
<1>4. CASE text[o + 1] = "\n"
  <2>1. Ends(o + 1) = Ends(o) \cup {o + 1} /\ Cardinality(Ends(o + 1)) = n + 1
    BY <1>4, EndsNext
  <2>2. Behind(o + 1, o + 1)
    BY <1>1, <2>1 DEF Behind, Ends
  <2>3. PlaceOf(o + 1) = [line |-> (n + 1) + 1, col |-> (o + 1) - (o + 1)]
    BY <2>1, <2>2, PlaceLast
  <2> HIDE DEF n
  <2>4. QED
    BY <1>2, <1>3, <1>4, <2>3
<1>5. CASE text[o + 1] # "\n"
  <2>1. Ends(o + 1) = Ends(o)
    BY <1>5, EndsNext
  <2>2. Behind(o + 1, l)
    BY <1>1, <1>3, <2>1 DEF Behind
  <2>3. PlaceOf(o + 1) = [line |-> n + 1, col |-> (o + 1) - l]
    BY <2>1, <2>2, PlaceLast
  <2> HIDE DEF n
  <2>4. QED
    BY <1>2, <1>3, <1>5, <2>3
<1>6. QED
  BY <1>4, <1>5

LEMMA PlaceType ==
    ASSUME NEW o \in Nat
    PROVE  PlaceOf(o) \in [line : Int, col : Int]
<1>1. PICK l : Behind(o, l)
  BY BehindExists
<1>2. PlaceOf(o) = [line |-> Cardinality(Ends(o)) + 1, col |-> o - l]
  BY <1>1, PlaceLast
<1>3. l \in 0 .. o
  BY <1>1 DEF Behind
<1>4. Cardinality(Ends(o)) \in Nat
  BY EndsFinite
<1>5. Cardinality(Ends(o)) + 1 \in Int /\ o - l \in Int
  BY <1>3, <1>4
<1>6. QED
  BY <1>2, <1>5

LEMMA PlaceDiffers ==
    ASSUME NEW o \in Nat, NEW p \in Nat, o < p
    PROVE  PlaceOf(o) # PlaceOf(p)
<1>1. PICK l : Behind(o, l)
  BY BehindExists
<1>2. PICK m : Behind(p, m)
  BY BehindExists
<1> DEFINE n == Cardinality(Ends(o))
           k == Cardinality(Ends(p))
<1>3. /\ PlaceOf(o) = [line |-> n + 1, col |-> o - l]
      /\ PlaceOf(p) = [line |-> k + 1, col |-> p - m]
  BY <1>1, <1>2, PlaceLast
<1>4. n \in Nat /\ k \in Nat /\ IsFiniteSet(Ends(p))
  BY EndsFinite
<1>5. Ends(o) \in SUBSET Ends(p)
  BY DEF Ends
<1>6. CASE Ends(o) = Ends(p)
  <2>1. l = m
    <3>1. CASE Ends(o) = {}
      BY <1>1, <1>2, <1>6, <3>1 DEF Behind
    <3>2. CASE Ends(o) # {}
      <4>1. l \in Ends(o) /\ m \in Ends(o)
        BY <1>1, <1>2, <1>6, <3>2 DEF Behind
      <4>2. l <= m /\ m <= l
        BY <1>1, <1>2, <1>6, <4>1 DEF Behind
      <4>3. QED
        BY <1>1, <1>2, <4>2 DEF Behind
    <3>3. QED
      BY <3>1, <3>2
  <2>2. l \in Int
    BY <1>1 DEF Behind
  <2>3. o - l # p - m
    BY <2>1, <2>2
  <2>4. QED
    BY <1>3, <2>3
<1>7. CASE Ends(o) # Ends(p)
  <2>1. n # k
    BY <1>4, <1>5, <1>7, FS_Subset
  <2> HIDE DEF n, k
  <2>2. n + 1 # k + 1
    BY <1>4, <2>1
  <2>3. QED
    BY <1>3, <2>2
<1>8. QED
  BY <1>6, <1>7

LEMMA OffsetOfPlace ==
    ASSUME NEW o \in 0 .. Len(text), Len(text) \in Nat
    PROVE  OffsetOf(PlaceOf(o)) = o
<1>1. \A p \in 0 .. Len(text) : PlaceOf(p) = PlaceOf(o) => p = o
  <2> SUFFICES ASSUME NEW p \in 0 .. Len(text), p # o
               PROVE  PlaceOf(p) # PlaceOf(o)
    OBVIOUS
  <2>1. p \in Nat /\ o \in Nat /\ (p < o \/ o < p)
    OBVIOUS
  <2>2. QED
    BY <2>1, PlaceDiffers
<1>2. QED
  BY <1>1 DEF OffsetOf

-----------------------------------------------------------------------------

(***************************************************************************)
(* A character is escaped when the run of backslashes in front of it is    *)
(* odd, which is when a backslash that is not escaped is in front of it.   *)
(***************************************************************************)
Run(u, i, k) ==
    /\ k \in 0 .. i
    /\ \A j \in i - k + 1 .. i : u[j] = "\\"
    /\ k < i => u[i - k] # "\\"

LEMMA RunExists ==
    ASSUME NEW u, NEW i \in Nat
    PROVE  \E k : Run(u, i, k)
<1> DEFINE T == {i - j : j \in {h \in 1 .. i : u[h] # "\\"}} \cup {i}
<1>1. T \in SUBSET Nat /\ T # {}
  OBVIOUS
<1>2. PICK k \in T : \A y \in T : k <= y
  BY <1>1, LeastElement
<1>3. k \in 0 .. i
  BY <1>1, <1>2
<1>4. ASSUME NEW j \in i - k + 1 .. i, u[j] # "\\"
      PROVE  FALSE
  <2>1. j \in 1 .. i
    BY <1>3
  <2>2. i - j \in T
    BY <1>4, <2>1
  <2>3. k <= i - j
    BY <1>2, <2>2
  <2>4. QED
    BY <1>3, <2>1, <2>3
<1>5. ASSUME k < i
      PROVE  u[i - k] # "\\"
  <2>1. PICK j \in {h \in 1 .. i : u[h] # "\\"} : k = i - j
    BY <1>2, <1>5
  <2>2. i - k = j
    BY <1>3, <2>1
  <2>3. QED
    BY <2>1, <2>2
<1>6. Run(u, i, k)
  BY <1>3, <1>4, <1>5 DEF Run
<1>7. QED
  BY <1>6

LEMMA RunUnique ==
    ASSUME NEW u, NEW i \in Nat, NEW k, NEW l, Run(u, i, k), Run(u, i, l)
    PROVE  k = l
<1>1. k \in 0 .. i /\ l \in 0 .. i
  BY DEF Run
<1>2. ~ (k < l)
  <2> SUFFICES ASSUME k < l PROVE FALSE
    OBVIOUS
  <2>1. i - k \in i - l + 1 .. i
    BY <1>1
  <2>2. QED
    BY <1>1, <2>1 DEF Run
<1>3. ~ (l < k)
  <2> SUFFICES ASSUME l < k PROVE FALSE
    OBVIOUS
  <2>1. i - l \in i - k + 1 .. i
    BY <1>1
  <2>2. QED
    BY <1>1, <2>1 DEF Run
<1>4. QED
  BY <1>1, <1>2, <1>3

LEMMA RunEscaped ==
    ASSUME NEW u, NEW i \in Nat, NEW k, Run(u, i, k)
    PROVE  Escaped(u, i + 1) <=> k % 2 = 1
<1>1. k \in 0 .. i
  BY DEF Run
<1>2. ASSUME Escaped(u, i + 1)
      PROVE  k % 2 = 1
  <2>1. PICK l \in 1 .. (i + 1) - 1 :
             /\ l % 2 = 1
             /\ \A j \in (i + 1) - l .. (i + 1) - 1 : u[j] = "\\"
             /\ (i + 1) - l > 1 => u[(i + 1) - l - 1] # "\\"
    BY <1>2 DEF Escaped
  <2>2. /\ l \in 1 .. i
        /\ i + 1 - l = i - l + 1 /\ (i + 1) - 1 = i /\ (i + 1) - l - 1 = i - l
        /\ l < i => (i + 1) - l > 1
    OBVIOUS
  <2>3. \A j \in i - l + 1 .. i : u[j] = "\\"
    BY <2>1, <2>2
  <2>4. l < i => u[i - l] # "\\"
    BY <2>1, <2>2
  <2>5. Run(u, i, l)
    BY <2>2, <2>3, <2>4 DEF Run
  <2>6. QED
    BY <2>1, <2>5, RunUnique
<1>3. ASSUME k % 2 = 1
      PROVE  Escaped(u, i + 1)
  <2>1. k \in 1 .. (i + 1) - 1
    BY <1>1, <1>3
  <2>2. /\ (i + 1) - k = i - k + 1 /\ (i + 1) - 1 = i /\ (i + 1) - k - 1 = i - k
        /\ (i + 1) - k > 1 => k < i
    BY <1>1
  <2>3. \A j \in (i + 1) - k .. (i + 1) - 1 : u[j] = "\\"
    BY <2>2 DEF Run
  <2>4. (i + 1) - k > 1 => u[(i + 1) - k - 1] # "\\"
    BY <2>2 DEF Run
  <2>5. QED
    BY <1>3, <2>1, <2>3, <2>4 DEF Escaped
<1>4. QED
  BY <1>2, <1>3

LEMMA EscapedNext ==
    ASSUME NEW u, NEW i \in Nat \ {0}
    PROVE  Escaped(u, i + 1) <=> (u[i] = "\\" /\ ~ Escaped(u, i))
<1> DEFINE h == i - 1
<1>1. h \in Nat /\ h + 1 = i
  OBVIOUS
<1> HIDE DEF h
<1>2. PICK k : Run(u, h, k)
  BY <1>1, RunExists
<1>3. k \in 0 .. h
  BY <1>2 DEF Run
<1>4. Escaped(u, i) <=> k % 2 = 1
  BY <1>1, <1>2, RunEscaped
<1>5. CASE u[i] = "\\"
  <2>1. \A j \in i - (k + 1) + 1 .. i : u[j] = "\\"
    <3> SUFFICES ASSUME NEW j \in i - (k + 1) + 1 .. i
                 PROVE  u[j] = "\\"
      OBVIOUS
    <3>1. j = i \/ j \in h - k + 1 .. h
      BY <1>1, <1>3
    <3>2. QED
      BY <1>2, <1>5, <3>1 DEF Run
  <2>2. k + 1 < i => u[i - (k + 1)] # "\\"
    <3>1. i - (k + 1) = h - k /\ (k + 1 < i => k < h)
      BY <1>1, <1>3
    <3>2. QED
      BY <1>2, <3>1 DEF Run
  <2>3. Run(u, i, k + 1)
    BY <1>1, <1>3, <2>1, <2>2 DEF Run
  <2>4. Escaped(u, i + 1) <=> (k + 1) % 2 = 1
    BY <2>3, RunEscaped
  <2>5. (k + 1) % 2 = 1 <=> k % 2 # 1
    BY <1>3
  <2>6. QED
    BY <1>4, <1>5, <2>4, <2>5
<1>6. CASE u[i] # "\\"
  <2>1. Run(u, i, 0)
    BY <1>6 DEF Run
  <2>2. Escaped(u, i + 1) <=> 0 % 2 = 1
    BY <2>1, RunEscaped
  <2>3. QED
    BY <1>6, <2>2
<1>7. QED
  BY <1>5, <1>6

LEMMA EscapedFirst == ASSUME NEW u PROVE ~ Escaped(u, 1)
  BY DEF Escaped

LEMMA EscapedLocal ==
    ASSUME NEW u, NEW v, NEW i \in Nat, \A j \in 1 .. i - 1 : u[j] = v[j], Escaped(u, i)
    PROVE  Escaped(v, i)
<1>1. PICK k \in 1 .. i - 1 :
           /\ k % 2 = 1
           /\ \A j \in i - k .. i - 1 : u[j] = "\\"
           /\ i - k > 1 => u[i - k - 1] # "\\"
  BY DEF Escaped
<1>2. \A j \in i - k .. i - 1 : j \in 1 .. i - 1
  OBVIOUS
<1>3. i - k > 1 => i - k - 1 \in 1 .. i - 1
  OBVIOUS
<1>4. /\ \A j \in i - k .. i - 1 : v[j] = "\\"
      /\ i - k > 1 => v[i - k - 1] # "\\"
  BY <1>1, <1>2, <1>3
<1>5. QED
  BY <1>1, <1>4 DEF Escaped

(***************************************************************************)
(* What stands between quotes grows by a character or by an escape.        *)
(***************************************************************************)
LEMMA EscapedSame ==
    ASSUME NEW u \in Seq(Characters), NEW v \in Seq(Characters), Len(u) <= Len(v),
           \A i \in 1 .. Len(u) : v[i] = u[i]
    PROVE  /\ \A i \in 1 .. Len(u) : Escaped(v, i) <=> Escaped(u, i)
           /\ \A i \in 1 .. Len(u) : Backslash(v, i) <=> Backslash(u, i)
           /\ \A i \in 1 .. Len(u) : Meaning(v, i) = Meaning(u, i)
<1>1. ASSUME NEW i \in 1 .. Len(u)
      PROVE  Escaped(v, i) <=> Escaped(u, i)
  <2>1. i \in Nat /\ \A j \in 1 .. i - 1 : u[j] = v[j] /\ v[j] = u[j]
    OBVIOUS
  <2>2. Escaped(u, i) => Escaped(v, i)
    BY <2>1, EscapedLocal
  <2>3. Escaped(v, i) => Escaped(u, i)
    BY <2>1, EscapedLocal
  <2>4. QED
    BY <2>2, <2>3
<1>2. QED
  BY <1>1 DEF Backslash, Meaning

LEMMA InsideEnds ==
    ASSUME NEW u \in Seq(Characters), NEW v \in Seq(Characters), Inside(u), Len(u) <= Len(v),
           \A i \in 1 .. Len(u) : v[i] = u[i]
    PROVE  ~ Escaped(v, Len(u) + 1)
<1> DEFINE n == Len(u)
<1>1. n \in Nat
  OBVIOUS
<1>2. CASE n = 0
  BY <1>2, EscapedFirst
<1>3. CASE n # 0
  <2>1. n \in DOMAIN u /\ n \in 1 .. Len(u)
    BY <1>3
  <2>2. ~ Escaped(u, n) => u[n] # "\\"
    <3>1. ~ Escaped(u, n) /\ u[n] = "\\" => n < Len(u)
      BY <2>1 DEF Inside
    <3>2. ~ (n < Len(u))
      BY <1>1
    <3>3. QED
      BY <3>1, <3>2
  <2>3. (Escaped(v, n) <=> Escaped(u, n)) /\ v[n] = u[n]
    BY <2>1, EscapedSame
  <2>4. n \in Nat \ {0}
    BY <1>3
  <2>5. Escaped(v, n + 1) <=> (v[n] = "\\" /\ ~ Escaped(v, n))
    BY <2>4, EscapedNext
  <2>6. QED
    BY <2>2, <2>3, <2>5
<1>4. QED
  BY <1>2, <1>3

\* A character that stands for itself between quotes.
Plain(c) == c \notin {"\"", "\n", "\\"}

LEMMA InsideCharacter ==
    ASSUME NEW u \in Seq(Characters), NEW v \in Seq(Characters), Inside(u),
           Len(v) = Len(u) + 1, \A i \in 1 .. Len(u) : v[i] = u[i],
           Plain(v[Len(v)])
    PROVE  /\ Inside(v) /\ Kept(v) = Kept(u) \cup {Len(v)}
           /\ Meaning(v, Len(v)) = char(v[Len(v)])
<1>0. Len(u) \in Nat /\ Len(u) <= Len(v)
  OBVIOUS
<1>1. /\ \A i \in 1 .. Len(u) : Escaped(v, i) <=> Escaped(u, i)
      /\ \A i \in 1 .. Len(u) : Backslash(v, i) <=> Backslash(u, i)
  BY <1>0, EscapedSame
<1>2. ~ Escaped(v, Len(v))
  BY <1>0, InsideEnds
<1>3. /\ DOMAIN v = 1 .. Len(u) \cup {Len(v)} /\ DOMAIN u = 1 .. Len(u)
      /\ Len(v) \notin 1 .. Len(u) /\ \A i \in 1 .. Len(u) : i < Len(v)
  <2> DEFINE n == Len(u)
             m == Len(v)
  <2>1. DOMAIN v = 1 .. m /\ DOMAIN u = 1 .. n /\ n \in Nat /\ m = n + 1
    BY <1>0
  <2> HIDE DEF n, m
  <2>2. 1 .. m = 1 .. n \cup {m} /\ m \notin 1 .. n /\ \A i \in 1 .. n : i < m
    BY <2>1
  <2>3. QED
    BY <2>1, <2>2 DEF n, m
<1>4. Inside(v)
  <2> SUFFICES ASSUME NEW i \in DOMAIN v
               PROVE  IF Escaped(v, i) THEN v[i] \in Escapes \cup {"0"}
                      ELSE v[i] \notin {"\"", "\n"} /\ (v[i] = "\\" => i < Len(v))
    BY DEF Inside
  <2>1. CASE i = Len(v)
    BY <1>2, <2>1 DEF Plain
  <2>2. CASE i \in 1 .. Len(u)
    <3>1. IF Escaped(u, i) THEN u[i] \in Escapes \cup {"0"}
          ELSE u[i] \notin {"\"", "\n"} /\ (u[i] = "\\" => i < Len(u))
      BY <1>3, <2>2 DEF Inside
    <3>2. v[i] = u[i] /\ i < Len(v)
      BY <1>3, <2>2
    <3>3. QED
      BY <1>1, <2>2, <3>1, <3>2
  <2>3. QED
    BY <1>3, <2>1, <2>2
<1>5. ~ Backslash(v, Len(v))
  BY DEF Backslash, Plain
<1>6. Kept(v) = Kept(u) \cup {Len(v)}
  BY <1>1, <1>3, <1>5 DEF Kept
<1>7. QED
  BY <1>2, <1>4, <1>6 DEF Meaning

LEMMA InsideEscape ==
    ASSUME NEW u \in Seq(Characters), NEW v \in Seq(Characters), Inside(u),
           Len(v) = Len(u) + 2, \A i \in 1 .. Len(u) : v[i] = u[i],
           v[Len(u) + 1] = "\\", v[Len(v)] \in Escapes \cup {"0"}
    PROVE  /\ Inside(v) /\ Kept(v) = Kept(u) \cup {Len(v)}
           /\ Meaning(v, Len(v)) = unescaped(v[Len(v)])
<1> DEFINE n == Len(u) + 1
<1>0. n \in Nat \ {0} /\ Len(v) = n + 1
  OBVIOUS
<1>1. /\ \A i \in 1 .. Len(u) : Escaped(v, i) <=> Escaped(u, i)
      /\ \A i \in 1 .. Len(u) : Backslash(v, i) <=> Backslash(u, i)
  BY EscapedSame
<1>2. ~ Escaped(v, n)
  BY InsideEnds
<1>3. /\ DOMAIN v = 1 .. Len(u) \cup {n, Len(v)} /\ DOMAIN u = 1 .. Len(u)
      /\ n \notin 1 .. Len(u) /\ Len(v) \notin 1 .. Len(u) /\ n # Len(v) /\ n < Len(v)
  OBVIOUS
<1> HIDE DEF n
<1>4. v[n] = "\\"
  BY DEF n
<1>5. Escaped(v, Len(v))
  BY <1>0, <1>2, <1>4, EscapedNext
<1>6. Inside(v)
  <2> SUFFICES ASSUME NEW i \in DOMAIN v
               PROVE  IF Escaped(v, i) THEN v[i] \in Escapes \cup {"0"}
                      ELSE v[i] \notin {"\"", "\n"} /\ (v[i] = "\\" => i < Len(v))
    BY DEF Inside
  <2>1. CASE i = Len(v)
    BY <1>5, <2>1
  <2>2. CASE i = n
    BY <1>2, <1>3, <1>4, <2>2
  <2>3. CASE i \in 1 .. Len(u)
    <3>1. IF Escaped(u, i) THEN u[i] \in Escapes \cup {"0"}
          ELSE u[i] \notin {"\"", "\n"} /\ (u[i] = "\\" => i < Len(u))
      BY <1>3, <2>3 DEF Inside
    <3>2. v[i] = u[i] /\ i < Len(v)
      BY <2>3
    <3>3. QED
      BY <1>1, <2>3, <3>1, <3>2
  <2>4. QED
    BY <1>3, <2>1, <2>2, <2>3
<1>7. Backslash(v, n) /\ ~ Backslash(v, Len(v))
  BY <1>2, <1>4, <1>5 DEF Backslash
<1>8. Kept(v) = Kept(u) \cup {Len(v)}
  BY <1>1, <1>3, <1>7 DEF Kept
<1>9. Meaning(v, Len(v)) = unescaped(v[Len(v)])
  <2>1. \A c \in {"\"", "\\", "/"} : char(c) = c
    BY DEF char, Foreign, EOF
  <2>2. QED
    BY <1>5, <2>1 DEF Meaning, unescaped
<1>10. QED
  BY <1>6, <1>8, <1>9

LEMMA ReadsGrows ==
    ASSUME NEW u \in Seq(Characters), NEW v \in Seq(Characters), Len(u) < Len(v),
           \A i \in 1 .. Len(u) : v[i] = u[i], Kept(v) = Kept(u) \cup {Len(v)},
           NEW S, NEW b \in Seq(S), NEW c \in S, Reads(b, u), c = Meaning(v, Len(v))
    PROVE  Reads(Append(b, c), v)
<1> DEFINE K == Kept(u)
           m == Len(v)
           Upto(T, i) == {j \in T : j <= i}
<1>1. K \in SUBSET (1 .. Len(u)) /\ m \in Nat /\ m \notin K
  BY DEF Kept
<1>2. IsFiniteSet(K) /\ Cardinality(K) = Len(b)
  <2>1. IsFiniteSet(1 .. Len(u))
    BY FS_Interval
  <2>2. IsFiniteSet(K)
    BY <1>1, <2>1, FS_Subset
  <2>3. QED
    BY <2>2 DEF Reads
<1>3. Cardinality(Kept(v)) = Len(b) + 1
  BY <1>1, <1>2, FS_AddElement
<1>4. Len(Append(b, c)) = Len(b) + 1
  OBVIOUS
<1>5. ASSUME NEW i \in Kept(v)
      PROVE  Append(b, c)[Cardinality(Upto(Kept(v), i))] = Meaning(v, i)
  <2>1. CASE i \in K
    <3>1. Upto(Kept(v), i) = Upto(K, i)
      BY <1>1, <2>1
    <3>2. IsFiniteSet(Upto(K, i)) /\ Cardinality(Upto(K, i)) <= Len(b)
      <4>1. Upto(K, i) \in SUBSET K
        OBVIOUS
      <4>2. QED
        BY <1>2, <4>1, FS_Subset
    <3>3. Cardinality(Upto(K, i)) \in Nat /\ Cardinality(Upto(K, i)) # 0
      <4>1. i \in Upto(K, i)
        BY <1>1, <2>1
      <4>2. QED
        BY <3>2, <4>1, FS_CardinalityType, FS_EmptySet
    <3>4. b[Cardinality(Upto(K, i))] = Meaning(u, i)
      BY <2>1 DEF Reads
    <3>5. Meaning(v, i) = Meaning(u, i)
      <4>1. i \in 1 .. Len(u) /\ Len(u) <= Len(v)
        BY <1>1, <2>1
      <4>2. QED
        BY <4>1, EscapedSame
    <3> DEFINE q == Cardinality(Upto(K, i))
    <3>6. q \in 1 .. Len(b) /\ b[q] = Meaning(v, i)
      BY <3>2, <3>3, <3>4, <3>5
    <3> HIDE DEF q
    <3>7. Append(b, c)[q] = b[q]
      BY <3>6
    <3>8. QED
      BY <3>1, <3>6, <3>7 DEF q
  <2>2. CASE i = m
    <3>1. Upto(Kept(v), i) = Kept(v)
      BY <1>1, <2>2
    <3>2. Append(b, c)[Len(b) + 1] = c
      OBVIOUS
    <3>3. QED
      BY <1>3, <2>2, <3>1, <3>2
  <2>3. QED
    BY <2>1, <2>2
<1>6. QED
  BY <1>3, <1>4, <1>5 DEF Reads

-----------------------------------------------------------------------------

(***************************************************************************)
(* Pieces of the text, and what is ahead.                                  *)
(***************************************************************************)
LEMMA CutProperties ==
    ASSUME text \in Seq(Characters), NEW s \in 0 .. Len(text), NEW e \in s .. Len(text)
    PROVE  /\ Cut(s, e) \in Seq(Characters)
           /\ Len(Cut(s, e)) = e - s
           /\ \A i \in 1 .. e - s : Cut(s, e)[i] = text[s + i]
<1> DEFINE a == s + 1
<1>1. /\ a \in Int /\ e \in Int /\ s \in Int
      /\ a >= 1 /\ e <= Len(text) /\ a <= e + 1
      /\ e - a + 1 = e - s
  OBVIOUS
<1>2. Cut(s, e) = SubSeq(text, a, e)
  BY DEF Cut
<1>3. \A i \in 1 .. e - s : s + i = a + i - 1
  BY <1>1
<1>4. \A i \in a .. e : text[i] \in Characters
  BY <1>1
<1> HIDE DEF a
<1>5. /\ SubSeq(text, a, e) \in Seq(Characters)
      /\ Len(SubSeq(text, a, e)) = e - a + 1
      /\ \A i \in 1 .. e - a + 1 : SubSeq(text, a, e)[i] = text[a + i - 1]
  BY <1>1, <1>4, SubSeqProperties
<1>6. QED
  BY <1>1, <1>2, <1>3, <1>5

LEMMA CutOfCut ==
    ASSUME text \in Seq(Characters), NEW s \in 0 .. Len(text), NEW e \in s .. Len(text),
           NEW a \in 1 .. e - s + 1, NEW b \in a - 1 .. e - s
    PROVE  SubSeq(Cut(s, e), a, b) = Cut(s + a - 1, s + b)
<1> DEFINE w == Cut(s, e)
           l == SubSeq(w, a, b)
           r == Cut(s + a - 1, s + b)
<1>1. /\ w \in Seq(Characters) /\ Len(w) = e - s
      /\ \A i \in 1 .. e - s : w[i] = text[s + i]
  BY CutProperties
<1>2. /\ a \in Int /\ b \in Int /\ s \in Int /\ e \in Int /\ a <= b + 1
      /\ s + a - 1 \in 0 .. Len(text) /\ s + b \in s + a - 1 .. Len(text)
      /\ (s + b) - (s + a - 1) = b - a + 1 /\ b - a + 1 \in Nat
  OBVIOUS
<1>3. /\ r \in Seq(Characters) /\ Len(r) = b - a + 1
      /\ \A i \in 1 .. b - a + 1 : r[i] = text[(s + a - 1) + i]
  <2> DEFINE p == s + a - 1
             q == s + b
  <2>1. p \in 0 .. Len(text) /\ q \in p .. Len(text) /\ q - p = b - a + 1
    BY <1>2
  <2> HIDE DEF p, q
  <2>2. /\ Cut(p, q) \in Seq(Characters) /\ Len(Cut(p, q)) = q - p
        /\ \A i \in 1 .. q - p : Cut(p, q)[i] = text[p + i]
    BY <2>1, CutProperties
  <2>3. QED
    BY <2>1, <2>2 DEF p, q
<1>4. /\ l \in Seq(Characters) /\ Len(l) = b - a + 1
      /\ \A i \in 1 .. b - a + 1 : l[i] = w[a + i - 1]
  <2>1. \A i \in a .. b : w[i] \in Characters
    BY <1>1, <1>2
  <2> HIDE DEF w
  <2>2. /\ l \in Seq(Characters) /\ Len(l) = IF a <= b THEN b - a + 1 ELSE 0
        /\ \A i \in 1 .. b - a + 1 : l[i] = w[a + i - 1]
    BY <1>2, <2>1, SubSeqProperties
  <2>3. QED
    BY <1>2, <2>2
<1>5. \A i \in 1 .. b - a + 1 : l[i] = r[i]
  <2> SUFFICES ASSUME NEW i \in 1 .. b - a + 1
               PROVE  l[i] = r[i]
    OBVIOUS
  <2>1. a + i - 1 \in 1 .. e - s /\ s + (a + i - 1) = (s + a - 1) + i
    BY <1>2
  <2>2. l[i] = w[a + i - 1] /\ w[a + i - 1] = text[s + (a + i - 1)] /\ r[i] = text[(s + a - 1) + i]
    BY <1>1, <1>3, <1>4, <2>1
  <2>3. QED
    BY <2>1, <2>2
<1> HIDE DEF w, l, r
<1>6. l = r
  BY <1>3, <1>4, <1>5
<1>7. QED
  BY <1>6 DEF w, l, r

\* A piece of one kind grows by a character of it.
LEMMA FromGrows ==
    ASSUME text \in Seq(Characters), NEW s \in 0 .. Len(text), NEW e \in s .. Len(text) - 1,
           NEW S, From(Cut(s, e), S), text[e + 1] \in S
    PROVE  From(Cut(s, e + 1), S)
<1>1. e + 1 \in s .. Len(text) /\ e \in s .. Len(text)
  OBVIOUS
<1>2. /\ Cut(s, e) \in Seq(Characters) /\ Len(Cut(s, e)) = e - s
      /\ \A i \in 1 .. e - s : Cut(s, e)[i] = text[s + i]
  BY <1>1, CutProperties
<1>3. /\ Cut(s, e + 1) \in Seq(Characters) /\ Len(Cut(s, e + 1)) = (e + 1) - s
      /\ \A i \in 1 .. (e + 1) - s : Cut(s, e + 1)[i] = text[s + i]
  BY <1>1, CutProperties
<1>4. ASSUME NEW i \in 1 .. (e + 1) - s
      PROVE  Cut(s, e + 1)[i] \in S
  <2>1. CASE i \in 1 .. e - s
    <3>1. DOMAIN Cut(s, e) = 1 .. e - s
      BY <1>2
    <3>2. Cut(s, e)[i] \in S
      BY <2>1, <3>1 DEF From
    <3>3. QED
      BY <1>2, <1>3, <2>1, <3>2
  <2>2. CASE i = (e + 1) - s
    <3>1. s + i = e + 1
      BY <2>2
    <3>2. QED
      BY <1>3, <3>1
  <2>3. QED
    BY <2>1, <2>2
<1>5. QED
  BY <1>3, <1>4 DEF From

LEMMA SuffixAhead ==
    ASSUME NEW t \in Seq(Characters), NEW r \in Seq(Characters)
    PROVE  IsSuffix(r, t) <=>
               Len(r) <= Len(t) /\ \A k \in 1 .. Len(r) : r[k] = t[(Len(t) - Len(r)) + k]
<1> DEFINE n == Len(r)
           m == Len(t)
           R == [i \in 1 .. n |-> r[(n - i) + 1]]
           T == [i \in 1 .. m |-> t[(m - i) + 1]]
<1>1. n \in Nat /\ m \in Nat
  OBVIOUS
<1>2. R \in Seq(Characters) /\ Len(R) = n /\ T \in Seq(Characters) /\ Len(T) = m
  OBVIOUS
<1>3. Reverse(r) = R /\ Reverse(t) = T
  BY DEF Reverse
<1>4. IsSuffix(r, t) <=> n <= m /\ SubSeq(R, 1, n) = SubSeq(T, 1, n)
  BY <1>2, <1>3 DEF IsSuffix, IsPrefix
<1>5. \A i \in 1 .. n : R[i] = r[(n - i) + 1]
  OBVIOUS
<1>6. \A i \in 1 .. m : T[i] = t[(m - i) + 1]
  OBVIOUS
<1> HIDE DEF R, T
<1>7. ASSUME n <= m
      PROVE  SubSeq(R, 1, n) = SubSeq(T, 1, n) <=> \A i \in 1 .. n : R[i] = T[i]
  <2>1. /\ SubSeq(R, 1, n) = [i \in 1 .. n |-> R[i]]
        /\ SubSeq(T, 1, n) = [i \in 1 .. n |-> T[i]]
    BY <1>1, <1>2, <1>7
  <2>2. QED
    BY <2>1
<1>8. ASSUME n <= m
      PROVE  (\A i \in 1 .. n : R[i] = T[i]) <=> \A k \in 1 .. n : r[k] = t[(m - n) + k]
  <2>1. ASSUME \A i \in 1 .. n : R[i] = T[i], NEW k \in 1 .. n
        PROVE  r[k] = t[(m - n) + k]
    <3> DEFINE i == (n - k) + 1
    <3>1. i \in 1 .. n /\ i \in 1 .. m /\ (n - i) + 1 = k /\ (m - i) + 1 = (m - n) + k
      BY <1>1, <1>8
    <3>2. R[i] = T[i] /\ R[i] = r[(n - i) + 1] /\ T[i] = t[(m - i) + 1]
      BY <1>5, <1>6, <2>1, <3>1
    <3>3. QED
      BY <3>1, <3>2
  <2>2. ASSUME \A k \in 1 .. n : r[k] = t[(m - n) + k], NEW i \in 1 .. n
        PROVE  R[i] = T[i]
    <3> DEFINE k == (n - i) + 1
    <3>1. k \in 1 .. n /\ i \in 1 .. m /\ (m - n) + k = (m - i) + 1
      BY <1>1, <1>8
    <3>2. r[k] = t[(m - n) + k] /\ R[i] = r[k] /\ T[i] = t[(m - i) + 1]
      BY <1>5, <1>6, <2>2, <3>1
    <3>3. QED
      BY <3>1, <3>2
  <2>3. QED
    BY <2>1, <2>2
<1>9. QED
  BY <1>4, <1>7, <1>8

\* The rest of the text.
Ahead ==
    /\ text \in Seq(Characters) /\ rest \in Seq(Characters)
    /\ Len(text) \in Nat /\ Len(rest) \in Nat /\ Len(rest) <= Len(text)
    /\ at \in 0 .. Len(text) /\ Len(text) = at + Len(rest)
    /\ \A k \in 1 .. Len(rest) : rest[k] = text[at + k]

LEMMA PositionAhead ==
    ASSUME Position
    PROVE  Ahead /\ Len(text) <= MaxBuilder
<1>1. text \in Seq(Characters) /\ Len(text) <= MaxBuilder /\ rest \in Seq(Characters)
  BY TextsAssumption DEF Position
<1>2. Len(rest) <= Len(text) /\ \A k \in 1 .. Len(rest) : rest[k] = text[at + k]
  BY <1>1, SuffixAhead DEF Position, at
<1>3. Len(text) \in Nat /\ Len(rest) \in Nat
  BY <1>1
<1>4. QED
  BY <1>1, <1>2, <1>3 DEF Ahead, at

(***************************************************************************)
(* The next n characters are taken.                                        *)
(***************************************************************************)
LEMMA Taken ==
    ASSUME Ahead, NEW n \in 0 .. Len(rest), text' = text, rest' = SubSeq(rest, n + 1, Len(rest))
    PROVE  Ahead' /\ at' = at + n /\ IsSuffix(rest', text')
<1> DEFINE a == n + 1
           l == Len(rest)
<1>1. rest \in Seq(Characters) /\ l \in Nat /\ a \in 1 .. l + 1
  BY DEF Ahead
<1>2. /\ rest' \in Seq(Characters) /\ Len(rest') = l - n
      /\ \A i \in 1 .. l - n : rest'[i] = rest[n + i]
  <2>1. \A i \in a .. l : rest[i] \in Characters
    BY <1>1
  <2>2. rest' = SubSeq(rest, a, l)
    OBVIOUS
  <2>3. l - a + 1 = l - n /\ \A i \in 1 .. l - n : a + i - 1 = n + i
    BY <1>1
  <2>4. a \in Int /\ l \in Int /\ a <= l + 1
    BY <1>1
  <2> HIDE DEF a, l
  <2>5. /\ SubSeq(rest, a, l) \in Seq(Characters)
        /\ Len(SubSeq(rest, a, l)) = l - a + 1
        /\ \A i \in 1 .. l - a + 1 : SubSeq(rest, a, l)[i] = rest[a + i - 1]
    BY <2>1, <2>4, SubSeqProperties
  <2>6. QED
    BY <2>2, <2>3, <2>5
<1>3. at' = at + n
  <2>1. at = Len(text) - l /\ at' = Len(text) - Len(rest')
    BY DEF at
  <2>2. Len(text) \in Nat
    BY DEF Ahead
  <2> HIDE DEF l
  <2>3. QED
    BY <1>1, <1>2, <2>1, <2>2
<1>4. Ahead'
  <2>1. \A k \in 1 .. Len(rest') : rest'[k] = text'[at' + k]
    <3> SUFFICES ASSUME NEW k \in 1 .. l - n
                 PROVE  rest'[k] = text[(at + n) + k]
      BY <1>2, <1>3
    <3>1. n + k \in 1 .. l /\ at + (n + k) = (at + n) + k
      BY <1>1 DEF Ahead
    <3>2. rest[n + k] = text[at + (n + k)]
      BY <3>1 DEF Ahead
    <3>3. QED
      BY <1>2, <3>1, <3>2
  <2>2. at' \in 0 .. Len(text') /\ Len(text') = at' + Len(rest') /\ Len(rest') \in Nat
    <3> HIDE DEF l
    <3>1. Len(text) \in Nat /\ at \in 0 .. Len(text) /\ Len(text) = at + l /\ n \in 0 .. l
      BY DEF Ahead, l
    <3>2. Len(text') = Len(text) /\ Len(rest') = l - n /\ l \in Nat
      BY <1>1, <1>2
    <3>3. at' \in 0 .. Len(text) /\ Len(text) = at' + (l - n) /\ l - n \in Nat
      BY <1>3, <3>1, <3>2
    <3>4. QED
      BY <3>2, <3>3
  <2>3. Len(rest') <= Len(text') /\ Len(text') \in Nat /\ text' \in Seq(Characters)
    BY <2>2 DEF Ahead
  <2>4. QED
    BY <1>2, <2>1, <2>2, <2>3 DEF Ahead
<1>5. IsSuffix(rest', text')
  <2>1. text' \in Seq(Characters) /\ rest' \in Seq(Characters)
    BY <1>4 DEF Ahead
  <2>2. /\ Len(rest') <= Len(text')
        /\ \A k \in 1 .. Len(rest') : rest'[k] = text'[(Len(text') - Len(rest')) + k]
    BY <1>4 DEF Ahead, at
  <2>3. QED
    BY <2>1, <2>2, SuffixAhead
<1>6. QED
  BY <1>3, <1>4, <1>5

(***************************************************************************)
(* What is said about the text stays, as the text does.                    *)
(***************************************************************************)
LEMMA SameText ==
    ASSUME text' = text
    PROVE  /\ \A o : PlaceOf(o)' = PlaceOf(o)
           /\ \A p : OffsetOf(p)' = OffsetOf(p)
           /\ \A s, e : Cut(s, e)' = Cut(s, e)
           /\ \A s, e : LongestAt(s, e)' = LongestAt(s, e)
           /\ \A k, s, e : Right(k, s, e)' = Right(k, s, e)
<1>1. \A o : PlaceOf(o)' = PlaceOf(o)
  BY DEF PlaceOf
<1>2. \A p : OffsetOf(p)' = OffsetOf(p)
  BY <1>1 DEF OffsetOf
<1>3. \A s, e : Cut(s, e)' = Cut(s, e)
  BY DEF Cut
<1>4. \A s, e : LongestAt(s, e)' = LongestAt(s, e)
  BY <1>3 DEF LongestAt
<1>5. \A k, s, e : Right(k, s, e)' = Right(k, s, e)
  BY <1>1, <1>3, <1>4 DEF Right
<1>6. QED
  BY <1>1, <1>2, <1>3, <1>4, <1>5

LEMMA Emitted ==
    ASSUME Covered, tokens \in Seq(TokenSet), text' = text, Len(text) \in Nat,
           NEW k \in TokenSet, tokens' = Append(tokens, k),
           NEW s \in Int, NEW e \in Int, Right(k, s, e), s = Edge, Edge' = e
    PROVE  Covered'
<1>0. PICK n \in Nat : n = Len(tokens)
  OBVIOUS
<1>1. /\ Len(tokens) = n /\ Len(tokens') = n + 1 /\ tokens'[n + 1] = k
      /\ \A i \in 1 .. n : tokens'[i] = tokens[i]
      /\ DOMAIN tokens = 1 .. n /\ DOMAIN tokens' = 1 .. n + 1
  BY <1>0
<1>2. \A i \in 1 .. n : Begins(i)' = Begins(i)
  BY <1>1, SameText DEF Begins
<1>3. Begins(n + 1)' = s
  <2>1. Begins(n + 1)' = OffsetOf([line |-> k.line, col |-> k.srow])
    BY <1>1, SameText DEF Begins
  <2>2. s \in 0 .. Len(text) /\ [line |-> k.line, col |-> k.srow] = PlaceOf(s)
    <3>1. s \in Int /\ 0 <= s /\ s <= Len(text) /\ [line |-> k.line, col |-> k.srow] = PlaceOf(s)
      BY DEF Right
    <3>2. QED
      BY <3>1
  <2>3. QED
    BY <2>1, <2>2, OffsetOfPlace
<1>4. ASSUME NEW i \in 1 .. n
      PROVE  EndsAt(i)' = EndsAt(i)
  <2>1. EndsAt(i)' = Begins(i + 1)'
    BY <1>1 DEF EndsAt
  <2>2. CASE i = n
    BY <1>1, <1>3, <2>1, <2>2 DEF EndsAt
  <2>3. CASE i # n
    BY <1>1, <1>2, <2>1, <2>3 DEF EndsAt
  <2>4. QED
    BY <2>2, <2>3
<1>5. EndsAt(n + 1)' = e
  BY <1>1 DEF EndsAt
<1>6. tokens' # << >> /\ Begins(1)' = 0
  <2>1. CASE n = 0
    BY <1>1, <1>3, <2>1 DEF Covered
  <2>2. CASE n # 0
    BY <1>1, <1>2, <2>2 DEF Covered
  <2>3. QED
    BY <2>1, <2>2
<1>7. ASSUME NEW i \in 1 .. n + 1
      PROVE  Right(tokens[i], Begins(i), EndsAt(i))'
  <2>1. CASE i = n + 1
    BY <1>1, <1>3, <1>5, <2>1, SameText
  <2>2. CASE i \in 1 .. n
    BY <1>1, <1>2, <1>4, <2>2, SameText DEF Covered
  <2>3. QED
    BY <1>1, <2>1, <2>2
<1>8. QED
  BY <1>1, <1>6, <1>7 DEF Covered

LEMMA Waited ==
    ASSUME Covered, text' = text, tokens' = tokens, Edge' = Edge
    PROVE  Covered'
<1>1. \A i : Begins(i)' = Begins(i)
  BY SameText DEF Begins
<1>2. \A i : EndsAt(i)' = EndsAt(i)
  BY <1>1 DEF EndsAt
<1>3. \A i \in DOMAIN tokens : Right(tokens[i], Begins(i), EndsAt(i))' =
                               Right(tokens[i], Begins(i), EndsAt(i))
  BY <1>1, <1>2, SameText
<1>4. QED
  BY <1>1, <1>3 DEF Covered

-----------------------------------------------------------------------------

(***************************************************************************)
(* Where a loop ends, the word ends.                                       *)
(***************************************************************************)
\* The character behind the e-th, as peek sees it there.
Following(e) == IF e < Len(text) THEN text[e + 1] ELSE EOF

LEMMA LoopEnds ==
    ASSUME text \in Seq(Characters), NEW m \in LoopModes,
           NEW s \in Nat, NEW e \in Nat, s < e, e <= Len(text),
           HalfRead(m, s, e), ~ goes_on(m, Following(e))
    PROVE  LongestAt(s, e)
<1> SUFFICES ASSUME NEW o \in e + 1 .. Len(text), NEW ty \in Names, IsWord(ty, Cut(s, o))
             PROVE  FALSE
  BY DEF LongestAt
<1> DEFINE w == Cut(s, o)
           L == Cut(s, e)
           n == e - s
           c == text[e + 1]
<1>1. Len(text) \in Nat /\ s \in 0 .. Len(text) /\ e \in s .. Len(text) /\ o \in s .. Len(text)
  OBVIOUS
<1>2. /\ L \in Seq(Characters) /\ Len(L) = n
      /\ \A i \in 1 .. n : L[i] = text[s + i]
  BY <1>1, CutProperties
<1>3. /\ w \in Seq(Characters) /\ Len(w) = o - s
      /\ \A i \in 1 .. o - s : w[i] = text[s + i]
  BY <1>1, CutProperties
<1>4. /\ n \in Nat /\ n >= 1 /\ n < o - s /\ o - s \in Nat
      /\ n + 1 \in DOMAIN w /\ w[n + 1] = c /\ w # << >>
  <2>1. n \in Nat /\ n >= 1 /\ n < o - s /\ o - s \in Nat /\ n + 1 \in 1 .. o - s /\ s + (n + 1) = e + 1
    BY <1>1
  <2>2. DOMAIN w = 1 .. o - s
    BY <1>3
  <2>3. w # << >>
    BY <1>3, <2>1
  <2>4. QED
    BY <1>3, <2>1, <2>2, <2>3
<1>5. \A i \in 1 .. n : w[i] = L[i]
  BY <1>1, <1>2, <1>3
<1>6. Following(e) = c /\ c \in Characters
  BY <1>1 DEF Following
<1>7. w[1] = L[1] /\ (n > 1 => w[2] = L[2]) /\ 1 \in DOMAIN L
  BY <1>2, <1>4, <1>5
<1>8. IsWord(ty, w)
  OBVIOUS
<1> HIDE DEF w, L, n, c
<1>9. \A S : From(w, S) => c \in S
  BY <1>4 DEF From
<1>10. \A S : From(L, S) => w[1] \in S
  BY <1>7 DEF From
<1>11. CASE m = "space"
  <2>1. w[1] \in Spaces
    BY <1>10, <1>11 DEF HalfRead, L
  <2>2. c \in Spaces
    BY <1>3, <1>4, <1>8, <1>9, <2>1, SpaceWord
  <2>3. QED
    BY <1>6, <1>11, <2>2 DEF goes_on
<1>12. CASE m = "identifier"
  <2>1. w[1] \in WordStart
    BY <1>7, <1>12 DEF HalfRead, L
  <2>2. c \in WordStart \cup Digits
    BY <1>3, <1>4, <1>8, <1>9, <2>1, NameWord
  <2>3. QED
    BY <1>6, <1>12, <2>2 DEF goes_on
<1>13. CASE m = "comment"
  <2>1. n > 1 /\ w[1] = "/" /\ w[2] = "/"
    BY <1>2, <1>7, <1>13 DEF HalfRead, L
  <2>2. Len(w) > 2
    BY <1>3, <1>4, <2>1
  <2>3. c \in Characters \ {"\n"}
    BY <1>3, <1>8, <1>9, <2>1, <2>2, CommentWord
  <2>4. QED
    BY <1>6, <1>13, <2>3, Kinds DEF goes_on
<1>14. CASE m = "hex"
  <2>1. n > 1 /\ w[1] = "0" /\ w[2] = "x"
    BY <1>2, <1>7, <1>14 DEF HalfRead, L
  <2>2. w[1] \in Digits /\ w[2] \notin Digits
    BY <2>1, Kinds
  <2>3. ~ From(w, Digits)
    <3>1. 2 \in DOMAIN w
      BY <1>3, <1>4, <2>1
    <3>2. QED
      BY <2>2, <3>1 DEF From
  <2>4. From(SubSeq(w, 3, Len(w)), HexDigits)
    BY <1>3, <1>4, <1>8, <2>2, <2>3, NumberWord
  <2>5. Cut(s + 2, o)[n - 1] = c /\ n - 1 \in DOMAIN Cut(s + 2, o)
    <3> DEFINE a == s + 2
    <3>1. a \in 0 .. Len(text) /\ o \in a .. Len(text) /\ n - 1 \in 1 .. o - a
          /\ a + (n - 1) = e + 1
      BY <1>1, <1>4, <2>1 DEF n
    <3> HIDE DEF a
    <3>2. /\ Cut(a, o) \in Seq(Characters) /\ Len(Cut(a, o)) = o - a
          /\ \A i \in 1 .. o - a : Cut(a, o)[i] = text[a + i]
      BY <3>1, CutProperties
    <3>3. QED
      BY <3>1, <3>2 DEF a, c
  <2>6. c \in HexDigits
    <3>1. SubSeq(w, 3, Len(w)) = Cut(s + 2, o)
      <4> DEFINE l == o - s
      <4>1. /\ Len(w) = l /\ l \in Nat /\ l > 2 /\ s + 3 - 1 = s + 2 /\ s + l = o
            /\ 3 \in 1 .. o - s + 1 /\ l \in 3 - 1 .. o - s
        BY <1>1, <1>3, <1>4, <2>1
      <4> HIDE DEF l
      <4>2. SubSeq(Cut(s, o), 3, l) = Cut(s + 3 - 1, s + l)
        BY <1>1, <4>1, CutOfCut
      <4>3. QED
        BY <4>1, <4>2 DEF w
    <3>2. QED
      BY <2>4, <2>5, <3>1 DEF From
  <2>7. QED
    BY <1>6, <1>14, <2>6 DEF goes_on
<1>15. CASE m = "decimal"
  <2>1. w[1] \in Digits
    BY <1>10, <1>15 DEF HalfRead, L
  <2>2. CASE From(w, Digits)
    BY <1>6, <1>9, <1>15, <2>2 DEF goes_on
  <2>3. CASE Len(w) > 2 /\ w[1] = "0" /\ w[2] = "x"
    <3>1. s + 2 > Len(text) \/ text[s + 2] # "x"
      BY <1>7, <1>15, <2>3 DEF HalfRead, L
    <3>2. o - s > 2 /\ 2 \in 1 .. o - s /\ ~ (s + 2 > Len(text))
      BY <1>1, <1>3, <1>4, <2>3
    <3>3. QED
      BY <1>3, <2>3, <3>1, <3>2
  <2>4. QED
    BY <1>3, <1>4, <1>8, <2>1, <2>2, <2>3, NumberWord
<1>16. QED
  BY <1>11, <1>12, <1>13, <1>14, <1>15 DEF LoopModes

(***************************************************************************)
(* What a loop has read is a word, and what it has built is its value; but *)
(* for `0x`, which is a hexadecimal number to it.                          *)
(***************************************************************************)
LEMMA LoopToken ==
    ASSUME text \in Seq(Characters), NEW m \in LoopModes,
           NEW s \in Nat, NEW e \in Nat, s < e, e <= Len(text),
           HalfRead(m, s, e), Built(m, s, e, builder), NEW ty, ty = type_of(m, builder)
    PROVE  /\ ty \in Names
           /\ \/ ty = "Hexadecimal" /\ builder = <<"0", "x">>
              \/ IsWord(ty, Cut(s, e)) /\ Means(ty, Cut(s, e), builder)
<1> DEFINE L == Cut(s, e)
           n == e - s
<1>0. s \in 0 .. Len(text) /\ e \in s .. Len(text) /\ n \in Nat /\ n >= 1
  OBVIOUS
<1>1. L \in Seq(Characters) /\ Len(L) = n /\ n \in Nat /\ n >= 1
  BY <1>0, CutProperties
<1>2. \A c \in Characters \ {Foreign} : char(c) = c
  BY Kinds DEF char
<1>3. HalfRead(m, s, e) /\ Built(m, s, e, builder)
  OBVIOUS
<1>4. CASE m = "space"
  <2>1. ty = "Whitespace" /\ From(L, Spaces) /\ builder = [i \in 1 .. Len(L) |-> char(L[i])]
    BY <1>3, <1>4 DEF HalfRead, Built, LoopModes, type_of
  <2>2. IsWord(ty, L) /\ Means(ty, L, builder)
    BY <2>1 DEF IsWord, Means
  <2>3. QED
    BY <2>1, <2>2 DEF Names
<1>5. CASE m = "comment"
  <2>1. /\ ty = "Comment" /\ builder = [i \in 1 .. Len(L) - 1 |-> char(L[i + 1])]
        /\ Len(L) > 1 /\ L[1] = "/" /\ L[2] = "/" /\ From(L, Characters \ {"\n"})
    BY <1>3, <1>5 DEF HalfRead, Built, LoopModes, type_of
  <2>2. IsWord(ty, L) /\ Means(ty, L, builder)
    BY <2>1 DEF IsWord, Means
  <2>3. QED
    BY <2>1, <2>2 DEF Names
<1>6. CASE m = "decimal"
  <2>1. ty = "Decimal" /\ From(L, Digits) /\ builder = [i \in 1 .. Len(L) |-> char(L[i])]
    BY <1>3, <1>6 DEF HalfRead, Built, LoopModes, type_of
  <2>2. IsWord(ty, L) /\ Means(ty, L, builder)
    BY <2>1 DEF IsWord, Means
  <2>3. QED
    BY <2>1, <2>2 DEF Names
<1>7. CASE m = "identifier"
  <2>1. /\ ty = IF builder \in keywords THEN "Keyword" ELSE "Identifier"
        /\ L[1] \in WordStart /\ From(L, WordStart \cup Digits)
        /\ builder = [i \in 1 .. Len(L) |-> char(L[i])]
    BY <1>3, <1>7 DEF HalfRead, Built, LoopModes, type_of
  <2>2. \A i \in 1 .. Len(L) : char(L[i]) = L[i]
    <3>1. \A i \in 1 .. Len(L) : L[i] \in WordStart \cup Digits
      BY <1>1, <2>1 DEF From
    <3>2. QED
      BY <1>2, <3>1, Kinds
  <2> HIDE DEF L
  <2>3. builder = L
    BY <1>1, <2>1, <2>2
  <2>4. ty \in {"Keyword", "Identifier"}
    BY <2>1
  <2>5. IsWord(ty, L)
    BY <2>1, <2>3 DEF IsWord
  <2>6. Means(ty, L, builder)
    BY <2>1, <2>4 DEF Means
  <2>7. QED
    BY <2>4, <2>5, <2>6 DEF Names, L
<1>8. CASE m = "hex"
  <2>1. /\ ty = "Hexadecimal" /\ Len(L) > 1 /\ L[1] = "0" /\ L[2] = "x"
        /\ From(Cut(s + 2, e), HexDigits)
        /\ builder = [i \in 1 .. Len(L) |-> char(L[i])]
    BY <1>3, <1>8 DEF HalfRead, Built, LoopModes, type_of
  <2>2. SubSeq(L, 3, Len(L)) = Cut(s + 2, e)
    <3>1. /\ Len(L) = n /\ s + 3 - 1 = s + 2 /\ s + n = e /\ n > 1
          /\ 3 \in 1 .. e - s + 1 /\ n \in 3 - 1 .. e - s
      BY <1>0, <1>1, <2>1
    <3> HIDE DEF n
    <3>2. SubSeq(Cut(s, e), 3, n) = Cut(s + 3 - 1, s + n)
      BY <1>0, <3>1, CutOfCut
    <3>3. QED
      BY <3>1, <3>2
  <2> HIDE DEF L
  <2>3. CASE Len(L) > 2
    <3>1. IsWord(ty, L) /\ Means(ty, L, builder)
      BY <2>1, <2>2, <2>3 DEF IsWord, Means
    <3>2. QED
      BY <2>1, <3>1 DEF Names, L
  <2>4. CASE ~ (Len(L) > 2)
    <3>1. Len(L) = 2
      BY <1>1, <2>1, <2>4
    <3>2. char("0") = "0" /\ char("x") = "x"
      BY DEF char, Foreign, EOF
    <3>3. builder = [i \in 1 .. 2 |-> char(L[i])]
      BY <2>1, <3>1
    <3>4. builder = <<char(L[1]), char(L[2])>>
      BY <3>3
    <3>5. QED
      BY <2>1, <3>2, <3>4 DEF Names
  <2>5. QED
    BY <2>3, <2>4
<1>9. QED
  BY <1>4, <1>5, <1>6, <1>7, <1>8 DEF LoopModes

(***************************************************************************)
(* A loop that goes on takes one more character of its kind.               *)
(***************************************************************************)
LEMMA LoopGoesOn ==
    ASSUME text \in Seq(Characters), NEW m \in LoopModes,
           NEW s \in Nat, NEW e \in Nat, s < e, e <= Len(text),
           HalfRead(m, s, e), NEW b \in Seq(Stored), Built(m, s, e, b), goes_on(m, Following(e))
    PROVE  /\ e < Len(text)
           /\ HalfRead(m, s, e + 1)
           /\ Built(m, s, e + 1, Append(b, char(text[e + 1])))
<1> DEFINE c == text[e + 1]
           n == e - s
           L == Cut(s, e)
           M == Cut(s, e + 1)
<1>1. e < Len(text) /\ Following(e) = c
  <2>1. Following(e) # EOF
    BY Kinds DEF goes_on, LoopModes, Spaces, EOF
  <2>2. QED
    BY <2>1 DEF Following
<1>2. /\ s \in 0 .. Len(text) /\ e \in s .. Len(text) - 1 /\ e \in s .. Len(text)
      /\ e + 1 \in s .. Len(text) /\ n \in Nat /\ n >= 1 /\ (e + 1) - s = n + 1
      /\ n \in 1 .. n + 1 /\ n + 1 \in 1 .. n + 1 /\ s + (n + 1) = e + 1
  BY <1>1
<1>3. /\ L \in Seq(Characters) /\ Len(L) = n
      /\ \A i \in 1 .. n : L[i] = text[s + i]
  BY <1>2, CutProperties
<1>4. /\ M \in Seq(Characters) /\ Len(M) = n + 1
      /\ \A i \in 1 .. n + 1 : M[i] = text[s + i]
  BY <1>2, CutProperties
<1>5. \A i \in 1 .. n : M[i] = L[i]
  BY <1>2, <1>3, <1>4
<1>6. M[n + 1] = c /\ c \in Characters /\ M[1] = L[1]
  BY <1>1, <1>2, <1>4, <1>5
<1>7. \A S : From(L, S) /\ c \in S => From(M, S)
  BY <1>2, FromGrows
<1>8. goes_on(m, c)
  BY <1>1
<1>9. HalfRead(m, s, e) /\ Built(m, s, e, b)
  OBVIOUS
<1>10. ASSUME NEW d \in {0, 1}, d <= n, b = [i \in 1 .. n - d |-> char(L[i + d])]
       PROVE  Append(b, char(c)) = [i \in 1 .. (n + 1) - d |-> char(M[i + d])]
  <2> DEFINE k == n - d
             f == [i \in 1 .. k + 1 |-> char(M[i + d])]
  <2>1. k \in Nat /\ (n + 1) - d = k + 1 /\ (k + 1) + d = n + 1
    BY <1>2, <1>10
  <2>2. DOMAIN b = 1 .. k /\ Len(b) = k
    BY <1>10, <2>1
  <2>3. \A i \in 1 .. k : b[i] = char(M[i + d])
    <3> SUFFICES ASSUME NEW i \in 1 .. k PROVE b[i] = char(M[i + d])
      OBVIOUS
    <3>1. i + d \in 1 .. n
      BY <2>1
    <3>2. b[i] = char(L[i + d])
      BY <1>10
    <3>3. QED
      BY <1>5, <3>1, <3>2
  <2>4. char(c) = char(M[(k + 1) + d])
    BY <1>6, <2>1
  <2> HIDE DEF k, M, L, c
  <2> DEFINE x == char(c)
             S == Stored \cup {x}
             A == Append(b, x)
  <2>5. b \in Seq(S) /\ x \in S
    OBVIOUS
  <2>6. char(c) = x /\ x = char(M[(k + 1) + d])
    BY <2>4
  <2> HIDE DEF x, S
  <2>7. A \in Seq(S) /\ Len(A) = k + 1 /\ A[k + 1] = x /\ \A i \in 1 .. k : A[i] = b[i]
    BY <2>1, <2>2, <2>5
  <2> HIDE DEF A
  <2>8. ASSUME NEW i \in 1 .. k + 1
        PROVE  A[i] = char(M[i + d])
    <3>1. CASE i = k + 1
      BY <2>6, <2>7, <3>1
    <3>2. CASE i \in 1 .. k
      BY <2>3, <2>7, <3>2
    <3>3. QED
      BY <2>1, <3>1, <3>2
  <2>9. A = [i \in 1 .. k + 1 |-> char(M[i + d])]
    BY <2>7, <2>8
  <2>10. QED
    BY <2>1, <2>6, <2>9 DEF A
<1>11. m # "comment" => b = [i \in 1 .. Len(L) |-> char(L[i])]
  BY <1>9 DEF Built, LoopModes
<1>12. m # "comment" => Append(b, char(c)) = [i \in 1 .. Len(M) |-> char(M[i])]
  <2> SUFFICES ASSUME m # "comment"
               PROVE  Append(b, char(c)) = [i \in 1 .. Len(M) |-> char(M[i])]
    OBVIOUS
  <2> HIDE DEF L, M, c, n
  <2>1. b = [i \in 1 .. n - 0 |-> char(L[i + 0])]
    <3>1. n - 0 = n /\ \A i \in 1 .. n : i + 0 = i
      BY <1>2
    <3>2. QED
      BY <1>3, <1>11, <3>1
  <2>2. 0 \in {0, 1} /\ 0 <= n
    BY <1>2
  <2>3. Append(b, char(c)) = [i \in 1 .. (n + 1) - 0 |-> char(M[i + 0])]
    BY <1>10, <2>1, <2>2
  <2>4. (n + 1) - 0 = n + 1 /\ \A i \in 1 .. n + 1 : i + 0 = i
    BY <1>2
  <2>5. QED
    BY <1>4, <2>3, <2>4
<1> HIDE DEF L, M, c
<1>13. CASE m = "space"
  <2>1. HalfRead(m, s, e + 1)
    BY <1>7, <1>8, <1>9, <1>13 DEF HalfRead, goes_on, L, M
  <2>2. Built(m, s, e + 1, Append(b, char(c)))
    BY <1>12, <1>13 DEF Built, M, LoopModes
  <2>3. QED
    BY <1>1, <2>1, <2>2 DEF c
<1>14. CASE m = "identifier"
  <2>1. HalfRead(m, s, e + 1)
    BY <1>6, <1>7, <1>8, <1>9, <1>14 DEF HalfRead, goes_on, L, M
  <2>2. Built(m, s, e + 1, Append(b, char(c)))
    BY <1>12, <1>14 DEF Built, M, LoopModes
  <2>3. QED
    BY <1>1, <2>1, <2>2 DEF c
<1>15. CASE m = "decimal"
  <2>1. From(L, Digits) /\ (L[1] = "0" => s + 2 > Len(text) \/ text[s + 2] # "x")
    BY <1>9, <1>15 DEF HalfRead, L
  <2>2. c \in Digits
    BY <1>8, <1>15 DEF goes_on
  <2>3. From(M, Digits) /\ (M[1] = "0" => s + 2 > Len(text) \/ text[s + 2] # "x")
    BY <1>6, <1>7, <2>1, <2>2
  <2>4. HalfRead(m, s, e + 1)
    BY <1>15, <2>3 DEF HalfRead, M
  <2>5. Built(m, s, e + 1, Append(b, char(c)))
    BY <1>12, <1>15 DEF Built, M, LoopModes
  <2>6. QED
    BY <1>1, <2>4, <2>5 DEF c
<1>16. CASE m = "comment"
  <2>1. Len(L) > 1 /\ L[1] = "/" /\ L[2] = "/" /\ From(L, Characters \ {"\n"})
    BY <1>9, <1>16 DEF HalfRead, L
  <2>2. Len(M) > 1 /\ M[1] = "/" /\ M[2] = "/"
    <3>1. n > 1 /\ 2 \in 1 .. n
      BY <1>2, <1>3, <2>1
    <3>2. n + 1 > 1
      BY <3>1, <1>2
    <3>3. QED
      BY <1>4, <1>5, <1>6, <2>1, <3>1, <3>2
  <2>3. c \in Characters \ {"\n"}
    BY <1>6, <1>8, <1>16 DEF goes_on
  <2>4. HalfRead(m, s, e + 1)
    BY <1>7, <1>16, <2>1, <2>2, <2>3 DEF HalfRead, M
  <2>5. b = [i \in 1 .. Len(L) - 1 |-> char(L[i + 1])]
    BY <1>9, <1>16 DEF Built, L
  <2>6. 1 \in {0, 1} /\ 1 <= n
    BY <1>2
  <2>7. Append(b, char(c)) = [i \in 1 .. (n + 1) - 1 |-> char(M[i + 1])]
    <3> HIDE DEF n
    <3>1. b = [i \in 1 .. n - 1 |-> char(L[i + 1])]
      BY <1>3, <2>5
    <3>2. QED
      BY <1>10, <2>6, <3>1
  <2>8. Append(b, char(c)) = [i \in 1 .. Len(M) - 1 |-> char(M[i + 1])]
    BY <1>4, <2>7
  <2>9. Built(m, s, e + 1, Append(b, char(c)))
    BY <1>16, <2>8 DEF Built, M
  <2>10. QED
    BY <1>1, <2>4, <2>9 DEF c
<1>17. CASE m = "hex"
  <2>1. /\ Len(L) > 1 /\ L[1] = "0" /\ L[2] = "x" /\ From(Cut(s + 2, e), HexDigits)
    BY <1>9, <1>17 DEF HalfRead, L
  <2>2. n > 1 /\ 2 \in 1 .. n /\ s + 2 \in 0 .. Len(text) /\ e \in s + 2 .. Len(text) - 1
    BY <1>2, <1>3, <2>1
  <2>3. Len(M) > 1 /\ M[1] = "0" /\ M[2] = "x"
    <3>1. n + 1 > 1
      BY <1>2
    <3>2. QED
      BY <1>4, <1>5, <1>6, <2>1, <2>2, <3>1
  <2>4. c \in HexDigits
    BY <1>8, <1>17 DEF goes_on
  <2>5. From(Cut(s + 2, e + 1), HexDigits)
    <3> DEFINE a == s + 2
    <3>1. a \in 0 .. Len(text) /\ e \in a .. Len(text) - 1 /\ From(Cut(a, e), HexDigits)
      BY <2>1, <2>2
    <3> HIDE DEF a
    <3>2. From(Cut(a, e + 1), HexDigits)
      BY <2>4, <3>1, FromGrows DEF c
    <3>3. QED
      BY <3>2 DEF a
  <2>6. HalfRead(m, s, e + 1)
    BY <1>17, <2>3, <2>5 DEF HalfRead, M
  <2>7. Built(m, s, e + 1, Append(b, char(c)))
    BY <1>12, <1>17 DEF Built, M, LoopModes
  <2>8. QED
    BY <1>1, <2>6, <2>7 DEF c
<1>18. QED
  BY <1>13, <1>14, <1>15, <1>16, <1>17 DEF LoopModes

-----------------------------------------------------------------------------

(***************************************************************************)
(* What getchar does to the place.                                         *)
(***************************************************************************)
LEMMA Advance ==
    ASSUME Position, NEW n \in {1, 2}, n <= Len(rest), n = 2 => rest[1] # "\n",
           text' = text, getchar(n)
    PROVE  /\ Ahead' /\ at' = at + n /\ at' <= Len(text)
           /\ text' \in Texts /\ rest' \in Seq(Characters) /\ IsSuffix(rest', text')
           /\ ([line |-> line, col |-> col] = PlaceOf(at))'
<1>1. Ahead
  BY PositionAhead
<1>2. n \in 0 .. Len(rest) /\ rest' = SubSeq(rest, n + 1, Len(rest))
  BY <1>1 DEF getchar, Ahead
<1>3. Ahead' /\ at' = at + n /\ IsSuffix(rest', text')
  BY <1>1, <1>2, Taken
<1>4. at \in Nat /\ PlaceOf(at) = [line |-> line, col |-> col] /\ line \in Int /\ col \in Int
  <2>1. at \in Nat
    BY <1>1 DEF Ahead
  <2>2. PlaceOf(at) = [line |-> line, col |-> col]
    BY DEF Position
  <2>3. PlaceOf(at) \in [line : Int, col : Int]
    BY <2>1, PlaceType
  <2>4. QED
    BY <2>1, <2>2, <2>3
<1>5. \A k \in 1 .. n : rest[k] = text[at + k]
  BY <1>1, <1>2 DEF Ahead
<1>6. peek(n) = text[at + n] /\ peek(n) # EOF
  <2>1. n \in 1 .. n /\ n \in 1 .. Len(rest)
    BY <1>1 DEF Ahead
  <2>2. peek(n) = rest[n] /\ rest[n] \in Characters
    BY <1>1, <2>1 DEF peek, Ahead
  <2>3. QED
    BY <1>5, <2>1, <2>2, Kinds
<1>7. /\ line' = IF text[at + n] = "\n" THEN line + 1 ELSE line
      /\ col' = IF text[at + n] = "\n" THEN 0 ELSE col + n
  BY <1>6 DEF getchar
<1>8. PlaceOf(at + n) = [line |-> line', col |-> col']
  <2>1. CASE n = 1
    <3>1. PlaceOf(at + 1) = IF text[at + 1] = "\n" THEN [line |-> line + 1, col |-> 0]
                            ELSE [line |-> line, col |-> col + 1]
      BY <1>4, PlaceNext
    <3>2. QED
      BY <1>7, <2>1, <3>1
  <2>2. CASE n = 2
    <3>1. text[at + 1] # "\n"
      BY <1>5, <2>2
    <3>a. PlaceOf(at + 1) = IF text[at + 1] = "\n" THEN [line |-> line + 1, col |-> 0]
                            ELSE [line |-> line, col |-> col + 1]
      BY <1>4, PlaceNext
    <3>2. PlaceOf(at + 1) = [line |-> line, col |-> col + 1]
      BY <3>1, <3>a
    <3>3. (at + 1) + 1 = at + 2 /\ (col + 1) + 1 = col + 2 /\ at + 1 \in Nat
      BY <1>4
    <3>4. PlaceOf((at + 1) + 1) =
            IF text[(at + 1) + 1] = "\n" THEN [line |-> PlaceOf(at + 1).line + 1, col |-> 0]
            ELSE [line |-> PlaceOf(at + 1).line, col |-> PlaceOf(at + 1).col + 1]
      BY <3>3, PlaceNext
    <3>5. QED
      BY <1>7, <2>2, <3>2, <3>3, <3>4
  <2>3. QED
    BY <2>1, <2>2
<1>9. ([line |-> line, col |-> col] = PlaceOf(at))'
  BY <1>3, <1>8, SameText
<1>10. text' \in Texts
  BY DEF Position
<1>11. at' <= Len(text)
  BY <1>3 DEF Ahead
<1>12. QED
  BY <1>3, <1>9, <1>10, <1>11 DEF Ahead

\* The token that begins here, and the one that began before.
LEMMA BeginsHere ==
    ASSUME Position, text' = text, start' = here
    PROVE  from' = at /\ start' = PlaceOf(from)'
<1>1. Ahead /\ PlaceOf(at) = here
  BY PositionAhead DEF Position, here
<1>2. OffsetOf(PlaceOf(at)) = at
  BY <1>1, OffsetOfPlace DEF Ahead
<1>3. from' = at
  <2>1. PICK p : p = start'
    OBVIOUS
  <2>2. from' = OffsetOf(p)'
    BY <2>1 DEF from
  <2>3. OffsetOf(p)' = OffsetOf(p)
    BY SameText
  <2>4. QED
    BY <1>1, <1>2, <2>1, <2>2, <2>3
<1>4. QED
  BY <1>1, <1>3, SameText

LEMMA BeganBefore ==
    ASSUME Position, text' = text, start' = start, mode # "start"
    PROVE  from' = from /\ start' = PlaceOf(from)' /\ from \in 0 .. at
<1>1. from \in 0 .. at /\ start = PlaceOf(from)
  BY DEF Position
<1>2. from' = from
  BY SameText DEF from
<1>3. QED
  BY <1>1, <1>2, SameText

LEMMA StoredCharacter ==
    /\ \A c \in Characters : char(c) \in Stored
    /\ \A c \in Escapes \cup {"0"} : unescaped(c) \in Stored
    /\ Unread \in Stored
<1>1. \A c \in Characters : char(c) \in Stored
  BY DEF char, Stored
<1>2. {"\"", "\\", "/"} \subseteq Characters \ {Foreign}
  BY DEF Characters, Signs, Operators, Foreign
<1>3. \A c \in Escapes \cup {"0"} : unescaped(c) \in Stored
  BY <1>2 DEF unescaped, Stored
<1>4. QED
  BY <1>1, <1>3 DEF Stored

LEMMA PeekNext ==
    ASSUME Ahead
    PROVE  peek(1) = Following(at) /\ (rest # << >> <=> at < Len(text))
<1>1. Len(rest) \in Nat /\ Len(text) = at + Len(rest) /\ at \in Nat
  BY DEF Ahead
<1>2. rest # << >> <=> Len(rest) >= 1
  BY <1>1 DEF Ahead
<1>3. at < Len(text) <=> 1 <= Len(rest)
  BY <1>1
<1>4. 1 <= Len(rest) => rest[1] = text[at + 1]
  BY <1>1 DEF Ahead
<1>5. QED
  BY <1>2, <1>3, <1>4 DEF peek, Following

LEMMA LoopShort ==
    ASSUME text \in Seq(Characters), NEW m \in LoopModes,
           NEW s \in Nat, NEW e \in Nat, s < e, e <= Len(text),
           NEW b \in Seq(Stored), Built(m, s, e, b)
    PROVE  Len(b) <= e - s
<1>1. Len(Cut(s, e)) = e - s /\ e - s \in Nat
  <2>1. s \in 0 .. Len(text) /\ e \in s .. Len(text)
    OBVIOUS
  <2>2. QED
    BY <2>1, CutProperties
<1> DEFINE n == Len(Cut(s, e))
<1>2. \/ b = [i \in 1 .. n |-> char(Cut(s, e)[i])]
      \/ b = [i \in 1 .. n - 1 |-> char(Cut(s, e)[i + 1])]
  BY DEF Built, LoopModes
<1>3. n \in Nat /\ n >= 1
  BY <1>1
<1>4. DOMAIN b = 1 .. n \/ DOMAIN b = 1 .. n - 1
  BY <1>2
<1> HIDE DEF n
<1>5. Len(b) = n \/ Len(b) = n - 1
  BY <1>3, <1>4
<1>6. QED
  BY <1>1, <1>3, <1>5 DEF n

LEMMA StillReading ==
    ASSUME text' = text, NEW m, NEW s, NEW e, NEW b, mode' = m, from' = s, at' = e, builder' = b,
           s < e, HalfRead(m, s, e), Built(m, s, e, b)
    PROVE  Reading'
<1>1. HalfRead(m, s, e)'
  <2>1. \A p, q : Cut(p, q)' = Cut(p, q)
    BY SameText
  <2>2. QED
    BY <2>1 DEF HalfRead
<1>2. Built(m, s, e, b)'
  <2>1. \A p, q : Cut(p, q)' = Cut(p, q)
    BY SameText
  <2>2. QED
    BY <2>1 DEF Built
<1>3. QED
  BY <1>1, <1>2 DEF Reading

LEMMA GoOnStep ==
    ASSUME ScanInv, GoOn
    PROVE  ScanInv'
<1>1. /\ Position /\ Shapes /\ Covered /\ Reading
      /\ phase = "scanning" /\ mode \in LoopModes /\ mode # "start"
      /\ text' = text /\ start' = start /\ phase' = phase
  BY DEF ScanInv, GoOn, LoopModes
<1>2. Ahead /\ Len(text) <= MaxBuilder /\ MaxBuilder \in Nat
  BY <1>1, PositionAhead, TextsAssumption
<1>3. from' = from /\ start' = PlaceOf(from)' /\ from \in 0 .. at
  BY <1>1, BeganBefore
<1>4. /\ from < at /\ HalfRead(mode, from, at) /\ Built(mode, from, at, builder)
      /\ builder \in Seq(Stored)
  BY <1>1 DEF Reading, Shapes
<1>5. /\ from \in Nat /\ at \in Nat /\ at <= Len(text) /\ text \in Seq(Characters)
      /\ Len(text) \in Nat /\ at \in Int /\ from \in Int
  BY <1>2, <1>3 DEF Ahead
<1>6. peek(1) = Following(at) /\ (rest # << >> <=> at < Len(text))
  BY <1>2, PeekNext
<1>7. Edge = from
  BY <1>1 DEF Edge
<1>8. CASE goes_on(mode, peek(1))
  <2> DEFINE c == text[at + 1]
  <2>1. /\ getchar(1) /\ mode' = mode /\ tokens' = tokens
        /\ builder' = built_with(char(peek(1)))
    BY <1>1, <1>8 DEF GoOn, Enter
  <2>2. /\ at < Len(text)
        /\ HalfRead(mode, from, at + 1)
        /\ Built(mode, from, at + 1, Append(builder, char(c)))
    BY <1>1, <1>4, <1>5, <1>6, <1>8, LoopGoesOn
  <2>3. builder' = Append(builder, char(c))
    <3>1. Len(builder) <= at - from
      BY <1>1, <1>4, <1>5, LoopShort
    <3>2. Len(builder) < MaxBuilder
      BY <1>2, <1>4, <1>5, <2>2, <3>1
    <3>3. QED
      BY <1>6, <2>1, <2>2, <3>2 DEF built_with, Following
  <2>4. 1 <= Len(rest)
    BY <1>2, <2>2 DEF Ahead
  <2>5. /\ Ahead' /\ at' = at + 1 /\ at' <= Len(text)
        /\ text' \in Texts /\ rest' \in Seq(Characters) /\ IsSuffix(rest', text')
        /\ ([line |-> line, col |-> col] = PlaceOf(at))'
    BY <1>1, <2>1, <2>4, Advance
  <2>6. Position'
    <3>1. from' \in 0 .. at'
      BY <1>3, <1>5, <2>5
    <3>2. QED
      BY <1>3, <2>5, <3>1 DEF Position
  <2>7. Shapes'
    <3>1. c \in Characters
      BY <1>5, <2>2
    <3>2. builder' \in Seq(Stored)
      BY <1>4, <2>3, <3>1, StoredCharacter
    <3>3. QED
      BY <1>1, <2>1, <3>2 DEF Shapes
  <2>8. Covered'
    <3>1. Edge' = from
      BY <1>1, <1>3, <2>1 DEF Edge
    <3>2. QED
      BY <1>1, <1>7, <2>1, <3>1, Waited
  <2>9. Reading'
    <3>1. from < at + 1 /\ mode' = mode
      BY <1>4, <1>5, <2>1
    <3>2. QED
      BY <1>1, <1>3, <2>2, <2>3, <2>5, <3>1, StillReading
  <2>10. Refused'
    BY <1>1 DEF Refused
  <2>11. QED
    BY <2>6, <2>7, <2>8, <2>9, <2>10 DEF ScanInv
<1>9. CASE ~ goes_on(mode, peek(1))
  <2> DEFINE ty == type_of(mode, builder)
             k == TokenOf(ty, builder, start)
  <2>1. /\ tokens' = Append(tokens, k) /\ mode' = "start" /\ builder' = << >>
        /\ rest' = rest /\ line' = line /\ col' = col
    BY <1>1, <1>9 DEF GoOn, Emit
  <2>2. at' = at
    BY <1>1, <2>1 DEF at
  <2>3. /\ ty \in Names
        /\ \/ ty = "Hexadecimal" /\ builder = <<"0", "x">>
           \/ IsWord(ty, Cut(from, at)) /\ Means(ty, Cut(from, at), builder)
    BY <1>1, <1>4, <1>5, LoopToken
  <2>4. LongestAt(from, at)
    BY <1>1, <1>4, <1>5, <1>6, <1>9, LoopEnds
  <2>5. start = PlaceOf(from) /\ start \in [line : Int, col : Int]
    BY <1>1, <1>5, PlaceType DEF Position
  <2>6. /\ k \in TokenSet /\ k.type = ty /\ k.value = builder
        /\ [line |-> k.line, col |-> k.srow] = start
    BY <1>4, <2>3, <2>5 DEF TokenOf, TokenSet
  <2> HIDE DEF k, ty
  <2>7. Right(k, from, at)
    BY <1>4, <1>5, <2>3, <2>4, <2>5, <2>6 DEF Right, Bare
  <2>8. Covered'
    <3>1. Edge' = at
      BY <1>1, <2>1, <2>2 DEF Edge
    <3>2. tokens \in Seq(TokenSet)
      BY <1>1 DEF Shapes
    <3>3. QED
      BY <1>1, <1>5, <1>7, <2>1, <2>6, <2>7, <3>1, <3>2, Emitted
  <2>9. Position'
    <3>1. ([line |-> line, col |-> col] = PlaceOf(at))'
      BY <1>1, <2>1, <2>2, SameText DEF Position
    <3>2. QED
      BY <1>1, <2>1, <2>2, <3>1 DEF Position
  <2>10. Shapes'
    <3>1. tokens' \in Seq(TokenSet)
      BY <1>1, <2>1, <2>6 DEF Shapes
    <3>2. << >> \in Seq(Stored)
      OBVIOUS
    <3>3. QED
      BY <1>1, <2>1, <3>1, <3>2 DEF Shapes
  <2>11. Reading' /\ Refused'
    BY <1>1, <2>1 DEF Reading, Refused
  <2>12. QED
    BY <2>8, <2>9, <2>10, <2>11 DEF ScanInv
<1>10. QED
  BY <1>8, <1>9

-----------------------------------------------------------------------------

(***************************************************************************)
(* A token begins: with a loop of its own, or it is read at once.          *)
(***************************************************************************)
LEMMA StartEnters ==
    ASSUME ScanInv, phase = "scanning", mode = "start", text' = text, phase' = phase, start' = here,
           NEW n \in {1, 2}, n <= Len(rest), n = 2 => rest[1] # "\n", getchar(n),
           NEW m \in LoopModes \cup {"string", "character"}, NEW b \in Seq(Stored), Enter(m, b),
           HalfRead(m, at, at + n), Built(m, at, at + n, b)
    PROVE  ScanInv'
<1>1. Position /\ Shapes /\ Covered /\ m # "start" /\ Ahead
  BY PositionAhead DEF ScanInv, LoopModes
<1>2. /\ Ahead' /\ at' = at + n /\ at' <= Len(text)
      /\ text' \in Texts /\ rest' \in Seq(Characters) /\ IsSuffix(rest', text')
      /\ ([line |-> line, col |-> col] = PlaceOf(at))'
  BY <1>1, Advance
<1>3. from' = at /\ start' = PlaceOf(from)'
  BY <1>1, BeginsHere
<1>4. mode' = m /\ builder' = b /\ tokens' = tokens
  BY DEF Enter
<1>5. at \in Nat /\ at < at + n /\ at \in 0 .. at + n
  BY <1>1 DEF Ahead
<1>6. Position'
  BY <1>2, <1>3, <1>5 DEF Position
<1>7. Shapes'
  BY <1>1, <1>4 DEF Shapes
<1>8. Covered'
  <2>1. Edge = at /\ Edge' = at
    BY <1>1, <1>3, <1>4 DEF Edge
  <2>2. QED
    BY <1>1, <1>4, <2>1, Waited
<1>9. Reading'
  BY <1>2, <1>3, <1>4, <1>5, StillReading
<1>10. Refused'
  BY DEF Refused
<1>11. QED
  BY <1>6, <1>7, <1>8, <1>9, <1>10 DEF ScanInv

LEMMA StartEmits ==
    ASSUME ScanInv, phase = "scanning", mode = "start", text' = text, phase' = phase,
           NEW n \in {1, 2}, n <= Len(rest), n = 2 => rest[1] # "\n", getchar(n),
           NEW ty \in Names, NEW v \in Seq(Stored), Emit(ty, v, here),
           IsWord(ty, Cut(at, at + n)), Means(ty, Cut(at, at + n), v), LongestAt(at, at + n)
    PROVE  ScanInv'
<1>1. Position /\ Shapes /\ Covered /\ Ahead
  BY PositionAhead DEF ScanInv
<1>2. /\ Ahead' /\ at' = at + n /\ at' <= Len(text)
      /\ text' \in Texts /\ rest' \in Seq(Characters) /\ IsSuffix(rest', text')
      /\ ([line |-> line, col |-> col] = PlaceOf(at))'
  BY <1>1, Advance
<1> DEFINE k == TokenOf(ty, v, here)
<1>3. mode' = "start" /\ builder' = << >> /\ tokens' = Append(tokens, k)
  BY DEF Emit
<1>4. at \in Nat /\ at \in Int /\ at + n \in Int /\ Len(text) \in Nat /\ at + n <= Len(text) /\ at < at + n
  BY <1>1, <1>2 DEF Ahead
<1>5. here = PlaceOf(at) /\ here \in [line : Int, col : Int]
  BY <1>1, <1>4, PlaceType DEF Position, here
<1>6. /\ k \in TokenSet /\ k.type = ty /\ k.value = v
      /\ [line |-> k.line, col |-> k.srow] = here
  BY <1>5 DEF TokenOf, TokenSet
<1> HIDE DEF k
<1>7. Right(k, at, at + n)
  BY <1>4, <1>5, <1>6 DEF Right
<1>8. Covered'
  <2>1. Edge = at /\ Edge' = at + n
    BY <1>2, <1>3 DEF Edge
  <2>2. tokens \in Seq(TokenSet)
    BY <1>1 DEF Shapes
  <2>3. QED
    BY <1>1, <1>3, <1>4, <1>6, <1>7, <2>1, <2>2, Emitted
<1>9. Position'
  BY <1>2, <1>3 DEF Position
<1>10. Shapes'
  <2>1. tokens' \in Seq(TokenSet) /\ << >> \in Seq(Stored)
    BY <1>1, <1>3, <1>6 DEF Shapes
  <2>2. QED
    BY <1>1, <1>3, <2>1 DEF Shapes
<1>11. Reading' /\ Refused'
  BY <1>3 DEF Reading, Refused
<1>12. QED
  BY <1>8, <1>9, <1>10, <1>11 DEF ScanInv

LEMMA WordFrom ==
    ASSUME text \in Seq(Characters), NEW s \in Nat, NEW o \in s + 1 .. Len(text)
    PROVE  /\ Cut(s, o) \in Seq(Characters) /\ Cut(s, o) # << >> /\ Len(Cut(s, o)) = o - s
           /\ \A i \in 1 .. o - s : Cut(s, o)[i] = text[s + i]
           /\ Cut(s, o)[1] = text[s + 1]
           /\ o > s + 1 => Cut(s, o)[2] = text[s + 2]
<1>1. s \in 0 .. Len(text) /\ o \in s .. Len(text) /\ 1 \in 1 .. o - s /\ (o > s + 1 => 2 \in 1 .. o - s)
  OBVIOUS
<1> DEFINE w == Cut(s, o)
<1>2. w \in Seq(Characters) /\ Len(w) = o - s /\ \A i \in 1 .. o - s : w[i] = text[s + i]
  BY <1>1, CutProperties
<1> HIDE DEF w
<1>3. w # << >>
  BY <1>1, <1>2
<1>4. QED
  BY <1>1, <1>2, <1>3 DEF w

LEMMA SignLongest ==
    ASSUME text \in Seq(Characters), NEW s \in Nat, s < Len(text),
           text[s + 1] \in Punctuation \cup {"\n"}
    PROVE  LongestAt(s, s + 1)
<1> SUFFICES ASSUME NEW o \in s + 1 + 1 .. Len(text), NEW ty \in Names, IsWord(ty, Cut(s, o))
             PROVE  FALSE
  BY DEF LongestAt
<1>1. o \in s + 1 .. Len(text) /\ o - s # 1
  OBVIOUS
<1>2. Len(Cut(s, o)) = 1
  BY <1>1, WordFrom, SignWord
<1>3. QED
  BY <1>1, <1>2, WordFrom

LEMMA OperatorLongest ==
    ASSUME text \in Seq(Characters), NEW s \in Nat, s < Len(text), text[s + 1] \in Operators,
           ~ (text[s + 1] = "/" /\ s + 2 <= Len(text) /\ text[s + 2] = "/")
    PROVE  /\ ~ (s + 2 <= Len(text) /\ text[s + 2] = "=") => LongestAt(s, s + 1)
           /\ s + 2 <= Len(text) => LongestAt(s, s + 2)
<1>1. ASSUME NEW o \in s + 2 .. Len(text), NEW ty \in Names, IsWord(ty, Cut(s, o))
      PROVE  o = s + 2 /\ text[s + 2] = "="
  <2> DEFINE w == Cut(s, o)
  <2>1. o \in s + 1 .. Len(text) /\ o > s + 1 /\ s + 2 <= Len(text)
    OBVIOUS
  <2>2. /\ w \in Seq(Characters) /\ w # << >> /\ Len(w) = o - s
        /\ w[1] = text[s + 1] /\ w[2] = text[s + 2]
    BY <2>1, WordFrom
  <2>3. IsWord(ty, w)
    BY <1>1
  <2> HIDE DEF w
  <2>4. w[1] \in Operators /\ ~ (w[1] = "/" /\ w[2] = "/")
    BY <2>1, <2>2
  <2>5. Len(w) = 1 \/ (Len(w) = 2 /\ w[2] = "=")
    BY <2>2, <2>3, <2>4, OperatorWord
  <2>6. QED
    BY <2>1, <2>2, <2>5
<1>2. ASSUME ~ (s + 2 <= Len(text) /\ text[s + 2] = "=")
      PROVE  LongestAt(s, s + 1)
  <2> SUFFICES ASSUME NEW o \in s + 1 + 1 .. Len(text), NEW ty \in Names, IsWord(ty, Cut(s, o))
               PROVE  FALSE
    BY DEF LongestAt
  <2>1. o \in s + 2 .. Len(text) /\ s + 2 <= Len(text)
    OBVIOUS
  <2>2. QED
    BY <1>1, <1>2, <2>1
<1>3. ASSUME s + 2 <= Len(text)
      PROVE  LongestAt(s, s + 2)
  <2> SUFFICES ASSUME NEW o \in s + 2 + 1 .. Len(text), NEW ty \in Names, IsWord(ty, Cut(s, o))
               PROVE  FALSE
    BY DEF LongestAt
  <2>1. o \in s + 2 .. Len(text) /\ o # s + 2
    OBVIOUS
  <2>2. QED
    BY <1>1, <2>1
<1>4. QED
  BY <1>2, <1>3

LEMMA FewCharacters ==
    ASSUME text \in Seq(Characters), NEW s \in Nat, s <= Len(text)
    PROVE  /\ Cut(s, s) = << >>
           /\ s + 1 <= Len(text) => Cut(s, s + 1) = <<text[s + 1]>>
           /\ s + 2 <= Len(text) => Cut(s, s + 2) = <<text[s + 1], text[s + 2]>>
<1>1. Len(text) \in Nat /\ s \in 0 .. Len(text)
  OBVIOUS
<1>2. Cut(s, s) = << >>
  <2>1. Cut(s, s) \in Seq(Characters) /\ Len(Cut(s, s)) = s - s
    BY <1>1, CutProperties
  <2> DEFINE w == Cut(s, s)
  <2> HIDE DEF w
  <2>2. w = << >>
    BY <2>1 DEF w
  <2>3. QED
    BY <2>2 DEF w
<1>3. ASSUME s + 1 <= Len(text)
      PROVE  Cut(s, s + 1) = <<text[s + 1]>>
  <2> DEFINE w == Cut(s, s + 1)
  <2>1. s + 1 \in s + 1 .. Len(text) /\ (s + 1) - s = 1
    BY <1>1, <1>3
  <2>2. w \in Seq(Characters) /\ Len(w) = 1 /\ w[1] = text[s + 1]
    BY <2>1, WordFrom
  <2> HIDE DEF w
  <2>3. w = <<text[s + 1]>>
    BY <2>2
  <2>4. QED
    BY <2>3 DEF w
<1>4. ASSUME s + 2 <= Len(text)
      PROVE  Cut(s, s + 2) = <<text[s + 1], text[s + 2]>>
  <2> DEFINE w == Cut(s, s + 2)
  <2>1. s + 2 \in s + 1 .. Len(text) /\ (s + 2) - s = 2 /\ s + 2 > s + 1
    BY <1>1, <1>4
  <2>2. w \in Seq(Characters) /\ Len(w) = 2 /\ w[1] = text[s + 1] /\ w[2] = text[s + 2]
    BY <2>1, WordFrom
  <2> HIDE DEF w
  <2>3. w = <<text[s + 1], text[s + 2]>>
    BY <2>2
  <2>4. QED
    BY <2>3 DEF w
<1>5. QED
  BY <1>2, <1>3, <1>4

\* A loop begins with its first characters.
LEMMA LoopBegins ==
    ASSUME text \in Seq(Characters), NEW s \in Nat, s < Len(text), NEW c, c = text[s + 1]
    PROVE  /\ c = "\"" => HalfRead("string", s, s + 1) /\ Built("string", s, s + 1, << >>)
           /\ c \in Spaces => HalfRead("space", s, s + 1) /\ Built("space", s, s + 1, <<c>>)
           /\ c \in WordStart =>
                HalfRead("identifier", s, s + 1) /\ Built("identifier", s, s + 1, <<c>>)
           /\ c = "'" => HalfRead("character", s, s + 1) /\ Built("character", s, s + 1, <<c>>)
           /\ c \in Digits /\ (c = "0" => s + 2 > Len(text) \/ text[s + 2] # "x") =>
                HalfRead("decimal", s, s + 1) /\ Built("decimal", s, s + 1, <<c>>)
<1>1. /\ Cut(s, s + 1) = <<c>> /\ Cut(s + 1, s + 1) = << >>
      /\ s + 1 \in Nat /\ s + 1 <= Len(text) /\ Len(text) \in Nat
  <2>1. s + 1 \in Nat /\ s + 1 <= Len(text) /\ Len(text) \in Nat /\ s <= Len(text)
    OBVIOUS
  <2>2. QED
    BY <2>1, FewCharacters
<1>2. c \in Characters /\ (c \in Spaces \cup WordStart \cup Digits => char(c) = c)
  <2>1. c \in Characters
    BY <1>1
  <2>2. QED
    BY <2>1, Kinds DEF char, Spaces, Foreign, EOF
<1>3. <<c>>[1] = c /\ Len(<<c>>) = 1
  OBVIOUS
<1>4. \A S : c \in S => From(<<c>>, S)
  BY DEF From
<1>5. c \in Spaces \cup WordStart \cup Digits => <<c>> = [i \in 1 .. Len(<<c>>) |-> char(<<c>>[i])]
  BY <1>2
<1>6. HalfRead("string", s, s + 1) <=> c = "\"" /\ Inside(<< >>)
  BY <1>1, <1>3 DEF HalfRead
<1>7. Inside(<< >>) /\ Reads(<< >>, << >>)
  <2>1. Kept(<< >>) = {}
    BY DEF Kept
  <2>2. Cardinality({}) = 0
    BY FS_EmptySet
  <2>3. Reads(<< >>, << >>)
    BY <2>1, <2>2 DEF Reads
  <2>4. DOMAIN << >> = {}
    OBVIOUS
  <2>5. Inside(<< >>)
    BY <2>4, Zenon DEF Inside
  <2>6. QED
    BY <2>3, <2>5
<1>8. Built("string", s, s + 1, << >>)
  <2>1. Len(<< >>) = 0
    OBVIOUS
  <2>2. ASSUME NEW b
        PROVE  Built("string", s, s + 1, b) <=>
                   (s + 1 < Len(text) => Len(b) < Len(Cut(s, s + 1)) /\ Reads(b, Cut(s + 1, s + 1)))
    BY DEF Built, LoopModes
  <2>3. Len(Cut(s, s + 1)) = 1 /\ Reads(<< >>, Cut(s + 1, s + 1))
    BY <1>1, <1>3, <1>7, Zenon
  <2>4. Len(<< >>) < Len(Cut(s, s + 1))
    <3> DEFINE p == Len(<< >>)
               q == Len(Cut(s, s + 1))
    <3>1. p = 0 /\ q = 1
      BY <2>1, <2>3
    <3> HIDE DEF p, q
    <3>2. p < q
      BY <3>1
    <3>3. QED
      BY <3>2 DEF p, q
  <2>5. QED
    BY <2>2, <2>3, <2>4, Zenon
<1>9. c = "\"" => HalfRead("string", s, s + 1) /\ Built("string", s, s + 1, << >>)
  BY <1>6, <1>7, <1>8
<1>10. c \in Spaces => HalfRead("space", s, s + 1) /\ Built("space", s, s + 1, <<c>>)
  BY <1>1, <1>4, <1>5 DEF HalfRead, Built, LoopModes
<1>11. c \in WordStart => HalfRead("identifier", s, s + 1) /\ Built("identifier", s, s + 1, <<c>>)
  BY <1>1, <1>3, <1>4, <1>5 DEF HalfRead, Built, LoopModes
<1>12. c = "'" => HalfRead("character", s, s + 1) /\ Built("character", s, s + 1, <<c>>)
  <2>1. HalfRead("character", s, s + 1) <=> s + 1 = s + 1 /\ Cut(s, s + 1)[1] = "'"
    BY DEF HalfRead
  <2>2. Built("character", s, s + 1, <<c>>)
    BY DEF Built, LoopModes
  <2>3. QED
    BY <1>1, <1>3, <2>1, <2>2, Zenon
<1>13. c \in Digits /\ (c = "0" => s + 2 > Len(text) \/ text[s + 2] # "x") =>
         HalfRead("decimal", s, s + 1) /\ Built("decimal", s, s + 1, <<c>>)
  BY <1>1, <1>3, <1>4, <1>5 DEF HalfRead, Built, LoopModes
<1>14. QED
  BY <1>9, <1>10, <1>11, <1>12, <1>13

LEMMA LoopBeginsTwice ==
    ASSUME text \in Seq(Characters), NEW s \in Nat, s + 2 <= Len(text)
    PROVE  /\ text[s + 1] = "/" /\ text[s + 2] = "/" =>
                HalfRead("comment", s, s + 2) /\ Built("comment", s, s + 2, <<"/">>)
           /\ text[s + 1] = "0" /\ text[s + 2] = "x" =>
                HalfRead("hex", s, s + 2) /\ Built("hex", s, s + 2, <<"0", "x">>)
<1>1. /\ Cut(s, s + 2) = <<text[s + 1], text[s + 2]>> /\ Cut(s + 2, s + 2) = << >>
  <2>1. s + 2 \in Nat /\ s + 2 <= Len(text) /\ s <= Len(text)
    OBVIOUS
  <2>2. QED
    BY <2>1, FewCharacters
<1>2. ASSUME NEW a, NEW b
      PROVE  Len(<<a, b>>) = 2 /\ <<a, b>>[1] = a /\ <<a, b>>[2] = b
  OBVIOUS
<1>3. char("/") = "/" /\ char("0") = "0" /\ char("x") = "x"
  <2>1. {"0", "x"} \subseteq Characters \ {Foreign}
    BY Kinds, CharactersAssumption DEF Characters, Signs, Alpha, Foreign
  <2>2. QED
    BY <2>1, Kinds DEF char, Foreign, EOF
<1>4. CASE text[s + 1] = "/" /\ text[s + 2] = "/"
  <2>1. Cut(s, s + 2) = <<"/", "/">>
    BY <1>1, <1>4
  <2>2. From(<<"/", "/">>, Characters \ {"\n"})
    <3>1. "/" \in Characters \ {"\n"}
      BY DEF Characters, Signs, Operators
    <3> DEFINE S == Characters \ {"\n"}
    <3> HIDE DEF S
    <3>2. From(<<"/", "/">>, S)
      BY <3>1 DEF From, S
    <3>3. QED
      BY <3>2 DEF S
  <2>3. HalfRead("comment", s, s + 2)
    <3> DEFINE L == Cut(s, s + 2)
    <3>1. HalfRead("comment", s, s + 2) <=>
            Len(L) > 1 /\ L[1] = "/" /\ L[2] = "/" /\ From(L, Characters \ {"\n"})
      BY DEF HalfRead
    <3>2. Len(L) = 2 /\ L[1] = "/" /\ L[2] = "/"
      BY <1>2, <2>1
    <3> HIDE DEF L
    <3>3. From(L, Characters \ {"\n"})
      BY <2>1, <2>2 DEF L
    <3>4. QED
      BY <3>1, <3>2, <3>3
  <2>4. <<"/">> = [i \in 1 .. Len(<<"/", "/">>) - 1 |-> char(<<"/", "/">>[i + 1])]
    BY <1>2, <1>3
  <2>5. Built("comment", s, s + 2, <<"/">>)
    BY <2>1, <2>4 DEF Built
  <2>6. QED
    BY <2>3, <2>5, <1>4
<1>5. CASE text[s + 1] = "0" /\ text[s + 2] = "x"
  <2>1. Cut(s, s + 2) = <<"0", "x">>
    BY <1>1, <1>5
  <2>2. From(<< >>, HexDigits)
    BY DEF From
  <2>3. HalfRead("hex", s, s + 2)
    BY <1>1, <1>2, <2>1, <2>2 DEF HalfRead
  <2>4. <<"0", "x">> = [i \in 1 .. Len(<<"0", "x">>) |-> char(<<"0", "x">>[i])]
    BY <1>2, <1>3
  <2>5. Built("hex", s, s + 2, <<"0", "x">>)
    BY <2>1, <2>4 DEF Built, LoopModes
  <2>6. QED
    BY <2>3, <2>5, <1>5
<1>6. QED
  BY <1>4, <1>5

LEMMA StartStep ==
    ASSUME ScanInv, Start
    PROVE  ScanInv'
<1> DEFINE c == peek(1)
<1>1. /\ phase = "scanning" /\ mode = "start" /\ rest # << >>
      /\ text' = text /\ phase' = phase /\ start' = here
  BY DEF Start
<1>2. /\ Ahead /\ Len(text) \in Nat /\ at \in Nat /\ text \in Seq(Characters) /\ rest \in Seq(Characters)
      /\ Len(text) = at + Len(rest) /\ Len(rest) \in Nat
  BY PositionAhead DEF ScanInv, Ahead
<1>3. at < Len(text) /\ 1 <= Len(rest) /\ c = text[at + 1] /\ c = rest[1] /\ c \in Characters
  <2>1. at < Len(text) /\ c = Following(at)
    BY <1>1, <1>2, PeekNext
  <2>2. 1 <= Len(rest) /\ c = text[at + 1]
    BY <1>2, <2>1 DEF Following
  <2>3. QED
    BY <1>2, <2>1, <2>2 DEF peek
<1>4. peek(2) # EOF => 2 <= Len(rest) /\ at + 2 <= Len(text) /\ peek(2) = text[at + 2]
  <2>1. peek(2) # EOF => 2 <= Len(rest) /\ peek(2) = rest[2]
    BY DEF peek
  <2>2. 2 <= Len(rest) => rest[2] = text[at + 2]
    BY <1>2 DEF Ahead
  <2>3. QED
    BY <1>2, <2>1, <2>2
<1>5. at + 2 <= Len(text) => peek(2) = text[at + 2]
  <2>1. at + 2 <= Len(text) => 2 <= Len(rest)
    BY <1>2
  <2>2. 2 <= Len(rest) => rest[2] = text[at + 2]
    BY <1>2 DEF Ahead
  <2>3. QED
    BY <2>1, <2>2 DEF peek
<1>6. Cut(at, at + 1) = <<c>>
  BY <1>2, <1>3, FewCharacters
<1>7. c \in Characters \ {Foreign} => <<c>> \in Seq(Stored) /\ char(c) = c
  <2> HIDE DEF c
  <2>1. c \in Characters \ {Foreign} => c \in Stored /\ char(c) = c
    BY Kinds DEF Stored, char
  <2>2. QED
    BY <2>1
<1>8. << >> \in Seq(Stored)
  OBVIOUS
<1>9. \A n : n = 1 => n \in {1, 2} /\ n <= Len(rest) /\ (n = 2 => rest[1] # "\n")
  BY <1>3
<1> HIDE DEF c
<1>10. CASE c = "\"" /\ getchar(1) /\ Enter("string", << >>)
  <2>1. HalfRead("string", at, at + 1) /\ Built("string", at, at + 1, << >>)
    BY <1>2, <1>3, <1>10, LoopBegins
  <2>2. QED
    BY <1>1, <1>3, <1>8, <1>9, <1>10, <2>1, StartEnters
<1>11. CASE is_comment /\ getchar(2) /\ Enter("comment", <<c>>)
  <2>1. c = "/" /\ peek(2) = "/" /\ "/" # EOF /\ "/" # "\n" /\ "/" # Foreign
    BY <1>11 DEF is_comment, EOF, Foreign, c
  <2>2. at + 2 <= Len(text) /\ 2 <= Len(rest) /\ text[at + 1] = "/" /\ text[at + 2] = "/"
    BY <1>3, <1>4, <2>1
  <2>3. HalfRead("comment", at, at + 2) /\ Built("comment", at, at + 2, <<c>>)
    BY <1>2, <2>1, <2>2, LoopBeginsTwice
  <2>4. <<c>> \in Seq(Stored) /\ rest[1] # "\n"
    BY <1>3, <1>7, <2>1
  <2>5. 2 \in {1, 2} /\ "comment" \in LoopModes \cup {"string", "character"}
    BY DEF LoopModes
  <2>6. QED
    BY <1>1, <1>11, <2>2, <2>3, <2>4, <2>5, StartEnters
<1>12. CASE c = "\n" /\ getchar(1) /\ Emit("Nl", <<c>>, here)
  <2>1. "Nl" \in Names /\ IsWord("Nl", Cut(at, at + 1)) /\ c # Foreign
    BY <1>6, <1>12 DEF Names, IsWord, Foreign
  <2>2. LongestAt(at, at + 1)
    BY <1>2, <1>3, <1>12, SignLongest
  <2>3. Means("Nl", Cut(at, at + 1), <<c>>)
    <3>1. Means("Nl", <<c>>, <<c>>)
      BY <1>3, <1>7, <2>1 DEF Means
    <3>2. QED
      BY <1>6, <3>1
  <2>4. <<c>> \in Seq(Stored)
    BY <1>3, <1>7, <2>1
  <2>5. QED
    BY <1>1, <1>9, <1>12, <2>1, <2>2, <2>3, <2>4, StartEmits
<1>13. CASE c \in Spaces /\ getchar(1) /\ Enter("space", <<c>>)
  <2>1. HalfRead("space", at, at + 1) /\ Built("space", at, at + 1, <<c>>)
    BY <1>2, <1>3, <1>13, LoopBegins
  <2>2. <<c>> \in Seq(Stored) /\ "space" \in LoopModes \cup {"string", "character"}
    BY <1>3, <1>7, <1>13 DEF Spaces, Foreign, LoopModes
  <2>3. QED
    BY <1>1, <1>9, <1>13, <2>1, <2>2, StartEnters
<1>14. CASE c \in WordStart /\ getchar(1) /\ Enter("identifier", <<c>>)
  <2>1. HalfRead("identifier", at, at + 1) /\ Built("identifier", at, at + 1, <<c>>)
    BY <1>2, <1>3, <1>14, LoopBegins
  <2>2. <<c>> \in Seq(Stored) /\ "identifier" \in LoopModes \cup {"string", "character"}
    BY <1>3, <1>7, <1>14, Kinds DEF LoopModes
  <2>3. QED
    BY <1>1, <1>9, <1>14, <2>1, <2>2, StartEnters
<1>15. CASE c = "'" /\ getchar(1) /\ Enter("character", <<c>>)
  <2>1. HalfRead("character", at, at + 1) /\ Built("character", at, at + 1, <<c>>)
    BY <1>2, <1>3, <1>15, LoopBegins
  <2>2. <<c>> \in Seq(Stored)
    BY <1>3, <1>7, <1>15 DEF Foreign
  <2>3. QED
    BY <1>1, <1>9, <1>15, <2>1, <2>2, StartEnters
<1>16. CASE is_hex /\ getchar(2) /\ Enter("hex", <<"0", "x">>)
  <2>1. c = "0" /\ peek(2) = "x" /\ "x" # EOF /\ "0" # "\n"
    BY <1>16, Kinds, CharactersAssumption DEF is_hex, c, Alpha
  <2>2. at + 2 <= Len(text) /\ 2 <= Len(rest) /\ text[at + 1] = "0" /\ text[at + 2] = "x"
    BY <1>3, <1>4, <2>1
  <2>3. HalfRead("hex", at, at + 2) /\ Built("hex", at, at + 2, <<"0", "x">>)
    BY <1>2, <2>2, LoopBeginsTwice
  <2>4. {"0", "x"} \subseteq Characters \ {Foreign}
    BY Kinds, CharactersAssumption DEF Characters, Signs, Alpha, Foreign
  <2>5. <<"0", "x">> \in Seq(Stored) /\ rest[1] # "\n"
    BY <1>3, <2>1, <2>4 DEF Stored
  <2>6. 2 \in {1, 2} /\ "hex" \in LoopModes \cup {"string", "character"}
    BY DEF LoopModes
  <2>7. QED
    BY <1>1, <1>16, <2>2, <2>3, <2>5, <2>6, StartEnters
<1>17. CASE c \in Digits /\ ~ is_hex /\ getchar(1) /\ Enter("decimal", <<c>>)
  <2>1. c = "0" => at + 2 > Len(text) \/ text[at + 2] # "x"
    <3>1. at + 2 > Len(text) \/ at + 2 <= Len(text)
      BY <1>2
    <3>2. QED
      BY <1>5, <1>17, <3>1 DEF is_hex, c
  <2>2. HalfRead("decimal", at, at + 1) /\ Built("decimal", at, at + 1, <<c>>)
    BY <1>2, <1>3, <1>17, <2>1, LoopBegins
  <2>3. <<c>> \in Seq(Stored) /\ "decimal" \in LoopModes \cup {"string", "character"}
    BY <1>3, <1>7, <1>17, Kinds DEF LoopModes
  <2>4. QED
    BY <1>1, <1>9, <1>17, <2>2, <2>3, StartEnters
<1>18. ASSUME c \in Operators, ~ is_comment
       PROVE  ~ (text[at + 1] = "/" /\ at + 2 <= Len(text) /\ text[at + 2] = "/")
  BY <1>3, <1>5, <1>18 DEF is_comment, c
<1>19. CASE c \in Operators /\ ~ is_comment /\ peek(2) = "="
              /\ getchar(2) /\ Emit("Operator", <<c, "=">>, here)
  <2>1. /\ at + 2 <= Len(text) /\ 2 <= Len(rest) /\ text[at + 2] = "="
    BY <1>4, <1>19 DEF EOF
  <2>2. Cut(at, at + 2) = <<c, "=">>
    <3>1. at <= Len(text)
      BY <1>2, <1>3
    <3>2. Cut(at, at + 2) = <<text[at + 1], text[at + 2]>>
      BY <1>2, <2>1, <3>1, FewCharacters
    <3>3. QED
      BY <1>3, <2>1, <3>2
  <2>3. c # Foreign /\ c # "\n" /\ "=" \in Characters \ {Foreign}
    BY <1>19 DEF Operators, Foreign, Characters, Signs
  <2>4. <<c, "=">> \in Seq(Stored) /\ char(c) = c /\ char("=") = "="
    <3>1. c \in Stored /\ "=" \in Stored
      BY <1>3, <2>3 DEF Stored
    <3>2. char(c) = c /\ char("=") = "="
      BY <1>3, <2>3, Kinds DEF char
    <3>3. QED
      BY <3>1, <3>2
  <2>5. "Operator" \in Names /\ IsWord("Operator", <<c, "=">>)
    <3>1. <<c, "=">>[1] = c /\ <<c, "=">>[2] = "=" /\ Len(<<c, "=">>) = 2
      OBVIOUS
    <3>2. c \in Operators
      BY <1>19
    <3>3. QED
      BY <3>1, <3>2, Zenon DEF Names, IsWord
  <2>6. Means("Operator", <<c, "=">>, <<c, "=">>)
    BY <2>4 DEF Means
  <2>7. LongestAt(at, at + 2)
    BY <1>2, <1>3, <1>18, <1>19, <2>1, OperatorLongest
  <2>8. 2 \in {1, 2} /\ (2 = 2 => rest[1] # "\n")
    BY <1>3, <2>3
  <2>9. QED
    BY <1>1, <1>19, <2>1, <2>2, <2>4, <2>5, <2>6, <2>7, <2>8, StartEmits
<1>20. CASE c \in Operators /\ ~ is_comment /\ peek(2) # "="
              /\ getchar(1) /\ Emit("Operator", <<c>>, here)
  <2>1. ~ (at + 2 <= Len(text) /\ text[at + 2] = "=")
    BY <1>5, <1>20
  <2>2. c # Foreign
    BY <1>20 DEF Operators, Foreign
  <2>3. <<c>> \in Seq(Stored) /\ char(c) = c
    BY <1>3, <1>7, <2>2
  <2>4. "Operator" \in Names /\ IsWord("Operator", <<c>>)
    <3>1. <<c>>[1] = c /\ Len(<<c>>) = 1
      OBVIOUS
    <3>2. QED
      BY <1>20, <3>1, Zenon DEF Names, IsWord
  <2>5. Means("Operator", <<c>>, <<c>>)
    BY <2>3 DEF Means
  <2>6. LongestAt(at, at + 1)
    BY <1>2, <1>3, <1>18, <1>20, <2>1, OperatorLongest
  <2>7. QED
    BY <1>1, <1>6, <1>9, <1>20, <2>3, <2>4, <2>5, <2>6, StartEmits
<1>21. CASE c \in Punctuation /\ getchar(1) /\ Emit(Punct(c), <<c>>, here)
  <2>1. c # Foreign
    BY <1>21 DEF Punctuation, Foreign
  <2>2. <<c>> \in Seq(Stored) /\ char(c) = c
    BY <1>3, <1>7, <2>1
  <2>3. Punct(c) \in Names /\ IsWord(Punct(c), <<c>>)
    <3>1. <<c>>[1] = c /\ Len(<<c>>) = 1
      OBVIOUS
    <3>2. Punct(c) \in Names
      BY <1>21 DEF Names
    <3>3. QED
      BY <1>21, <3>1, <3>2, Zenon DEF IsWord
  <2>4. Means(Punct(c), <<c>>, <<c>>)
    <3>1. Punct(c) # "StringLiteral" /\ Punct(c) # "Comment"
      BY <1>21 DEF Punct, Punctuation
    <3>2. QED
      BY <2>2, <3>1 DEF Means
  <2>5. LongestAt(at, at + 1)
    BY <1>2, <1>3, <1>21, SignLongest
  <2>6. QED
    BY <1>1, <1>6, <1>9, <1>21, <2>2, <2>3, <2>4, <2>5, StartEmits
<1>22. QED
  <2> USE DEF c
  <2>1. QED
    BY <1>10, <1>11, <1>12, <1>13, <1>14, <1>15, <1>16, <1>17, <1>19, <1>20, <1>21, Zenon DEF Start

\* Nothing more is read.
LEMMA Halted ==
    ASSUME ScanInv, text' = text, rest' = rest, line' = line, col' = col, mode' = mode,
           builder' = builder, tokens' = tokens
    PROVE  /\ at' = at /\ (mode = "start" \/ from' = from => Reading')
           /\ text' \in Texts /\ rest' \in Seq(Characters) /\ IsSuffix(rest', text')
           /\ ([line |-> line, col |-> col] = PlaceOf(at))'
<1>1. Position /\ Reading
  BY DEF ScanInv
<1>2. at' = at
  BY DEF at
<1>3. mode = "start" \/ from' = from => Reading'
  <2>1. CASE mode = "start"
    BY <2>1 DEF Reading
  <2>2. ASSUME mode # "start", from' = from
        PROVE  Reading'
    <3>1. from < at /\ HalfRead(mode, from, at) /\ Built(mode, from, at, builder)
      BY <1>1, <2>2 DEF Reading
    <3>2. QED
      BY <1>2, <2>2, <3>1, StillReading
  <2>3. QED
    BY <2>1, <2>2
<1>4. ([line |-> line, col |-> col] = PlaceOf(at))'
  BY <1>1, <1>2, SameText DEF Position
<1>5. QED
  BY <1>1, <1>2, <1>3, <1>4 DEF Position

\* A source is refused where no word begins.
LEMMA Thrown ==
    ASSUME ScanInv, phase = "scanning", Throw, IF mode = "start" THEN start' = here ELSE start' = start,
           LongestAt(Edge, Edge)
    PROVE  ScanInv'
<1>1. /\ Position /\ Shapes /\ Covered /\ Ahead
      /\ text' = text /\ rest' = rest /\ line' = line /\ col' = col /\ mode' = mode
      /\ builder' = builder /\ tokens' = tokens /\ phase' = "error"
  BY PositionAhead DEF ScanInv, Throw
<1>2. from' = Edge /\ Edge' = Edge /\ start' = PlaceOf(from)' /\ Edge \in 0 .. at
  <2>1. CASE mode = "start"
    <3>1. from' = at /\ start' = PlaceOf(from)' /\ Edge = at
      BY <1>1, <2>1, BeginsHere DEF Edge
    <3>2. at \in 0 .. at
      BY <1>1 DEF Ahead
    <3>3. QED
      BY <1>1, <3>1, <3>2 DEF Edge
  <2>2. CASE mode # "start"
    <3>1. from' = from /\ start' = PlaceOf(from)' /\ from \in 0 .. at /\ Edge = from
      BY <1>1, <2>2, BeganBefore DEF Edge
    <3>2. QED
      BY <1>1, <3>1 DEF Edge
  <2>3. QED
    BY <2>1, <2>2
<1>3. /\ at' = at /\ (mode = "start" \/ from' = from => Reading')
      /\ text' \in Texts /\ rest' \in Seq(Characters) /\ IsSuffix(rest', text')
      /\ ([line |-> line, col |-> col] = PlaceOf(at))'
  BY <1>1, Halted
<1>4. Reading'
  <2>1. mode # "start" => Edge = from
    BY DEF Edge
  <2>2. QED
    BY <1>2, <1>3, <2>1
<1>5. Position'
  BY <1>2, <1>3 DEF Position
<1>6. Shapes'
  BY <1>1 DEF Shapes
<1>7. Covered'
  BY <1>1, <1>2, Waited
<1>8. Refused'
  <2>1. PICK s : s = Edge
    OBVIOUS
  <2>2. LongestAt(s, s)' = LongestAt(s, s)
    BY <1>1, SameText
  <2>3. QED
    BY <1>2, <2>1, <2>2 DEF Refused
<1>9. QED
  BY <1>4, <1>5, <1>6, <1>7, <1>8 DEF ScanInv

LEMMA RejectStep ==
    ASSUME ScanInv, Reject
    PROVE  ScanInv'
<1>1. /\ phase = "scanning" /\ mode = "start" /\ rest # << >> /\ peek(1) \notin Known
      /\ start' = here /\ Throw /\ Ahead
  BY PositionAhead DEF Reject, ScanInv
<1>2. at \in Nat /\ text \in Seq(Characters) /\ at < Len(text) /\ text[at + 1] \notin Known
  BY <1>1, PeekNext DEF Ahead, Following
<1>3. LongestAt(at, at)
  <2> SUFFICES ASSUME NEW o \in at + 1 .. Len(text), NEW ty \in Names
               PROVE  ~ IsWord(ty, Cut(at, o))
    BY DEF LongestAt
  <2>1. Cut(at, o) \in Seq(Characters) /\ Cut(at, o) # << >> /\ Cut(at, o)[1] = text[at + 1]
    BY <1>2, WordFrom
  <2>2. QED
    BY <1>2, <2>1, UnknownWord
<1>4. Edge = at
  BY <1>1 DEF Edge
<1>5. QED
  BY <1>1, <1>3, <1>4, Thrown

LEMMA FinishStep ==
    ASSUME ScanInv, Finish
    PROVE  ScanInv'
<1>1. /\ Position /\ Shapes /\ Covered
      /\ mode = "start" /\ rest = << >> /\ phase = "scanning" /\ phase' = "done"
      /\ text' = text /\ rest' = rest /\ line' = line /\ col' = col /\ mode' = mode
      /\ builder' = builder /\ tokens' = tokens
  BY DEF Finish, ScanInv
<1>2. /\ at' = at /\ Reading'
      /\ text' \in Texts /\ rest' \in Seq(Characters) /\ IsSuffix(rest', text')
      /\ ([line |-> line, col |-> col] = PlaceOf(at))'
  BY <1>1, Halted
<1>3. Position'
  BY <1>1, <1>2 DEF Position
<1>4. Shapes' /\ Refused'
  BY <1>1 DEF Shapes, Refused
<1>5. Covered'
  <2>1. Edge' = Edge
    BY <1>1, <1>2 DEF Edge
  <2>2. QED
    BY <1>1, <2>1, Waited
<1>6. QED
  BY <1>2, <1>3, <1>4, <1>5 DEF ScanInv

LEMMA StutterStep ==
    ASSUME ScanInv, UNCHANGED vars
    PROVE  ScanInv'
<1>1. /\ Position /\ Shapes /\ Covered /\ Refused
      /\ phase' = phase /\ start' = start
      /\ text' = text /\ rest' = rest /\ line' = line /\ col' = col /\ mode' = mode
      /\ builder' = builder /\ tokens' = tokens
  BY DEF vars, ScanInv
<1>2. from' = from /\ \A o : PlaceOf(o)' = PlaceOf(o)
  BY <1>1, SameText DEF from
<1>3. /\ at' = at /\ Reading'
      /\ text' \in Texts /\ rest' \in Seq(Characters) /\ IsSuffix(rest', text')
      /\ ([line |-> line, col |-> col] = PlaceOf(at))'
  BY <1>1, <1>2, Halted
<1>4. Position'
  <2>1. mode # "start" \/ phase = "error" => from' \in 0 .. at' /\ start' = PlaceOf(from)'
    BY <1>1, <1>2, <1>3 DEF Position
  <2>2. QED
    BY <1>1, <1>3, <2>1 DEF Position
<1>5. Shapes'
  BY <1>1 DEF Shapes
<1>6. Covered'
  <2>1. Edge' = Edge
    BY <1>1, <1>2, <1>3 DEF Edge
  <2>2. QED
    BY <1>1, <2>1, Waited
<1>7. Refused'
  <2>1. PICK s : s = from
    OBVIOUS
  <2>2. LongestAt(s, s)' = LongestAt(s, s)
    BY <1>1, SameText
  <2>3. QED
    BY <1>1, <1>2, <2>1, <2>2 DEF Refused
<1>8. QED
  BY <1>3, <1>4, <1>5, <1>6, <1>7 DEF ScanInv

-----------------------------------------------------------------------------

(***************************************************************************)
(* A string: what is read inside of it decides where it can end.           *)
(***************************************************************************)
LEMMA QuotedCut ==
    ASSUME text \in Seq(Characters), NEW s \in Nat, NEW o \in s + 1 .. Len(text)
    PROVE  Quoted(Cut(s, o)) <=>
               o >= s + 2 /\ text[s + 1] = "\"" /\ text[o] = "\"" /\ Inside(Cut(s + 1, o - 1))
<1> DEFINE w == Cut(s, o)
           n == o - s
<1>1. w \in Seq(Characters) /\ Len(w) = n /\ w[1] = text[s + 1] /\ w[n] = text[o]
  <2>1. /\ Len(w) = n /\ \A i \in 1 .. n : w[i] = text[s + i]
        /\ w \in Seq(Characters) /\ w[1] = text[s + 1]
    BY WordFrom
  <2>2. n \in 1 .. n /\ s + n = o
    OBVIOUS
  <2>3. QED
    BY <2>1, <2>2
<1>2. ASSUME o >= s + 2
      PROVE  SubSeq(w, 2, n - 1) = Cut(s + 1, o - 1)
  <2>1. /\ s \in 0 .. Len(text) /\ o \in s .. Len(text) /\ 2 \in 1 .. o - s + 1
        /\ n - 1 \in 2 - 1 .. o - s /\ s + 2 - 1 = s + 1 /\ s + (n - 1) = o - 1
    BY <1>2
  <2>2. SubSeq(w, 2, n - 1) = Cut(s + 2 - 1, s + (n - 1))
    BY <2>1, CutOfCut
  <2>3. QED
    BY <2>1, <2>2
<1>3. n >= 2 <=> o >= s + 2
  OBVIOUS
<1> HIDE DEF w, n
<1>4. Quoted(w) <=> n >= 2 /\ w[1] = "\"" /\ w[n] = "\"" /\ Inside(SubSeq(w, 2, n - 1))
  BY <1>1 DEF Quoted
<1>5. QED
  BY <1>1, <1>2, <1>3, <1>4 DEF w

\* A string is open, and what was read of it may stand inside.
Opened(s, e) == text[s + 1] = "\"" /\ Inside(Cut(s + 1, e))

LEMMA StringHolds ==
    ASSUME text \in Seq(Characters), NEW s \in Nat, NEW e \in Nat, s < e, e <= Len(text),
           Opened(s, e),
           NEW o \in s + 1 .. Len(text), NEW ty, IsWord(ty, Cut(s, o))
    PROVE  /\ e < o
           /\ o = e + 1 => text[e + 1] = "\""
           /\ e + 1 < o => /\ text[e + 1] \notin {"\"", "\n"}
                           /\ text[e + 1] = "\\" => e + 2 < o /\ text[e + 2] \in Escapes \cup {"0"}
<1> DEFINE u == Cut(s + 1, e)
           v == Cut(s + 1, o - 1)
           m == e - s - 1
           n == o - s - 2
<1>1. Quoted(Cut(s, o))
  <2>1. Cut(s, o) \in Seq(Characters) /\ Cut(s, o) # << >> /\ Cut(s, o)[1] = "\""
    BY WordFrom DEF Opened
  <2>2. QED
    BY <2>1, StringWord
<1>2. o >= s + 2
  BY <1>1, QuotedCut
<1>0. text[o] = "\"" /\ Inside(v)
  BY <1>1, QuotedCut
<1>3. u \in Seq(Characters) /\ Len(u) = m /\ \A i \in 1 .. m : u[i] = text[(s + 1) + i]
  <2>1. s + 1 \in 0 .. Len(text) /\ e \in s + 1 .. Len(text) /\ e - (s + 1) = m
    OBVIOUS
  <2>2. QED
    BY <2>1, CutProperties
<1>4. v \in Seq(Characters) /\ Len(v) = n /\ \A i \in 1 .. n : v[i] = text[(s + 1) + i]
  <2>1. s + 1 \in 0 .. Len(text) /\ o - 1 \in s + 1 .. Len(text) /\ (o - 1) - (s + 1) = n
    BY <1>2
  <2>2. QED
    BY <2>1, CutProperties
<1>5. m \in Nat /\ n \in Nat
  BY <1>2
<1>6. Inside(u)
  BY DEF Opened
<1>7. e < o
  <2> SUFFICES ASSUME o <= e
               PROVE  FALSE
    OBVIOUS
  <2>1. /\ n + 1 \in 1 .. m /\ (s + 1) + (n + 1) = o /\ n <= m
        /\ \A i \in 1 .. n : i \in 1 .. m
    BY <1>2, <1>5
  <2> HIDE DEF u, v, m, n
  <2>2. u[n + 1] = "\""
    BY <1>0, <1>3, <2>1
  <2>3. ~ Escaped(u, Len(v) + 1)
    <3>1. Inside(v)
      BY <1>0
    <3>2. QED
      BY <1>3, <1>4, <1>5, <2>1, <3>1, InsideEnds
  <2>4. n + 1 \in DOMAIN u
    BY <1>3, <2>1
  <2>5. QED
    BY <1>4, <1>6, <2>2, <2>3, <2>4 DEF Inside
<1>8. ASSUME e + 1 < o
      PROVE  /\ text[e + 1] \notin {"\"", "\n"}
             /\ text[e + 1] = "\\" => e + 2 < o /\ text[e + 2] \in Escapes \cup {"0"}
  <2>1. /\ m + 1 \in 1 .. n /\ (s + 1) + (m + 1) = e + 1 /\ m <= n
        /\ \A i \in 1 .. m : i \in 1 .. n
        /\ m + 1 \in Nat \ {0}
        /\ m + 1 < n => (e + 2 < o /\ m + 1 + 1 \in 1 .. n /\ (s + 1) + (m + 1 + 1) = e + 2)
    BY <1>2, <1>5, <1>8
  <2> HIDE DEF u, v, m, n
  <2>2. v[m + 1] = text[e + 1] /\ DOMAIN v = 1 .. n
    BY <1>4, <2>1
  <2>3. ~ Escaped(v, m + 1)
    <3>1. Len(u) <= Len(v) /\ \A i \in 1 .. Len(u) : v[i] = u[i]
      BY <1>3, <1>4, <1>5, <2>1
    <3>2. ~ Escaped(v, Len(u) + 1)
      BY <1>3, <1>4, <1>6, <3>1, InsideEnds
    <3>3. QED
      BY <1>3, <3>2
  <2>4. v[m + 1] \notin {"\"", "\n"} /\ (v[m + 1] = "\\" => m + 1 < n)
    BY <1>0, <1>4, <2>1, <2>2, <2>3 DEF Inside
  <2>5. ASSUME v[m + 1] = "\\"
        PROVE  e + 2 < o /\ text[e + 2] \in Escapes \cup {"0"}
    <3>1. Escaped(v, m + 1 + 1)
      BY <2>1, <2>3, <2>5, EscapedNext
    <3>2. m + 1 + 1 \in DOMAIN v /\ v[m + 1 + 1] = text[e + 2]
      BY <1>4, <2>1, <2>2, <2>4, <2>5
    <3>3. QED
      BY <1>0, <2>1, <2>4, <2>5, <3>1, <3>2 DEF Inside
  <2>6. QED
    BY <2>2, <2>4, <2>5
<1>9. QED
  BY <1>0, <1>7, <1>8

\* What holds while a string is read.
LEMMA InTheString ==
    ASSUME ScanInv, InString
    PROVE  /\ Position /\ Shapes /\ Covered /\ Reading /\ Ahead
           /\ phase = "scanning" /\ mode = "string" /\ text' = text /\ start' = start
           /\ from' = from /\ start' = PlaceOf(from)' /\ start = PlaceOf(from)
           /\ text \in Seq(Characters) /\ Len(text) \in Nat /\ from \in Nat /\ at \in Nat
           /\ from < at /\ at <= Len(text) /\ Len(text) <= MaxBuilder /\ Edge = from
           /\ Opened(from, at)
           /\ builder \in Seq(Stored)
           /\ at < Len(text) => Len(builder) < at - from /\ Reads(builder, Cut(from + 1, at))
           /\ peek(1) = Following(at)
<1>1. /\ Position /\ Shapes /\ Covered /\ Reading /\ Ahead /\ Len(text) <= MaxBuilder
      /\ phase = "scanning" /\ mode = "string" /\ text' = text /\ start' = start
  BY PositionAhead DEF ScanInv, InString
<1>2. from' = from /\ start' = PlaceOf(from)' /\ from \in 0 .. at /\ start = PlaceOf(from)
  BY <1>1, BeganBefore DEF Position
<1>3. from < at /\ HalfRead("string", from, at) /\ Built("string", from, at, builder)
  BY <1>1 DEF Reading
<1>4. text \in Seq(Characters) /\ Len(text) \in Nat /\ from \in Nat /\ at \in Nat /\ at <= Len(text)
  BY <1>1, <1>2 DEF Ahead
<1>5. Cut(from, at)[1] = text[from + 1] /\ Len(Cut(from, at)) = at - from
  <2>1. at \in from + 1 .. Len(text)
    BY <1>3, <1>4
  <2>2. QED
    BY <1>4, <2>1, WordFrom
<1>6. HalfRead("string", from, at) <=> Cut(from, at)[1] = "\"" /\ Inside(Cut(from + 1, at))
  BY DEF HalfRead
<1>7. Built("string", from, at, builder) <=>
        (at < Len(text) => Len(builder) < Len(Cut(from, at)) /\ Reads(builder, Cut(from + 1, at)))
  BY DEF Built, LoopModes
<1>8. peek(1) = Following(at)
  BY <1>1, PeekNext
<1>9. Edge = from /\ builder \in Seq(Stored)
  BY <1>1 DEF Edge, Shapes
<1>10. Opened(from, at)
  BY <1>3, <1>5, <1>6 DEF Opened
<1>11. QED
  BY <1>1, <1>2, <1>3, <1>4, <1>5, <1>7, <1>8, <1>9, <1>10

\* A character, or an escaped one, is added to the string.
LEMMA StringGrows ==
    ASSUME ScanInv, InString, phase' = phase,
           NEW n \in {1, 2}, n <= Len(rest), n = 2 => rest[1] # "\n", getchar(n),
           NEW d \in Stored, Enter("string", built_with(d)),
           Inside(Cut(from + 1, at + n)),
           Kept(Cut(from + 1, at + n)) = Kept(Cut(from + 1, at)) \cup {Len(Cut(from + 1, at + n))},
           d = Meaning(Cut(from + 1, at + n), Len(Cut(from + 1, at + n)))
    PROVE  ScanInv'
<1>1. /\ Position /\ Shapes /\ Covered /\ Reading /\ Ahead
      /\ phase = "scanning" /\ mode = "string" /\ text' = text /\ start' = start
      /\ from' = from /\ start' = PlaceOf(from)'
      /\ text \in Seq(Characters) /\ Len(text) \in Nat /\ from \in Nat /\ at \in Nat
      /\ from < at /\ at <= Len(text) /\ Len(text) <= MaxBuilder /\ Edge = from
      /\ Opened(from, at) /\ builder \in Seq(Stored)
      /\ at < Len(text) => Len(builder) < at - from /\ Reads(builder, Cut(from + 1, at))
  BY InTheString
<1>2. /\ Ahead' /\ at' = at + n /\ at' <= Len(text)
      /\ text' \in Texts /\ rest' \in Seq(Characters) /\ IsSuffix(rest', text')
      /\ ([line |-> line, col |-> col] = PlaceOf(at))'
  BY <1>1, Advance
<1>3. mode' = "string" /\ tokens' = tokens /\ builder' = built_with(d)
  BY DEF Enter
<1>4. at < Len(text) /\ at + n <= Len(text)
  BY <1>1, <1>2
<1>5. builder' = Append(builder, d) /\ Len(builder) < at - from
  <2>1. Len(builder) < MaxBuilder
    BY <1>1, <1>4, TextsAssumption
  <2>2. QED
    BY <1>1, <1>3, <1>4, <2>1 DEF built_with
<1>6. Reads(Append(builder, d), Cut(from + 1, at + n))
  <2> DEFINE u == Cut(from + 1, at)
             v == Cut(from + 1, at + n)
             m == at - (from + 1)
  <2>1. /\ from + 1 \in 0 .. Len(text) /\ at \in from + 1 .. Len(text)
        /\ at + n \in from + 1 .. Len(text)
        /\ m \in Nat /\ (at + n) - (from + 1) = m + n
    BY <1>1, <1>4
  <2>2. u \in Seq(Characters) /\ Len(u) = m /\ \A i \in 1 .. m : u[i] = text[(from + 1) + i]
    BY <1>1, <2>1, CutProperties
  <2>3. v \in Seq(Characters) /\ Len(v) = m + n /\ \A i \in 1 .. m + n : v[i] = text[(from + 1) + i]
    BY <1>1, <2>1, CutProperties
  <2>4. m < m + n /\ \A i \in 1 .. m : i \in 1 .. m + n
    BY <2>1
  <2>5. Reads(builder, u) /\ Kept(v) = Kept(u) \cup {Len(v)} /\ d = Meaning(v, Len(v))
    BY <1>1, <1>4
  <2> HIDE DEF u, v, m
  <2>6. Len(u) < Len(v) /\ \A i \in 1 .. Len(u) : v[i] = u[i]
    BY <2>2, <2>3, <2>4
  <2>7. Reads(Append(builder, d), v)
    BY <1>1, <2>2, <2>3, <2>5, <2>6, ReadsGrows
  <2>8. QED
    BY <2>7 DEF v
<1>7. HalfRead("string", from, at + n)
  <2>1. at + n \in from + 1 .. Len(text)
    BY <1>1, <1>4
  <2>2. Cut(from, at + n)[1] = text[from + 1]
    BY <1>1, <2>1, WordFrom
  <2>3. HalfRead("string", from, at + n) <=>
          Cut(from, at + n)[1] = "\"" /\ Inside(Cut(from + 1, at + n))
    BY DEF HalfRead
  <2>4. QED
    BY <1>1, <2>2, <2>3 DEF Opened
<1>8. Built("string", from, at + n, Append(builder, d))
  <2>1. Built("string", from, at + n, Append(builder, d)) <=>
          (at + n < Len(text) => /\ Len(Append(builder, d)) < Len(Cut(from, at + n))
                                 /\ Reads(Append(builder, d), Cut(from + 1, at + n)))
    BY DEF Built, LoopModes
  <2>2. Len(Cut(from, at + n)) = at + n - from
    <3>1. at + n \in from + 1 .. Len(text)
      BY <1>1, <1>4
    <3>2. QED
      BY <1>1, <3>1, WordFrom
  <2>3. Len(Append(builder, d)) = Len(builder) + 1 /\ Len(builder) \in Nat
    BY <1>1
  <2>4. Len(builder) + 1 < at + n - from
    BY <1>1, <1>5, <2>3
  <2>5. QED
    BY <1>6, <2>1, <2>2, <2>3, <2>4
<1>9. Position'
  <2>1. from' \in 0 .. at'
    BY <1>1, <1>2
  <2>2. QED
    BY <1>1, <1>2, <2>1 DEF Position
<1>10. Shapes'
  <2>1. builder' \in Seq(Stored)
    BY <1>1, <1>5
  <2>2. QED
    BY <1>1, <1>3, <2>1 DEF Shapes
<1>11. Covered'
  <2>1. Edge' = from
    BY <1>1, <1>3 DEF Edge
  <2>2. QED
    BY <1>1, <1>3, <2>1, Waited
<1>12. Reading'
  <2>1. from < at + n
    BY <1>1
  <2>2. QED
    BY <1>1, <1>2, <1>3, <1>5, <1>7, <1>8, <2>1, StillReading
<1>13. Refused'
  BY <1>1 DEF Refused
<1>14. QED
  BY <1>9, <1>10, <1>11, <1>12, <1>13 DEF ScanInv

LEMMA StringCharacterStep ==
    ASSUME ScanInv, StringCharacter
    PROVE  ScanInv'
<1>1. /\ InString /\ phase' = phase /\ getchar(1) /\ Enter("string", built_with(char(peek(1))))
      /\ peek(1) \notin {"\"", "\n", "\\", EOF}
  BY DEF StringCharacter
<1>2. /\ Ahead /\ text \in Seq(Characters) /\ Len(text) \in Nat /\ from \in Nat /\ at \in Nat
      /\ from < at /\ at <= Len(text) /\ Opened(from, at) /\ peek(1) = Following(at)
  BY <1>1, InTheString
<1>3. at < Len(text) /\ peek(1) = text[at + 1] /\ 1 <= Len(rest)
  <2>1. at < Len(text) /\ peek(1) = text[at + 1]
    BY <1>1, <1>2 DEF Following
  <2>2. QED
    BY <1>2, <2>1 DEF Ahead
<1> DEFINE u == Cut(from + 1, at)
           v == Cut(from + 1, at + 1)
           m == at - (from + 1)
<1>4. /\ from + 1 \in 0 .. Len(text) /\ at \in from + 1 .. Len(text)
      /\ at + 1 \in from + 1 .. Len(text)
      /\ m \in Nat /\ (at + 1) - (from + 1) = m + 1 /\ (from + 1) + (m + 1) = at + 1
  BY <1>2, <1>3
<1>5. u \in Seq(Characters) /\ Len(u) = m /\ \A i \in 1 .. m : u[i] = text[(from + 1) + i]
  BY <1>2, <1>4, CutProperties
<1>6. v \in Seq(Characters) /\ Len(v) = m + 1 /\ \A i \in 1 .. m + 1 : v[i] = text[(from + 1) + i]
  BY <1>2, <1>4, CutProperties
<1>7. m + 1 \in 1 .. m + 1 /\ \A i \in 1 .. m : i \in 1 .. m + 1
  BY <1>4
<1>8. Inside(u)
  BY <1>2 DEF Opened
<1> HIDE DEF u, v, m
<1>9. /\ Len(v) = Len(u) + 1 /\ (\A i \in 1 .. Len(u) : v[i] = u[i]) /\ v[Len(v)] = peek(1)
  BY <1>3, <1>4, <1>5, <1>6, <1>7
<1>10. Plain(v[Len(v)])
  BY <1>1, <1>9 DEF Plain
<1>11. /\ Inside(v) /\ Kept(v) = Kept(u) \cup {Len(v)} /\ char(peek(1)) = Meaning(v, Len(v))
  BY <1>5, <1>6, <1>8, <1>9, <1>10, InsideCharacter
<1>12. char(peek(1)) \in Stored
  <2>1. at + 1 \in 1 .. Len(text)
    BY <1>2, <1>3
  <2>2. peek(1) \in Characters
    BY <1>2, <1>3, <2>1
  <2>3. QED
    BY <2>2, StoredCharacter
<1>13. 1 \in {1, 2} /\ (1 = 2 => rest[1] # "\n")
  OBVIOUS
<1>14. QED
  BY <1>1, <1>3, <1>11, <1>12, <1>13, StringGrows DEF u, v

LEMMA StringEscapeStep ==
    ASSUME ScanInv, StringEscape
    PROVE  ScanInv'
<1>1. /\ InString /\ phase' = phase /\ getchar(2) /\ Enter("string", built_with(unescaped(peek(2))))
      /\ peek(1) = "\\" /\ peek(2) \in Escapes \cup {"0"}
  BY DEF StringEscape
<1>2. /\ Ahead /\ text \in Seq(Characters) /\ Len(text) \in Nat /\ from \in Nat /\ at \in Nat
      /\ from < at /\ at <= Len(text) /\ Opened(from, at)
  BY <1>1, InTheString
<1>3. 2 <= Len(rest) /\ at + 2 <= Len(text)
  <2>1. peek(2) # EOF
    BY <1>1, CharactersAssumption DEF Escapes, EOF
  <2>2. 2 <= Len(rest)
    BY <2>1 DEF peek
  <2>3. QED
    BY <1>2, <2>2 DEF Ahead
<1>4. peek(1) = text[at + 1] /\ peek(2) = text[at + 2] /\ rest[1] # "\n"
  <2>1. 1 \in 1 .. Len(rest) /\ 2 \in 1 .. Len(rest)
    BY <1>2, <1>3 DEF Ahead
  <2>2. rest[1] = text[at + 1] /\ rest[2] = text[at + 2]
    BY <1>2, <2>1 DEF Ahead
  <2>3. peek(1) = rest[1] /\ peek(2) = rest[2]
    BY <2>1 DEF peek
  <2>4. QED
    BY <1>1, <2>2, <2>3
<1> DEFINE u == Cut(from + 1, at)
           v == Cut(from + 1, at + 2)
           m == at - (from + 1)
<1>5. /\ from + 1 \in 0 .. Len(text) /\ at \in from + 1 .. Len(text)
      /\ at + 2 \in from + 1 .. Len(text)
      /\ m \in Nat /\ (at + 2) - (from + 1) = m + 2
      /\ (from + 1) + (m + 1) = at + 1 /\ (from + 1) + (m + 2) = at + 2
  BY <1>2, <1>3
<1>6. u \in Seq(Characters) /\ Len(u) = m /\ \A i \in 1 .. m : u[i] = text[(from + 1) + i]
  BY <1>2, <1>5, CutProperties
<1>7. v \in Seq(Characters) /\ Len(v) = m + 2 /\ \A i \in 1 .. m + 2 : v[i] = text[(from + 1) + i]
  BY <1>2, <1>5, CutProperties
<1>8. m + 1 \in 1 .. m + 2 /\ m + 2 \in 1 .. m + 2 /\ \A i \in 1 .. m : i \in 1 .. m + 2
  BY <1>5
<1>9. Inside(u)
  BY <1>2 DEF Opened
<1> HIDE DEF u, v, m
<1>10. /\ Len(v) = Len(u) + 2 /\ (\A i \in 1 .. Len(u) : v[i] = u[i])
       /\ v[Len(u) + 1] = peek(1) /\ v[Len(v)] = peek(2)
  BY <1>4, <1>5, <1>6, <1>7, <1>8
<1>11. v[Len(u) + 1] = "\\" /\ v[Len(v)] \in Escapes \cup {"0"}
  BY <1>1, <1>10
<1>12. /\ Inside(v) /\ Kept(v) = Kept(u) \cup {Len(v)} /\ unescaped(peek(2)) = Meaning(v, Len(v))
  BY <1>6, <1>7, <1>9, <1>10, <1>11, InsideEscape
<1>13. unescaped(peek(2)) \in Stored
  BY <1>1, StoredCharacter
<1>14. 2 \in {1, 2}
  OBVIOUS
<1>15. QED
  BY <1>1, <1>3, <1>4, <1>12, <1>13, <1>14, StringGrows DEF u, v

\* A token that began before ends.
LEMMA ReadingEmits ==
    ASSUME ScanInv, phase = "scanning", mode # "start", text' = text, start' = start, phase' = phase,
           NEW e \in Nat, at' = e, at < e, e <= Len(text),
           rest' \in Seq(Characters), IsSuffix(rest', text'), ([line |-> line, col |-> col] = PlaceOf(at))',
           NEW ty \in Names, NEW v \in Seq(Stored), Emit(ty, v, start),
           IsWord(ty, Cut(from, e)), Means(ty, Cut(from, e), v), LongestAt(from, e)
    PROVE  ScanInv'
<1>1. Position /\ Shapes /\ Covered /\ Ahead /\ from \in 0 .. at
  BY PositionAhead DEF ScanInv, Position
<1> DEFINE k == TokenOf(ty, v, start)
<1>2. mode' = "start" /\ builder' = << >> /\ tokens' = Append(tokens, k)
  BY DEF Emit
<1>3. at \in Nat /\ from \in Nat /\ from \in Int /\ e \in Int /\ Len(text) \in Nat /\ from < e
  BY <1>1 DEF Ahead
<1>4. start = PlaceOf(from) /\ start \in [line : Int, col : Int]
  BY <1>1, <1>3, PlaceType DEF Position
<1>5. /\ k \in TokenSet /\ k.type = ty /\ k.value = v
      /\ [line |-> k.line, col |-> k.srow] = start
  BY <1>4 DEF TokenOf, TokenSet
<1> HIDE DEF k
<1>6. Right(k, from, e)
  BY <1>3, <1>4, <1>5 DEF Right
<1>7. Covered'
  <2>1. Edge = from /\ Edge' = e
    BY <1>2 DEF Edge
  <2>2. tokens \in Seq(TokenSet)
    BY <1>1 DEF Shapes
  <2>3. QED
    BY <1>1, <1>2, <1>3, <1>5, <1>6, <2>1, <2>2, Emitted
<1>8. Position'
  BY <1>1, <1>2 DEF Position
<1>9. Shapes'
  <2>1. tokens' \in Seq(TokenSet) /\ << >> \in Seq(Stored)
    BY <1>1, <1>2, <1>5 DEF Shapes
  <2>2. QED
    BY <1>1, <1>2, <2>1 DEF Shapes
<1>10. Reading' /\ Refused'
  BY <1>2 DEF Reading, Refused
<1>11. QED
  BY <1>7, <1>8, <1>9, <1>10 DEF ScanInv

LEMMA StringEndStep ==
    ASSUME ScanInv, StringEnd
    PROVE  ScanInv'
<1>1. /\ InString /\ phase' = phase /\ getchar(1) /\ Emit("StringLiteral", builder, start)
      /\ peek(1) = "\""
  BY DEF StringEnd
<1>2. /\ Position /\ Ahead /\ text \in Seq(Characters) /\ Len(text) \in Nat /\ from \in Nat /\ at \in Nat
      /\ phase = "scanning" /\ mode = "string" /\ text' = text /\ start' = start
      /\ from < at /\ at <= Len(text) /\ Opened(from, at)
      /\ builder \in Seq(Stored) /\ peek(1) = Following(at)
      /\ at < Len(text) => Reads(builder, Cut(from + 1, at))
  BY <1>1, InTheString
<1>0. at < Len(text) /\ text[at + 1] = "\""
  BY <1>1, <1>2 DEF Following, EOF
<1>3. at < Len(text)
  BY <1>0
<1>a. 1 <= Len(rest)
  BY <1>2, <1>3 DEF Ahead
<1>b. 1 \in {1, 2} /\ (1 = 2 => rest[1] # "\n")
  OBVIOUS
<1>c. getchar(1)
  BY <1>1
<1>4. /\ at' = at + 1 /\ at + 1 <= Len(text) /\ rest' \in Seq(Characters) /\ IsSuffix(rest', text')
      /\ ([line |-> line, col |-> col] = PlaceOf(at))'
  BY <1>2, <1>a, <1>b, <1>c, Advance
<1>5. /\ at + 1 \in from + 1 .. Len(text) /\ at + 1 >= from + 2 /\ (at + 1) - 1 = at
      /\ at + 1 \in Nat /\ at < at + 1
  BY <1>2, <1>3
<1> DEFINE w == Cut(from, at + 1)
<1>6. Quoted(w)
  BY <1>0, <1>2, <1>5, QuotedCut DEF Opened
<1>7. IsWord("StringLiteral", w)
  BY <1>6, Zenon DEF IsWord
<1>8. Means("StringLiteral", w, builder)
  <2>1. Len(w) = (at + 1) - from
    BY <1>2, <1>5, WordFrom
  <2>2. /\ from \in 0 .. Len(text) /\ at + 1 \in from .. Len(text)
        /\ 2 \in 1 .. (at + 1) - from + 1 /\ Len(w) - 1 \in 2 - 1 .. (at + 1) - from
        /\ from + 2 - 1 = from + 1 /\ from + (Len(w) - 1) = at
    BY <1>2, <1>5, <2>1
  <2>3. SubSeq(w, 2, Len(w) - 1) = Cut(from + 2 - 1, from + (Len(w) - 1))
    BY <1>2, <2>2, CutOfCut
  <2>4. SubSeq(w, 2, Len(w) - 1) = Cut(from + 1, at)
    BY <2>2, <2>3
  <2>5. QED
    BY <1>2, <1>3, <2>4 DEF Means
<1>9. LongestAt(from, at + 1)
  <2> SUFFICES ASSUME NEW o \in at + 1 + 1 .. Len(text), NEW ty \in Names, IsWord(ty, Cut(from, o))
               PROVE  FALSE
    BY DEF LongestAt
  <2>1. o \in from + 1 .. Len(text) /\ at + 1 < o
    BY <1>2
  <2>2. text[at + 1] \notin {"\"", "\n"}
    BY <1>2, <2>1, StringHolds
  <2>3. QED
    BY <1>0, <2>2
<1>10. "StringLiteral" \in Names
  BY DEF Names
<1>11. QED
  BY <1>1, <1>2, <1>4, <1>5, <1>7, <1>8, <1>9, <1>10, ReadingEmits

LEMMA StringRejectedStep ==
    ASSUME ScanInv, StringRejected
    PROVE  ScanInv'
<1>1. /\ InString /\ Throw
      /\ peek(1) = "\n" \/ (peek(1) = "\\" /\ peek(2) \notin Escapes \cup {"0"})
  BY DEF StringRejected
<1>2. /\ Ahead /\ text \in Seq(Characters) /\ Len(text) \in Nat /\ from \in Nat /\ at \in Nat
      /\ phase = "scanning" /\ mode = "string" /\ start' = start
      /\ from < at /\ at <= Len(text) /\ Opened(from, at) /\ Edge = from
      /\ peek(1) = Following(at)
  BY <1>1, InTheString
<1>3. at < Len(text) /\ peek(1) = text[at + 1]
  BY <1>1, <1>2 DEF Following, EOF
<1>4. at + 2 <= Len(text) => peek(2) = text[at + 2]
  <2>1. at + 2 <= Len(text) => 2 <= Len(rest)
    BY <1>2 DEF Ahead
  <2>2. 2 <= Len(rest) => rest[2] = text[at + 2]
    BY <1>2 DEF Ahead
  <2>3. QED
    BY <2>1, <2>2 DEF peek
<1>5. LongestAt(from, from)
  <2> SUFFICES ASSUME NEW o \in from + 1 .. Len(text), NEW ty \in Names, IsWord(ty, Cut(from, o))
               PROVE  FALSE
    BY DEF LongestAt
  <2>1. /\ at < o
        /\ o = at + 1 => text[at + 1] = "\""
        /\ at + 1 < o => /\ text[at + 1] \notin {"\"", "\n"}
                         /\ text[at + 1] = "\\" => at + 2 < o /\ text[at + 2] \in Escapes \cup {"0"}
    BY <1>2, StringHolds
  <2>0. at < o
    BY <2>1
  <2>2. o = at + 1 \/ at + 1 < o
    BY <1>2, <2>0
  <2>3. at + 2 < o => at + 2 <= Len(text)
    BY <1>2
  <2>4. QED
    BY <1>1, <1>3, <1>4, <2>1, <2>2, <2>3
<1>6. QED
  BY <1>1, <1>2, <1>5, Thrown

\* Nothing more of the text is read by the loop that never ends.
LEMMA StringForEverStep ==
    ASSUME ScanInv, StringForEver
    PROVE  ScanInv'
<1>1. /\ InString /\ peek(1) = EOF /\ builder' = built_with(Unread)
      /\ rest' = rest /\ line' = line /\ col' = col /\ mode' = mode /\ tokens' = tokens /\ phase' = phase
  BY DEF StringForEver
<1>2. /\ Position /\ Shapes /\ Covered /\ Reading /\ Ahead
      /\ phase = "scanning" /\ mode = "string" /\ text' = text
      /\ from' = from /\ start' = PlaceOf(from)' /\ start = PlaceOf(from)
      /\ text \in Seq(Characters) /\ Len(text) \in Nat /\ from \in Nat /\ at \in Nat
      /\ from < at /\ at <= Len(text) /\ Edge = from /\ builder \in Seq(Stored)
      /\ peek(1) = Following(at)
  BY <1>1, InTheString
<1>3. ~ (at < Len(text))
  <2> SUFFICES ASSUME at < Len(text)
               PROVE  FALSE
    OBVIOUS
  <2>1. at + 1 \in 1 .. Len(text)
    BY <1>2
  <2>2. text[at + 1] \in Characters
    BY <1>2, <2>1
  <2>3. QED
    BY <1>1, <1>2, <2>2, Kinds DEF Following
<1>4. at' = at
  BY <1>1, <1>2 DEF at
<1>5. builder' \in Seq(Stored)
  BY <1>1, <1>2, StoredCharacter DEF built_with
<1>6. Position'
  <2>1. ([line |-> line, col |-> col] = PlaceOf(at))'
    BY <1>1, <1>2, <1>4, SameText DEF Position
  <2>2. from' \in 0 .. at'
    BY <1>2, <1>4
  <2>3. QED
    BY <1>1, <1>2, <1>4, <2>1, <2>2 DEF Position
<1>7. Shapes'
  BY <1>1, <1>2, <1>5 DEF Shapes
<1>8. Covered'
  <2>1. Edge' = from
    BY <1>1, <1>2 DEF Edge
  <2>2. QED
    BY <1>1, <1>2, <2>1, Waited
<1>9. Reading'
  <2>1. HalfRead(mode, from, at)
    BY <1>2 DEF Reading
  <2>2. \A b : Built(mode, from, at, b)
    BY <1>2, <1>3 DEF Built, LoopModes
  <2>3. QED
    BY <1>1, <1>2, <1>4, <2>1, <2>2, StillReading
<1>10. Refused'
  BY <1>1, <1>2 DEF Refused
<1>11. QED
  BY <1>6, <1>7, <1>8, <1>9, <1>10 DEF ScanInv

(***************************************************************************)
(* A character literal.                                                    *)
(***************************************************************************)
\* Three characters behind each other: where they end.
LEMMA CharacterPlace ==
    ASSUME NEW o \in Nat, NEW l, NEW c, PlaceOf(o) = [line |-> l, col |-> c], l \in Int, c \in Int,
           NEW k \in {1, 2}, k = 2 => text[o + 1] # "\n", text[o + k + 1] # "\n"
    PROVE  PlaceOf(o + k + 1) = IF text[o + k] = "\n" THEN [line |-> l + 1, col |-> 1]
                                ELSE [line |-> l, col |-> c + k + 1]
<1>1. /\ o + 1 \in Nat /\ o + 2 \in Nat /\ (o + 1) + 1 = o + 2 /\ (o + 2) + 1 = o + 3
      /\ o + 1 + 1 = o + 2 /\ o + 2 + 1 = o + 3
  OBVIOUS
<1>2. PlaceOf(o + 1) = IF text[o + 1] = "\n" THEN [line |-> l + 1, col |-> 0]
                       ELSE [line |-> l, col |-> c + 1]
  BY PlaceNext
<1>3. PlaceOf(o + 2) = IF text[o + 2] = "\n" THEN [line |-> PlaceOf(o + 1).line + 1, col |-> 0]
                       ELSE [line |-> PlaceOf(o + 1).line, col |-> PlaceOf(o + 1).col + 1]
  BY <1>1, PlaceNext
<1>4. PlaceOf(o + 3) = IF text[o + 3] = "\n" THEN [line |-> PlaceOf(o + 2).line + 1, col |-> 0]
                       ELSE [line |-> PlaceOf(o + 2).line, col |-> PlaceOf(o + 2).col + 1]
  BY <1>1, PlaceNext
<1>5. 0 + 1 = 1 /\ (c + 1) + 1 = c + 1 + 1 /\ ((c + 1) + 1) + 1 = c + 2 + 1
  OBVIOUS
<1>6. CASE k = 1
  <2>1. text[o + 2] # "\n" /\ o + k + 1 = o + 2 /\ o + k = o + 1
    BY <1>1, <1>6
  <2>2. PlaceOf(o + 2) = [line |-> PlaceOf(o + 1).line, col |-> PlaceOf(o + 1).col + 1]
    BY <1>3, <2>1
  <2>3. CASE text[o + 1] = "\n"
    <3>1. PlaceOf(o + 1) = [line |-> l + 1, col |-> 0]
      BY <1>2, <2>3
    <3>2. PlaceOf(o + 2) = [line |-> l + 1, col |-> 1]
      BY <1>5, <2>2, <3>1
    <3>3. QED
      BY <2>1, <2>3, <3>2
  <2>4. CASE text[o + 1] # "\n"
    <3>1. PlaceOf(o + 1) = [line |-> l, col |-> c + 1]
      BY <1>2, <2>4
    <3>2. PlaceOf(o + 2) = [line |-> l, col |-> c + 1 + 1]
      BY <2>2, <3>1
    <3>3. QED
      BY <1>6, <2>1, <2>4, <3>2
  <2>5. QED
    BY <2>3, <2>4
<1>7. CASE k = 2
  <2>1. text[o + 1] # "\n" /\ text[o + 3] # "\n" /\ o + k + 1 = o + 3 /\ o + k = o + 2
    BY <1>1, <1>7
  <2>2. PlaceOf(o + 1) = [line |-> l, col |-> c + 1]
    BY <1>2, <2>1
  <2>3. PlaceOf(o + 3) = [line |-> PlaceOf(o + 2).line, col |-> PlaceOf(o + 2).col + 1]
    BY <1>4, <2>1
  <2>4. CASE text[o + 2] = "\n"
    <3>1. PlaceOf(o + 2) = [line |-> l + 1, col |-> 0]
      BY <1>3, <2>2, <2>4
    <3>2. PlaceOf(o + 3) = [line |-> l + 1, col |-> 1]
      BY <1>5, <2>3, <3>1
    <3>3. QED
      BY <2>1, <2>4, <3>2
  <2>5. CASE text[o + 2] # "\n"
    <3>1. PlaceOf(o + 2) = [line |-> l, col |-> (c + 1) + 1]
      BY <1>3, <2>2, <2>5
    <3>2. PlaceOf(o + 3) = [line |-> l, col |-> c + 2 + 1]
      BY <1>5, <2>3, <3>1
    <3>3. QED
      BY <1>7, <2>1, <2>5, <3>2
  <2>6. QED
    BY <2>4, <2>5
<1>8. QED
  BY <1>6, <1>7

\* A word that begins with an apostrophe ends with the one behind its character.
LEMMA CharacterHolds ==
    ASSUME text \in Seq(Characters), NEW s \in Nat, text[s + 1] = "'",
           NEW o \in s + 1 .. Len(text), NEW ty, IsWord(ty, Cut(s, o))
    PROVE  /\ o = s + 2 + (IF text[s + 2] = "\\" THEN 2 ELSE 1)
           /\ text[o] = "'"
<1> DEFINE w == Cut(s, o)
           n == o - s
<1>1. /\ w \in Seq(Characters) /\ w # << >> /\ Len(w) = n /\ w[1] = text[s + 1]
      /\ (\A i \in 1 .. n : w[i] = text[s + i])
      /\ (o > s + 1 => w[2] = text[s + 2])
  BY WordFrom
<1>2. n \in 1 .. n /\ s + n = o /\ IsWord(ty, w)
  OBVIOUS
<1>3. (n = 3 => o = s + 2 + 1 /\ o > s + 1) /\ (n = 4 => o = s + 2 + 2 /\ o > s + 1)
  OBVIOUS
<1> HIDE DEF w, n
<1>4. n \in {3, 4} /\ w[n] = "'" /\ ((w[2] = "\\") <=> (n = 4))
  BY <1>1, <1>2, CharacterWord
<1>5. text[o] = "'"
  BY <1>1, <1>2, <1>4
<1>6. w[2] = text[s + 2]
  BY <1>1, <1>3, <1>4
<1>7. CASE n = 3
  <2>1. text[s + 2] # "\\" /\ o = s + 2 + 1
    BY <1>3, <1>4, <1>6, <1>7
  <2>2. QED
    BY <1>5, <2>1
<1>8. CASE n = 4
  <2>1. text[s + 2] = "\\" /\ o = s + 2 + 2
    BY <1>3, <1>4, <1>6, <1>8
  <2>2. QED
    BY <1>5, <2>1
<1>9. QED
  BY <1>4, <1>7, <1>8

\* Any character between two apostrophes.
LEMMA CharacterValue ==
    ASSUME NEW k \in {1, 2}, NEW w \in Seq(Characters), Len(w) = k + 2, w[1] = "'", w[k + 2] = "'",
           NEW v, v = <<"'">> \o [i \in 1 .. k |-> char(w[i + 1])] \o <<"'">>
    PROVE  v \in Seq(Stored) /\ Means("Character_literal", w, v)
<1> DEFINE m == [i \in 1 .. k |-> char(w[i + 1])]
           r == [i \in 1 .. k + 2 |-> char(w[i])]
<1>1. char("'") = "'" /\ "'" \in Stored
  <2>1. "'" \in Characters \ {Foreign}
    BY DEF Characters, Signs, Foreign
  <2>2. QED
    BY <2>1, Kinds DEF char, Stored
<1>2. \A i \in 1 .. k + 2 : char(w[i]) \in Stored
  <2>1. \A i \in 1 .. k + 2 : w[i] \in Characters
    OBVIOUS
  <2>2. QED
    BY <2>1, StoredCharacter
<1>3. v = r /\ r \in Seq(Stored)
  <2>1. r \in Seq(Stored) /\ Len(r) = k + 2 /\ \A i \in 1 .. k + 2 : r[i] = char(w[i])
    <3> DEFINE f(i) == char(w[i])
    <3>1. \A i \in 1 .. k + 2 : f(i) \in Stored
      BY <1>2
    <3>2. k + 2 \in Nat
      OBVIOUS
    <3> HIDE DEF f
    <3>3. [i \in 1 .. k + 2 |-> f(i)] \in Seq(Stored) /\ Len([i \in 1 .. k + 2 |-> f(i)]) = k + 2
      BY <3>1, <3>2
    <3>4. r = [i \in 1 .. k + 2 |-> f(i)]
      BY DEF f
    <3>5. QED
      BY <3>3, <3>4
  <2>2. m \in Seq(Stored) /\ Len(m) = k /\ \A i \in 1 .. k : m[i] = char(w[i + 1])
    <3> DEFINE f(i) == char(w[i + 1])
    <3>1. \A i \in 1 .. k : f(i) \in Stored
      <4>1. \A i \in 1 .. k : i + 1 \in 1 .. k + 2
        OBVIOUS
      <4>2. QED
        BY <1>2, <4>1
    <3>2. k \in Nat
      OBVIOUS
    <3> HIDE DEF f
    <3>3. [i \in 1 .. k |-> f(i)] \in Seq(Stored) /\ Len([i \in 1 .. k |-> f(i)]) = k
      BY <3>1, <3>2
    <3>4. m = [i \in 1 .. k |-> f(i)]
      BY DEF f
    <3>5. QED
      BY <3>3, <3>4
  <2>3. r[1] = "'" /\ r[k + 2] = "'"
    <3>1. 1 \in 1 .. k + 2 /\ k + 2 \in 1 .. k + 2
      OBVIOUS
    <3>2. QED
      BY <1>1, <2>1, <3>1
  <2>4. \A i \in 2 .. k + 1 : i - 1 \in 1 .. k /\ (i - 1) + 1 = i /\ i \in 1 .. k + 2
    OBVIOUS
  <2>5. v = <<"'">> \o m \o <<"'">>
    OBVIOUS
  <2>6. \A i \in 2 .. k + 1 : r[i] = m[i - 1]
    BY <2>1, <2>2, <2>4
  <2>7. k \in Nat
    OBVIOUS
  <2> HIDE DEF m, r
  <2> DEFINE q == "'"
  <2> HIDE DEF q
  <2>8. v = <<q>> \o m \o <<q>> /\ r[1] = q /\ r[k + 2] = q /\ q \in Stored
    BY <1>1, <2>3, <2>5 DEF q
  <2>9. /\ <<q>> \o m \o <<q>> \in Seq(Stored) /\ Len(<<q>> \o m \o <<q>>) = k + 2
        /\ \A i \in 1 .. k + 2 : (<<q>> \o m \o <<q>>)[i] =
              IF i = 1 THEN q ELSE IF i = k + 2 THEN q ELSE m[i - 1]
    BY <2>2, <2>7, <2>8
  <2>10. \A i \in 1 .. k + 2 : i = 1 \/ i = k + 2 \/ i \in 2 .. k + 1
    BY <2>7
  <2>11. \A i \in 1 .. k + 2 : v[i] = r[i]
    BY <2>6, <2>8, <2>9, <2>10
  <2>12. QED
    BY <2>1, <2>8, <2>9, <2>11
<1>4. Means("Character_literal", w, v)
  <2>1. Len(w) = k + 2
    OBVIOUS
  <2>2. QED
    BY <1>3, <2>1 DEF Means
<1>5. QED
  BY <1>3, <1>4

LEMMA CharacterLiteralStep ==
    ASSUME ScanInv, CharacterLiteral
    PROVE  ScanInv'
<1> DEFINE k == literal_width
<1>1. /\ Position /\ Shapes /\ Covered /\ Reading /\ Ahead
      /\ phase = "scanning" /\ mode = "character" /\ text' = text /\ start' = start
  BY PositionAhead DEF ScanInv, CharacterLiteral
<1>2. /\ from \in Nat /\ at = from + 1 /\ text \in Seq(Characters) /\ Len(text) \in Nat
      /\ at \in Nat /\ at <= Len(text) /\ Len(rest) \in Nat /\ Len(text) = at + Len(rest)
  <2>1. HalfRead("character", from, at) /\ from \in 0 .. at
    BY <1>1 DEF Reading, Position
  <2>2. at = from + 1
    BY <2>1 DEF HalfRead
  <2>3. QED
    BY <1>1, <2>1, <2>2 DEF Ahead
<1>3. text[from + 1] = "'"
  <2>1. HalfRead("character", from, at)
    BY <1>1 DEF Reading
  <2>2. Cut(from, at)[1] = "'"
    BY <2>1 DEF HalfRead
  <2>3. at \in from + 1 .. Len(text)
    BY <1>2
  <2>4. Cut(from, at)[1] = text[from + 1]
    BY <1>2, <2>3, WordFrom
  <2>5. QED
    BY <2>2, <2>4
<1>4. k \in {1, 2} /\ (k = 2 <=> peek(1) = "\\") /\ (k = 1 => peek(k) = peek(1))
  BY DEF literal_width
<1>5. \A i \in 1 .. 3 : peek(i) # EOF => i <= Len(rest)
  BY DEF peek
<1>6. \A i \in 1 .. 3 : i <= Len(rest) => peek(i) = text[at + i] /\ peek(i) \in Characters
  <2> SUFFICES ASSUME NEW i \in 1 .. 3, i <= Len(rest)
               PROVE  peek(i) = text[at + i] /\ peek(i) \in Characters
    OBVIOUS
  <2>1. i \in 1 .. Len(rest) /\ at + i \in 1 .. Len(text)
    BY <1>2
  <2>2. peek(i) = rest[i] /\ rest[i] = text[at + i]
    BY <1>1, <2>1 DEF peek, Ahead
  <2>3. QED
    BY <1>2, <2>1, <2>2
<1> HIDE DEF k
<1>7. k + 1 \in 1 .. 3 /\ k \in 1 .. 3 /\ 1 \in 1 .. 3
  BY <1>4
<1>8. CASE peek(k + 1) = "'"
  <2> DEFINE e == at + k + 1
             w == Cut(from, e)
             v == <<"'">> \o [i \in 1 .. k |-> char(peek(i))] \o <<"'">>
  <2>1. /\ rest' = SubSeq(rest, k + 2, Len(rest))
        /\ line' = IF peek(k) = "\n" THEN line + 1 ELSE line
        /\ col' = IF peek(k) = "\n" THEN 1 ELSE col + k + 1
        /\ Emit("Character_literal", v, start) /\ phase' = phase
    BY <1>8 DEF CharacterLiteral, k
  <2>2. k + 1 <= Len(rest)
    <3>1. peek(k + 1) # EOF
      BY <1>8 DEF EOF
    <3>2. QED
      BY <1>5, <1>7, <3>1
  <2>3. k + 1 \in 0 .. Len(rest) /\ k + 1 + 1 = k + 2 /\ k <= Len(rest) /\ 1 <= Len(rest)
    BY <1>2, <1>4, <2>2
  <2>4. Ahead' /\ at' = at + (k + 1) /\ IsSuffix(rest', text')
    <3>1. rest' = SubSeq(rest, (k + 1) + 1, Len(rest))
      BY <2>1, <2>3
    <3>2. QED
      BY <1>1, <2>3, <3>1, Taken
  <2>5. /\ e \in Nat /\ at < e /\ e <= Len(text) /\ at' = e /\ e \in from + 1 .. Len(text)
        /\ e - from = k + 2 /\ at + (k + 1) = e /\ from + (k + 2) = e
    BY <1>2, <1>4, <2>2, <2>4
  <2>6. /\ peek(1) = text[at + 1] /\ peek(k) = text[at + k] /\ peek(k + 1) = text[e]
    BY <1>6, <1>7, <2>2, <2>3, <2>5
  <2>7. ([line |-> line, col |-> col] = PlaceOf(at))'
    <3>1. PlaceOf(at) = [line |-> line, col |-> col]
      BY <1>1 DEF Position
    <3>2. PlaceOf(at) \in [line : Int, col : Int]
      BY <1>2, PlaceType
    <3>3. line \in Int /\ col \in Int
      BY <3>1, <3>2
    <3>4. k = 2 => text[at + 1] # "\n"
      BY <1>4, <2>6
    <3>5. text[at + k + 1] # "\n"
      BY <1>8, <2>6
    <3>6. PlaceOf(at + k + 1) = IF text[at + k] = "\n" THEN [line |-> line + 1, col |-> 1]
                                ELSE [line |-> line, col |-> col + k + 1]
      BY <1>2, <1>4, <3>1, <3>3, <3>4, <3>5, CharacterPlace
    <3>7. PlaceOf(e) = [line |-> line', col |-> col']
      BY <2>1, <2>6, <3>6
    <3>8. QED
      BY <1>1, <2>5, <3>7, SameText
  <2>8. /\ w \in Seq(Characters) /\ Len(w) = k + 2
        /\ \A i \in 1 .. k + 2 : w[i] = text[from + i]
    <3> HIDE DEF e
    <3>1. /\ w \in Seq(Characters) /\ Len(w) = e - from
          /\ \A i \in 1 .. e - from : w[i] = text[from + i]
      BY <1>2, <2>5, WordFrom
    <3>2. QED
      BY <2>5, <3>1
  <2>9. /\ 1 \in 1 .. k + 2 /\ k + 2 \in 1 .. k + 2 /\ 2 \in 1 .. k + 2 /\ from + 2 = at + 1
        /\ \A i \in 1 .. k : i + 1 \in 1 .. k + 2 /\ from + (i + 1) = at + i /\ i \in 1 .. 3 /\ i <= Len(rest)
    BY <1>2, <1>4, <2>3
  <2>10. w[1] = "'" /\ w[k + 2] = "'" /\ w[2] = peek(1)
    <3>1. w[1] = text[from + 1] /\ w[k + 2] = text[e] /\ w[2] = text[at + 1]
      BY <2>5, <2>8, <2>9
    <3>2. QED
      BY <1>3, <1>8, <2>6, <3>1
  <2>11. v = <<"'">> \o [i \in 1 .. k |-> char(w[i + 1])] \o <<"'">>
    <3>1. \A i \in 1 .. k : char(peek(i)) = char(w[i + 1])
      BY <1>6, <2>8, <2>9
    <3> HIDE DEF w
    <3>2. [i \in 1 .. k |-> char(peek(i))] = [i \in 1 .. k |-> char(w[i + 1])]
      BY <3>1
    <3>3. QED
      BY <3>2
  <2> HIDE DEF w, v, e
  <2>12. v \in Seq(Stored) /\ Means("Character_literal", w, v)
    BY <1>4, <2>8, <2>10, <2>11, CharacterValue
  <2>13. IsWord("Character_literal", w)
    <3>1. Len(w) \in {3, 4} /\ w[Len(w)] = "'" /\ (Len(w) = 4 <=> k = 2)
      <4>1. Len(w) = k + 2
        BY <2>8
      <4>2. k + 2 \in {3, 4} /\ (k + 2 = 4 <=> k = 2)
        BY <1>4
      <4>3. QED
        BY <2>10, <4>1, <4>2
    <3>2. (w[2] = "\\") <=> (Len(w) = 4)
      BY <1>4, <2>10, <3>1
    <3>3. QED
      BY <2>10, <3>1, <3>2, Zenon DEF IsWord
  <2>14. LongestAt(from, e)
    <3> SUFFICES ASSUME NEW o \in e + 1 .. Len(text), NEW ty \in Names, IsWord(ty, Cut(from, o))
                 PROVE  FALSE
      BY DEF LongestAt
    <3>1. o \in from + 1 .. Len(text) /\ o # e
      BY <1>2, <2>5
    <3>2. o = from + 2 + (IF text[from + 2] = "\\" THEN 2 ELSE 1)
      BY <1>2, <1>3, <3>1, CharacterHolds
    <3>3. text[from + 2] = "\\" <=> k = 2
      BY <1>4, <2>6, <2>9
    <3>4. o = from + 2 + k
      BY <1>4, <3>2, <3>3
    <3>5. QED
      BY <1>2, <1>4, <2>5, <3>1, <3>4
  <2>15. rest' \in Seq(Characters)
    BY <2>4 DEF Ahead
  <2>16. "Character_literal" \in Names /\ mode # "start"
    BY <1>1 DEF Names
  <2>17. QED
    BY <1>1, <2>1, <2>4, <2>5, <2>7, <2>12, <2>13, <2>14, <2>15, <2>16, ReadingEmits DEF w
<1>9. CASE peek(k + 1) # "'"
  <2>1. Throw
    BY <1>9 DEF CharacterLiteral, k
  <2>2. LongestAt(from, from)
    <3> SUFFICES ASSUME NEW o \in from + 1 .. Len(text), NEW ty \in Names, IsWord(ty, Cut(from, o))
                 PROVE  FALSE
      BY DEF LongestAt
    <3>1. o = from + 2 + (IF text[from + 2] = "\\" THEN 2 ELSE 1) /\ text[o] = "'"
      BY <1>2, <1>3, CharacterHolds
    <3>2. from + 2 = at + 1
      BY <1>2
    <3>3. o >= from + 3
      <4>1. o = from + 2 + 2 \/ o = from + 2 + 1
        BY <3>1
      <4>2. QED
        BY <1>2, <4>1
    <3>4. 1 <= Len(rest)
      BY <1>2, <3>3
    <3>5. peek(1) = text[from + 2]
      BY <1>6, <1>7, <3>2, <3>4
    <3>6. o = from + 2 + k
      BY <1>4, <3>1, <3>5
    <3>7. k + 1 <= Len(rest) /\ at + (k + 1) = o
      BY <1>2, <1>4, <3>6
    <3>8. peek(k + 1) = text[o]
      BY <1>6, <1>7, <3>7
    <3>9. QED
      BY <1>9, <3>1, <3>8
  <2>3. Edge = from /\ mode # "start"
    BY <1>1 DEF Edge
  <2>4. QED
    BY <1>1, <2>1, <2>2, <2>3, Thrown
<1>10. QED
  BY <1>8, <1>9

-----------------------------------------------------------------------------

LEMMA ScanInit ==
    ASSUME Init
    PROVE  ScanInv
<1>1. /\ text \in Texts /\ rest = text /\ line = 1 /\ col = 0 /\ mode = "start"
      /\ builder = << >> /\ tokens = << >> /\ phase = "scanning"
  BY DEF Init
<1>2. text \in Seq(Characters)
  BY <1>1, TextsAssumption
<1>3. at = 0
  BY <1>1, <1>2 DEF at
<1>4. Position
  <2>1. \A k \in 1 .. Len(text) : (Len(text) - Len(text)) + k = k
    BY <1>2
  <2>2. IsSuffix(rest, text)
    BY <1>1, <1>2, <2>1, SuffixAhead
  <2>3. QED
    BY <1>1, <1>2, <1>3, <2>2, PlaceFirst DEF Position
<1>5. Shapes
  <2>1. << >> \in Seq(Stored) /\ << >> \in Seq(TokenSet)
    OBVIOUS
  <2>2. QED
    BY <1>1, <2>1 DEF Shapes
<1>6. Covered
  <2>1. Edge = 0
    BY <1>1, <1>3 DEF Edge
  <2>2. DOMAIN tokens = {}
    BY <1>1
  <2>3. QED
    BY <1>1, <2>1, <2>2 DEF Covered
<1>7. Reading /\ Refused
  BY <1>1 DEF Reading, Refused
<1>8. QED
  BY <1>4, <1>5, <1>6, <1>7 DEF ScanInv

(***************************************************************************)
(* The tokens made are the longest words of the text read so far, and what *)
(* is being read is the beginning of the next.                             *)
(***************************************************************************)
THEOREM ScanInvariant == Spec => []ScanInv
<1>1. Init => ScanInv
  BY ScanInit
<1>2. ScanInv /\ [Next]_vars => ScanInv'
  BY StartStep, RejectStep, GoOnStep, CharacterLiteralStep, FinishStep, StringEndStep,
     StringCharacterStep, StringEscapeStep, StringRejectedStep, StringForEverStep, StutterStep
     DEF Next
<1>3. QED
  BY <1>1, <1>2, PTL DEF Spec

LEMMA ScanTypes ==
    ASSUME ScanInv
    PROVE  TypeOK
<1>1. Position /\ Shapes
  BY DEF ScanInv
<1>2. From(builder, Stored)
  BY <1>1 DEF Shapes, From
<1>3. ASSUME NEW i \in DOMAIN tokens
      PROVE  tokens[i].type \in Names /\ From(tokens[i].value, Stored)
  <2>1. tokens[i] \in TokenSet
    BY <1>1, <1>3 DEF Shapes
  <2>2. tokens[i].type \in Names /\ tokens[i].value \in Seq(Stored)
    BY <2>1 DEF TokenSet
  <2>3. QED
    BY <2>2 DEF From
<1>4. [line |-> line, col |-> col] = PlaceOf(Len(text) - Len(rest))
  BY <1>1 DEF Position, at
<1>5. QED
  BY <1>1, <1>2, <1>3, <1>4 DEF TypeOK, Position, Shapes

LEMMA ScanLongest ==
    ASSUME ScanInv
    PROVE  LongestWords
<1> SUFFICES ASSUME phase # "scanning", ~ BareHex
             PROVE  /\ tokens # << >> => Begins(1) = 0
                    /\ \A i \in DOMAIN tokens :
                          /\ Begins(i) < Stops(i)
                          /\ IsWord(tokens[i].type, Lexeme(i))
                          /\ Means(tokens[i].type, Lexeme(i), tokens[i].value)
                          /\ \A o \in Stops(i) + 1 .. Len(text), ty \in Names :
                                ~ IsWord(ty, SubSeq(text, Begins(i) + 1, o))
  BY DEF LongestWords
<1>1. Position /\ Shapes /\ Covered
  BY DEF ScanInv
<1>2. ASSUME NEW i \in DOMAIN tokens
      PROVE  Stops(i) = EndsAt(i)
  <2>1. CASE i < Len(tokens)
    BY <2>1 DEF Stops, EndsAt
  <2>2. CASE ~ (i < Len(tokens)) /\ phase = "error"
    BY <2>2 DEF Stops, EndsAt, Edge, from
  <2>3. CASE ~ (i < Len(tokens)) /\ phase = "done"
    <3>1. Len(text) = Edge
      <4>1. Len(rest) = 0 /\ Edge = at
        BY <1>1, <2>3 DEF Shapes, Edge
      <4>2. text \in Seq(Characters)
        BY <1>1, TextsAssumption DEF Position
      <4>3. Len(text) \in Nat
        BY <4>2
      <4>4. QED
        BY <4>1, <4>3 DEF at
    <3>2. QED
      BY <2>3, <3>1 DEF Stops, EndsAt
  <2>4. QED
    BY <1>1, <2>1, <2>2, <2>3 DEF Shapes
<1>3. ASSUME NEW i \in DOMAIN tokens
      PROVE  /\ Begins(i) < Stops(i)
             /\ IsWord(tokens[i].type, Lexeme(i))
             /\ Means(tokens[i].type, Lexeme(i), tokens[i].value)
             /\ \A o \in Stops(i) + 1 .. Len(text), ty \in Names :
                   ~ IsWord(ty, SubSeq(text, Begins(i) + 1, o))
  <2>1. Right(tokens[i], Begins(i), Stops(i)) /\ ~ Bare(tokens[i])
    BY <1>1, <1>2, <1>3 DEF Covered, BareHex, Bare
  <2>2. Lexeme(i) = Cut(Begins(i), Stops(i))
    BY DEF Lexeme, Cut
  <2>3. \A o : Cut(Begins(i), o) = SubSeq(text, Begins(i) + 1, o)
    BY DEF Cut
  <2>4. Begins(i) < Stops(i)
    BY <2>1 DEF Right
  <2>5. QED
    BY <2>1, <2>2, <2>3, <2>4 DEF Right, LongestAt
<1>4. QED
  BY <1>1, <1>3 DEF Covered

LEMMA ScanRefuses ==
    ASSUME ScanInv
    PROVE  RefusedRightly
<1>1. phase = "error" => LongestAt(from, from)
  BY DEF ScanInv, Refused
<1>2. QED
  BY <1>1 DEF RefusedRightly, LongestAt, Cut, from

(***************************************************************************)
(* The tokens of a source are the longest words of the language it can be  *)
(* cut into, with the values and the places these have, and a source is    *)
(* refused only where no word begins.                                      *)
(***************************************************************************)
THEOREM ScannerCorrect == Spec => []ScansLanguage
<1>1. ScanInv => ScansLanguage
  BY ScanTypes, ScanLongest, ScanRefuses DEF ScansLanguage
<1>2. QED
  BY <1>1, ScanInvariant, PTL

=============================================================================
