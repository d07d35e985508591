--------------------------- MODULE X64CallsProofs ---------------------------
(***************************************************************************)
(* Proofs that the frames of the x64 backend hold: what the runtime relies *)
(* on survives, and the machine implements the frames of IJVM.             *)
(*                                                                         *)
(* A frame's words lie between its base and its barrier, its operands from *)
(* there to the base of its callee; instructions write variables and the   *)
(* slot of rsp, and these are no words that another frame or a return      *)
(* needs.                                                                  *)
(***************************************************************************)
EXTENDS X64Calls, ProofBasics

(***************************************************************************)
(* Where the entries of a layout come from.                                *)
(***************************************************************************)
Names == Identifiers \cup {"__obj_ref__"} \cup ToSet(reserved)

hidden(f) == IF f = Main THEN 0 ELSE 1     \* the object reference
nargs(f)  == Len(Functions[f].args)
nvars(f)  == Len(Functions[f].vars)

LEMMA LayoutEntries ==
    ASSUME NEW f \in DOMAIN Functions
    PROVE  /\ nargs(f) \in Nat /\ nvars(f) \in Nat /\ hidden(f) \in {0, 1}
           /\ f = Main => nargs(f) = 0
           /\ layout[f] \in Seq(Names)
           /\ Len(layout[f]) = hidden(f) + nargs(f) + 3 + nvars(f)
           /\ \A i \in 1..hidden(f) : layout[f][i] = "__obj_ref__"
           /\ \A i \in 1..nargs(f) : layout[f][hidden(f) + i] = Functions[f].args[i]
           /\ \A i \in 1..3 : layout[f][hidden(f) + nargs(f) + i] = reserved[i]
           /\ \A i \in 1..nvars(f) :
                 layout[f][hidden(f) + nargs(f) + 3 + i] = Functions[f].vars[i]
<1> DEFINE h == IF f = Main THEN << >> ELSE <<"__obj_ref__">>
           a == Functions[f].args
           v == Functions[f].vars
           ha == h \o a
           har == ha \o reserved
<1>1. a \in Seq(Names) /\ v \in Seq(Names) /\ (f = Main => a = << >>)
  <2>1. {a, v} \subseteq Seq(Identifiers) /\ (f = Main => a = << >>)
    BY NamesAssumption
  <2>2. Identifiers \subseteq Names
    BY DEF Names
  <2>3. Seq(Identifiers) \subseteq Seq(Names)
    BY <2>2
  <2>4. QED
    BY <2>1, <2>3
<1>2. /\ h \in Seq(Names) /\ Len(h) = hidden(f) /\ hidden(f) \in {0, 1}
      /\ \A i \in 1..hidden(f) : h[i] = "__obj_ref__"
  <2>1. CASE f = Main
    <3>1. h = << >> /\ hidden(f) = 0
      BY <2>1 DEF hidden
    <3>2. QED
      <4> HIDE DEF h
      <4>1. QED
        BY <3>1
  <2>2. CASE f # Main
    <3>1. h = <<"__obj_ref__">> /\ hidden(f) = 1
      BY <2>2 DEF hidden
    <3>2. "__obj_ref__" \in Names
      BY DEF Names
    <3>3. h \in Seq(Names) /\ Len(h) = 1 /\ h[1] = "__obj_ref__"
      <4> HIDE DEF h
      <4>1. QED
        BY <3>1, <3>2
    <3>4. QED
      BY <3>1, <3>3
  <2>3. QED
    BY <2>1, <2>2
<1>3. reserved \in Seq(Names) /\ Len(reserved) = 3
  <2>1. \A i \in 1..3 : reserved[i] \in Names
    BY DEF reserved, Names, ToSet
  <2>2. QED
    BY <2>1 DEF reserved
<1>4. layout[f] = har \o v
  BY DEF layout
<1> HIDE DEF h, a, v
<1>5. /\ ha \in Seq(Names) /\ Len(ha) = Len(h) + Len(a)
      /\ \A i \in 1..(Len(h) + Len(a)) : ha[i] = IF i <= Len(h) THEN h[i] ELSE a[i - Len(h)]
  BY <1>1, <1>2, ConcatProperties
<1> HIDE DEF ha
<1>6. /\ har \in Seq(Names) /\ Len(har) = Len(ha) + 3
      /\ \A i \in 1..(Len(ha) + 3) : har[i] = IF i <= Len(ha) THEN ha[i] ELSE reserved[i - Len(ha)]
  <2>1. /\ ha \o reserved \in Seq(Names) /\ Len(ha \o reserved) = Len(ha) + Len(reserved)
        /\ \A i \in 1..(Len(ha) + Len(reserved)) :
              (ha \o reserved)[i] = IF i <= Len(ha) THEN ha[i] ELSE reserved[i - Len(ha)]
    <3>1. ha \in Seq(Names) /\ reserved \in Seq(Names)
      BY <1>3, <1>5
    <3>2. QED
      BY <3>1, ConcatProperties
  <2>2. QED
    BY <1>3, <2>1
<1> HIDE DEF har
<1>7. /\ har \o v \in Seq(Names) /\ Len(har \o v) = Len(har) + Len(v)
      /\ \A i \in 1..(Len(har) + Len(v)) :
            (har \o v)[i] = IF i <= Len(har) THEN har[i] ELSE v[i - Len(har)]
  <2>1. har \in Seq(Names) /\ v \in Seq(Names)
    BY <1>1, <1>6
  <2>2. QED
    BY <2>1, ConcatProperties
<1>8. nargs(f) = Len(a) /\ nvars(f) = Len(v) /\ Len(a) \in Nat /\ Len(v) \in Nat /\ Len(h) \in Nat
  BY <1>1, <1>2 DEF nargs, nvars, a, v
<1> DEFINE l == har \o v
           n == Len(a)
           k == Len(h)
           w == Len(v)
<1> HIDE DEF l
<1>9. /\ Len(l) = k + n + 3 + w
      /\ \A i \in 1..k : l[i] = h[i]
      /\ \A i \in 1..n : l[k + i] = a[i]
      /\ \A i \in 1..3 : l[k + n + i] = reserved[i]
      /\ \A i \in 1..w : l[k + n + 3 + i] = v[i]
  <2>1. \A i \in 1..(k + n + 3 + w) :
           l[i] = IF i <= k THEN h[i] ELSE IF i <= k + n THEN a[i - k]
                  ELSE IF i <= k + n + 3 THEN reserved[i - (k + n)] ELSE v[i - (k + n + 3)]
    BY <1>5, <1>6, <1>7, <1>8 DEF l
  <2>2. k \in Nat /\ n \in Nat /\ w \in Nat
    BY <1>8
  <2> HIDE DEF k, n, w
  <2>3. \A i \in 1..k : l[i] = h[i]
    BY <2>1, <2>2
  <2>4. ASSUME NEW i \in 1..n PROVE l[k + i] = a[i]
    <3>1. k + i \in 1..(k + n + 3 + w) /\ (k + i) - k = i /\ ~(k + i <= k) /\ k + i <= k + n
      BY <2>2
    <3>2. QED
      BY <2>1, <3>1
  <2>5. ASSUME NEW i \in 1..3 PROVE l[k + n + i] = reserved[i]
    <3>1. /\ k + n + i \in 1..(k + n + 3 + w) /\ (k + n + i) - (k + n) = i
          /\ ~(k + n + i <= k) /\ ~(k + n + i <= k + n) /\ k + n + i <= k + n + 3
      BY <2>2
    <3>2. QED
      BY <2>1, <3>1
  <2>6. ASSUME NEW i \in 1..w PROVE l[k + n + 3 + i] = v[i]
    <3>1. /\ k + n + 3 + i \in 1..(k + n + 3 + w) /\ (k + n + 3 + i) - (k + n + 3) = i
          /\ ~(k + n + 3 + i <= k) /\ ~(k + n + 3 + i <= k + n) /\ ~(k + n + 3 + i <= k + n + 3)
      BY <2>2
    <3>2. QED
      BY <2>1, <3>1
  <2>7. Len(l) = k + n + 3 + w
    BY <1>5, <1>6, <1>7, <1>8 DEF l, k, n, w
  <2>8. QED
    BY <2>3, <2>4, <2>5, <2>6, <2>7
<1>10. layout[f] = l /\ l \in Seq(Names)
  BY <1>4, <1>7 DEF l
<1>11. f = Main => nargs(f) = 0
  BY <1>1, <1>8
<1>12. nargs(f) = n /\ nvars(f) = w /\ hidden(f) = k /\ Functions[f].args = a /\ Functions[f].vars = v
  BY <1>2, <1>8 DEF a, v
<1>13. QED
  BY <1>2, <1>8, <1>9, <1>10, <1>11, <1>12

(***************************************************************************)
(* offset finds a name's last place in the layout.                         *)
(***************************************************************************)
LEMMA OffsetLast ==
    ASSUME NEW f \in DOMAIN Functions, NEW name \in ToSet(layout[f])
    PROVE  /\ offset[f][name] \in Nat
           /\ offset[f][name] + 1 \in 1..Len(layout[f])
           /\ layout[f][offset[f][name] + 1] = name
           /\ \A i \in 1..Len(layout[f]) : layout[f][i] = name => i <= offset[f][name] + 1
<1> DEFINE n == Len(layout[f])
           S == {i \in DOMAIN layout[f] : layout[f][i] = name}
           T == {n - i : i \in S}
<1>1. n \in Nat /\ DOMAIN layout[f] = 1..n
  BY LayoutEntries
<1>2. S # {} /\ S \subseteq 1..n
  BY <1>1 DEF ToSet
<1>3. T \subseteq Nat /\ T # {}
  <2>1. \A i \in 1..n : n - i \in Nat
    BY <1>1
  <2>2. QED
    BY <1>2, <2>1
<1>4. PICK x \in T : \A y \in T : x <= y
  BY <1>3, LeastElement
<1>5. PICK m \in S : x = n - m
  BY <1>4
<1>6. \A i \in S : m >= i
  <2> TAKE i \in S
  <2>1. n - m <= n - i
    BY <1>4, <1>5
  <2>2. m \in 1..n /\ i \in 1..n
    BY <1>2, <1>5
  <2>3. QED
    BY <1>1, <2>1, <2>2
<1>7. Max(S) \in S /\ \A i \in S : Max(S) >= i
  BY <1>5, <1>6 DEF Max
<1>8. offset[f][name] = Max(S) - 1
  BY DEF offset
<1>9. Max(S) \in 1..n /\ layout[f][Max(S)] = name
  BY <1>2, <1>7
<1>10. (Max(S) - 1) + 1 = Max(S) /\ Max(S) - 1 \in Nat
  BY <1>9
<1>11. \A i \in 1..n : layout[f][i] = name => i <= Max(S)
  <2> SUFFICES ASSUME NEW i \in 1..n, layout[f][i] = name PROVE i <= Max(S)
    OBVIOUS
  <2>1. i \in S
    BY <1>1
  <2>2. QED
    BY <1>7, <1>9, <2>1
<1>12. QED
  BY <1>8, <1>9, <1>10, <1>11

(***************************************************************************)
(* The arguments lie behind the object reference in their order, then the  *)
(* words that function() reserves; the variables lie elsewhere.            *)
(***************************************************************************)
LEMMA OffsetsReserved ==
    ASSUME NEW f \in DOMAIN Functions
    PROVE  /\ ToSet(reserved) \subseteq ToSet(layout[f])
           /\ offset[f]["__ret_addr__"] = hidden(f) + nargs(f)
           /\ offset[f]["__base_ptr__"] = hidden(f) + nargs(f) + 1
           /\ offset[f]["__rsp__"] = hidden(f) + nargs(f) + 2
<1> DEFINE l == layout[f]
           k == hidden(f)
           n == nargs(f)
           w == nvars(f)
           a == Functions[f].args
           v == Functions[f].vars
<1>1. /\ n \in Nat /\ w \in Nat /\ k \in {0, 1}
      /\ Len(l) = k + n + 3 + w /\ DOMAIN l = 1..Len(l)
      /\ \A i \in 1..k : l[i] = "__obj_ref__"
      /\ \A i \in 1..n : l[k + i] = a[i]
      /\ \A i \in 1..3 : l[k + n + i] = reserved[i]
      /\ \A i \in 1..w : l[k + n + 3 + i] = v[i]
  <2>1. l \in Seq(Names)
    BY LayoutEntries
  <2>2. DOMAIN l = 1..Len(l)
    BY <2>1
  <2>3. QED
    BY <2>2, LayoutEntries
<1>2. /\ \A i \in 1..n : a[i] \in Identifiers
      /\ \A i \in 1..w : v[i] \in Identifiers
  <2>1. a \in Seq(Identifiers) /\ v \in Seq(Identifiers)
    BY NamesAssumption
  <2>2. QED
    BY <2>1 DEF nargs, nvars
<1>3. /\ reserved[1] = "__ret_addr__" /\ reserved[2] = "__base_ptr__" /\ reserved[3] = "__rsp__"
      /\ ToSet(reserved) = {reserved[i] : i \in 1..3}
      /\ \A i, j \in 1..3 : reserved[i] = reserved[j] => i = j
      /\ \A i \in 1..3 : reserved[i] # "__obj_ref__" /\ reserved[i] \notin Identifiers
  <2>1. /\ reserved[1] = "__ret_addr__" /\ reserved[2] = "__base_ptr__" /\ reserved[3] = "__rsp__"
        /\ DOMAIN reserved = 1..3
    BY DEF reserved
  <2>2. ToSet(reserved) = {reserved[i] : i \in 1..3}
    BY <2>1 DEF ToSet
  <2>3. \A i \in 1..3 : reserved[i] \notin Identifiers
    BY <2>2, NamesAssumption
  <2>4. QED
    BY <2>1, <2>2, <2>3
<1> HIDE DEF l, k, n, w, a, v
<1>4. ASSUME NEW i \in 1..3
      PROVE  /\ reserved[i] \in ToSet(l)
             /\ \A j \in 1..Len(l) : l[j] = reserved[i] => j <= k + n + i
  <2>1. k + n + i \in 1..Len(l) /\ l[k + n + i] = reserved[i]
    BY <1>1
  <2>2. reserved[i] \in ToSet(l)
    BY <1>1, <2>1 DEF ToSet
  <2>3. ASSUME NEW j \in 1..Len(l), j > k + n + i PROVE l[j] # reserved[i]
    <3>1. CASE j <= k + n + 3
      <4>1. PICK m \in 1..3 : j = k + n + m /\ m # i
        <5>1. j - (k + n) \in 1..3 /\ j = k + n + (j - (k + n)) /\ j - (k + n) # i
          BY <1>1, <2>3, <3>1
        <5>2. QED
          BY <5>1
      <4>2. QED
        BY <1>1, <1>3, <4>1
    <3>2. CASE j > k + n + 3
      <4>1. PICK m \in 1..w : j = k + n + 3 + m
        <5>1. j - (k + n + 3) \in 1..w /\ j = k + n + 3 + (j - (k + n + 3))
          BY <1>1, <2>3, <3>2
        <5>2. QED
          BY <5>1
      <4>2. l[j] \in Identifiers
        BY <1>1, <1>2, <4>1
      <4>3. QED
        BY <1>3, <4>2
    <3>3. QED
      BY <1>1, <3>1, <3>2
  <2>4. ASSUME NEW j \in 1..Len(l), l[j] = reserved[i] PROVE j <= k + n + i
    BY <1>1, <2>3, <2>4
  <2>5. QED
    BY <2>2, <2>4
<1>5. ASSUME NEW i \in 1..3 PROVE offset[f][reserved[i]] = k + n + i - 1
  <2> DEFINE o == offset[f][reserved[i]]
  <2>1. /\ o \in Nat /\ o + 1 \in 1..Len(l) /\ l[o + 1] = reserved[i]
        /\ \A j \in 1..Len(l) : l[j] = reserved[i] => j <= o + 1
    BY <1>4, OffsetLast DEF l
  <2> HIDE DEF o
  <2>2. o + 1 <= k + n + i
    BY <1>4, <2>1
  <2>3. k + n + i \in 1..Len(l) /\ l[k + n + i] = reserved[i]
    BY <1>1
  <2>4. k + n + i <= o + 1
    BY <2>1, <2>3
  <2>5. o = k + n + i - 1
    BY <1>1, <2>1, <2>2, <2>4
  <2>6. QED
    BY <2>5 DEF o
<1>6. /\ offset[f]["__ret_addr__"] = k + n /\ offset[f]["__base_ptr__"] = k + n + 1
      /\ offset[f]["__rsp__"] = k + n + 2
  <2>1. offset[f][reserved[1]] = k + n + 1 - 1 /\ offset[f][reserved[2]] = k + n + 2 - 1
        /\ offset[f][reserved[3]] = k + n + 3 - 1
    BY <1>5
  <2>2. QED
    BY <1>1, <1>3, <2>1
<1>7. ToSet(reserved) \subseteq ToSet(l)
  BY <1>3, <1>4
<1>8. QED
  BY <1>6, <1>7 DEF l, k, n

LEMMA OffsetsArgs ==
    ASSUME NEW f \in DOMAIN Functions, NEW i \in 1..nargs(f)
    PROVE  /\ Functions[f].args[i] \in ToSet(layout[f])
           /\ offset[f][Functions[f].args[i]] = hidden(f) + i - 1
<1> DEFINE l == layout[f]
           k == hidden(f)
           n == nargs(f)
           w == nvars(f)
           a == Functions[f].args
           v == Functions[f].vars
           o == offset[f][a[i]]
<1>1. /\ n \in Nat /\ w \in Nat /\ k \in {0, 1}
      /\ Len(l) = k + n + 3 + w /\ DOMAIN l = 1..Len(l)
      /\ \A j \in 1..n : l[k + j] = a[j]
      /\ \A j \in 1..3 : l[k + n + j] = reserved[j]
      /\ \A j \in 1..w : l[k + n + 3 + j] = v[j]
  BY LayoutEntries
<1>2. /\ a[i] \in Identifiers
      /\ \A j \in 1..n : a[j] = a[i] => j = i
      /\ \A j \in 1..w : a[i] # v[j]
      /\ \A j \in 1..3 : a[i] # reserved[j]
  <2>1. /\ a \in Seq(Identifiers) /\ v \in Seq(Identifiers)
        /\ IsInjective(a) /\ ToSet(a) \cap ToSet(v) = {}
        /\ ToSet(reserved) \cap Identifiers = {}
    BY NamesAssumption
  <2>2. DOMAIN a = 1..n /\ DOMAIN v = 1..w /\ DOMAIN reserved = 1..3
    BY <2>1 DEF nargs, nvars, reserved
  <2>3. a[i] \in Identifiers
    <3>1. i \in 1..Len(a)
      BY DEF nargs
    <3>2. QED
      BY <2>1, <3>1
  <2>4. \A j \in 1..n : a[j] = a[i] => j = i
    BY <2>1, <2>2 DEF IsInjective
  <2>5. \A j \in 1..w : a[i] # v[j]
    BY <2>1, <2>2 DEF ToSet
  <2>6. \A j \in 1..3 : a[i] # reserved[j]
    BY <2>1, <2>2, <2>3 DEF ToSet
  <2>7. QED
    BY <2>3, <2>4, <2>5, <2>6
<1>3. i \in 1..n
  OBVIOUS
<1>4. a[i] \in ToSet(l)
  <2>1. k + i \in 1..Len(l) /\ l[k + i] = a[i]
    <3> HIDE DEF l, k, n, w, a, v
    <3>1. QED
      BY <1>1, <1>3
  <2>2. QED
    BY <1>1, <2>1 DEF ToSet
<1>5. /\ o \in Nat /\ o + 1 \in 1..Len(l) /\ l[o + 1] = a[i]
      /\ \A j \in 1..Len(l) : l[j] = a[i] => j <= o + 1
  BY <1>4, OffsetLast
<1> HIDE DEF l, k, n, w, a, v, o
<1>6. k + i <= o + 1
  <2>1. k + i \in 1..Len(l) /\ l[k + i] = a[i]
    BY <1>1, <1>3
  <2>2. QED
    BY <1>5, <2>1
<1>7. o + 1 <= k + i
  <2> SUFFICES ASSUME o + 1 > k + i PROVE FALSE
    BY <1>1, <1>3, <1>5
  <2>1. CASE o + 1 <= k + n
    <3>1. (o + 1) - k \in 1..n /\ k + ((o + 1) - k) = o + 1 /\ (o + 1) - k # i
      BY <1>1, <1>3, <1>5, <2>1
    <3>2. l[o + 1] = a[(o + 1) - k]
      BY <1>1, <3>1
    <3>3. QED
      BY <1>2, <1>5, <3>1, <3>2
  <2>2. CASE o + 1 > k + n /\ o + 1 <= k + n + 3
    <3>1. (o + 1) - (k + n) \in 1..3 /\ k + n + ((o + 1) - (k + n)) = o + 1
      BY <1>1, <1>5, <2>2
    <3>2. l[o + 1] = reserved[(o + 1) - (k + n)]
      BY <1>1, <3>1
    <3>3. QED
      BY <1>2, <1>5, <3>1, <3>2
  <2>3. CASE o + 1 > k + n + 3
    <3>1. (o + 1) - (k + n + 3) \in 1..w /\ k + n + 3 + ((o + 1) - (k + n + 3)) = o + 1
      BY <1>1, <1>5, <2>3
    <3>2. l[o + 1] = v[(o + 1) - (k + n + 3)]
      BY <1>1, <3>1
    <3>3. QED
      BY <1>2, <1>5, <3>1, <3>2
  <2>4. QED
    BY <1>1, <1>5, <2>1, <2>2, <2>3
<1>8. o = k + i - 1
  BY <1>1, <1>3, <1>5, <1>6, <1>7
<1>9. QED
  BY <1>4, <1>8 DEF l, k, a, o

LEMMA OffsetsLocals ==
    ASSUME NEW f \in DOMAIN Functions, NEW x \in locals[f]
    PROVE  x \in ToSet(layout[f]) /\ x \notin ToSet(reserved)
<1> DEFINE l == layout[f]
           k == hidden(f)
           n == nargs(f)
           w == nvars(f)
           a == Functions[f].args
           v == Functions[f].vars
<1>1. /\ n \in Nat /\ w \in Nat /\ k \in {0, 1}
      /\ Len(l) = k + n + 3 + w /\ DOMAIN l = 1..Len(l)
      /\ \A j \in 1..n : l[k + j] = a[j]
      /\ \A j \in 1..w : l[k + n + 3 + j] = v[j]
  BY LayoutEntries
<1>2. /\ a \in Seq(Identifiers) /\ v \in Seq(Identifiers)
      /\ ToSet(reserved) \cap Identifiers = {}
      /\ DOMAIN a = 1..n /\ DOMAIN v = 1..w
      /\ \A i \in 1..n : a[i] \in Identifiers
      /\ \A i \in 1..w : v[i] \in Identifiers
  <2>1. /\ a \in Seq(Identifiers) /\ v \in Seq(Identifiers)
        /\ ToSet(reserved) \cap Identifiers = {}
    BY NamesAssumption
  <2>2. QED
    BY <2>1 DEF nargs, nvars
<1>3. x \in ToSet(a) \cup ToSet(v)
  <2>1. x \in ToSet(a \o v)
    BY DEF locals
  <2>2. QED
    BY <1>2, <2>1, ToSetConcat
<1> HIDE DEF l, k, n, w, a, v
<1>4. CASE x \in ToSet(a)
  <2>1. PICK i \in 1..n : x = a[i]
    BY <1>2, <1>4 DEF ToSet
  <2>2. k + i \in 1..Len(l) /\ l[k + i] = a[i]
    BY <1>1
  <2>3. x \in ToSet(l)
    BY <1>1, <2>1, <2>2 DEF ToSet
  <2>4. x \in Identifiers
    BY <1>2, <2>1
  <2>5. QED
    BY <1>2, <2>3, <2>4 DEF l
<1>5. CASE x \in ToSet(v)
  <2>1. PICK i \in 1..w : x = v[i]
    BY <1>2, <1>5 DEF ToSet
  <2>2. k + n + 3 + i \in 1..Len(l) /\ l[k + n + 3 + i] = v[i]
    BY <1>1
  <2>3. x \in ToSet(l)
    BY <1>1, <2>1, <2>2 DEF ToSet
  <2>4. x \in Identifiers
    BY <1>2, <2>1
  <2>5. QED
    BY <1>2, <2>3, <2>4 DEF l
<1>6. QED
  BY <1>3, <1>4, <1>5

(***************************************************************************)
(* What the proofs need of a frame: its length, where a return looks, and  *)
(* that no variable is stored there.                                       *)
(***************************************************************************)
LEMMA FrameLayout ==
    ASSUME NEW f \in DOMAIN Functions
    PROVE  /\ Len(layout[f]) \in Nat
           /\ offset[f]["__ret_addr__"] \in 0..(Len(layout[f]) - 1)
           /\ offset[f]["__base_ptr__"] \in 0..(Len(layout[f]) - 1)
           /\ offset[f]["__rsp__"] \in 0..(Len(layout[f]) - 1)
           /\ offset[f]["__rsp__"] # offset[f]["__ret_addr__"]
           /\ offset[f]["__rsp__"] # offset[f]["__base_ptr__"]
           /\ \A x \in locals[f] :
                 /\ offset[f][x] \in 0..(Len(layout[f]) - 1)
                 /\ offset[f][x] # offset[f]["__ret_addr__"]
                 /\ offset[f][x] # offset[f]["__base_ptr__"]
                 /\ offset[f][x] # offset[f]["__rsp__"]
<1> DEFINE n == Len(layout[f])
           o == offset[f]
<1>1. /\ hidden(f) \in {0, 1} /\ nargs(f) \in Nat /\ nvars(f) \in Nat
      /\ n = hidden(f) + nargs(f) + 3 + nvars(f)
  BY LayoutEntries
<1>2. /\ o["__ret_addr__"] = hidden(f) + nargs(f)
      /\ o["__base_ptr__"] = hidden(f) + nargs(f) + 1
      /\ o["__rsp__"] = hidden(f) + nargs(f) + 2
  BY OffsetsReserved
<1>3. /\ "__ret_addr__" \in ToSet(layout[f]) /\ "__base_ptr__" \in ToSet(layout[f])
      /\ "__rsp__" \in ToSet(layout[f])
      /\ {"__ret_addr__", "__base_ptr__", "__rsp__"} \subseteq ToSet(reserved)
  <2>1. "__ret_addr__" \in ToSet(reserved) /\ "__base_ptr__" \in ToSet(reserved)
        /\ "__rsp__" \in ToSet(reserved)
    BY DEF reserved, ToSet
  <2>2. QED
    BY <2>1, OffsetsReserved
<1>4. ASSUME NEW x \in locals[f]
      PROVE  /\ o[x] \in 0..(n - 1) /\ o[x] # o["__ret_addr__"]
             /\ o[x] # o["__base_ptr__"] /\ o[x] # o["__rsp__"]
  <2>1. x \in ToSet(layout[f]) /\ x \notin ToSet(reserved)
    BY OffsetsLocals
  <2>2. o[x] \in Nat /\ o[x] + 1 \in 1..n /\ layout[f][o[x] + 1] = x
    BY <2>1, OffsetLast
  <2>3. ASSUME NEW y \in {"__ret_addr__", "__base_ptr__", "__rsp__"} PROVE o[x] # o[y]
    <3>1. layout[f][o[y] + 1] = y
      BY <1>3, OffsetLast
    <3>2. x # y
      BY <1>3, <2>1
    <3>3. QED
      BY <2>2, <3>1, <3>2
  <2>4. o[x] \in 0..(n - 1)
    <3> HIDE DEF n, o
    <3>1. n \in Nat
      BY <1>1
    <3>2. QED
      BY <2>2, <3>1
  <2>5. QED
    BY <2>3, <2>4
<1> HIDE DEF n, o
<1>5. /\ n \in Nat /\ o["__ret_addr__"] \in 0..(n - 1) /\ o["__base_ptr__"] \in 0..(n - 1)
      /\ o["__rsp__"] \in 0..(n - 1) /\ o["__rsp__"] # o["__ret_addr__"]
      /\ o["__rsp__"] # o["__base_ptr__"]
  BY <1>1, <1>2
<1>6. QED
  BY <1>4, <1>5 DEF n, o

-----------------------------------------------------------------------------
(* The invariant, for a memory m and the active calls c.                   *)

\* The j-th call finds its caller again.
LinkedBack(m, c, j) ==
    /\ m[c[j].bp + offset[c[j].fn]["__ret_addr__"]] = Ret(c[j - 1].fn, c[j - 1].site)
    /\ m[c[j].bp + offset[c[j].fn]["__base_ptr__"]] = Addr(c[j - 1].bp)

Sound(m, c) ==
    /\ \A i \in 1..Len(c) : (c[i].fn = Main) <=> (i = 1)
    /\ \A i \in 1..Len(c) :
          /\ c[i].bp > 0 /\ barrier(c[i]) <= Len(m) /\ m[barrier(c[i])] = Barrier
    /\ \A i, j \in 1..Len(c) : i < j => barrier(c[i]) < c[j].bp
    /\ \A j \in 2..Len(c) : LinkedBack(m, c, j)

Inv == TypeOK /\ FunctionTableKept /\ Sound(mem, active)

\* The words that the running frame's instructions write.
Writable(f) == {f.bp + offset[f.fn][x] : x \in locals[f.fn]} \cup {f.bp + offset[f.fn]["__rsp__"]}

\* Nothing but these words differs up to the barrier of the running frame.
OnlyWritten(m, m2, f) ==
    /\ Len(m2) >= barrier(f)
    /\ \A a \in 1..barrier(f) : m2[a] = m[a] \/ a \in Writable(f)

LEMMA WritableBetween ==
    ASSUME NEW f \in Calls
    PROVE  /\ barrier(f) \in Nat /\ barrier(f) > f.bp
           /\ \A a \in Writable(f) :
                 /\ a \in f.bp..(barrier(f) - 1)
                 /\ a # f.bp + offset[f.fn]["__ret_addr__"]
                 /\ a # f.bp + offset[f.fn]["__base_ptr__"]
           /\ f.bp + offset[f.fn]["__ret_addr__"] \in f.bp..(barrier(f) - 1)
           /\ f.bp + offset[f.fn]["__base_ptr__"] \in f.bp..(barrier(f) - 1)
<1> DEFINE g == f.fn
           b == f.bp
           n == Len(layout[g])
           r == offset[g]["__ret_addr__"]
           p == offset[g]["__base_ptr__"]
           s == offset[g]["__rsp__"]
<1>1. g \in DOMAIN Functions /\ b \in Nat
  BY DEF Calls
<1>2. /\ n \in Nat /\ r \in 0..(n - 1) /\ p \in 0..(n - 1) /\ s \in 0..(n - 1) /\ s # r /\ s # p
      /\ \A x \in locals[g] : offset[g][x] \in 0..(n - 1) /\ offset[g][x] # r /\ offset[g][x] # p
  BY <1>1, FrameLayout
<1>3. barrier(f) = b + n
  BY DEF barrier
<1> HIDE DEF g, b, n, r, p, s
<1>4. b + n \in Nat /\ b + n > b /\ b + r \in b..(b + n - 1) /\ b + p \in b..(b + n - 1)
  BY <1>1, <1>2
<1>5. ASSUME NEW a \in Writable(f) PROVE a \in b..(b + n - 1) /\ a # b + r /\ a # b + p
  <2>1. PICK k \in 0..(n - 1) : a = b + k /\ k # r /\ k # p
    <3>1. CASE a = b + s
      BY <1>2, <3>1
    <3>2. CASE a # b + s
      <4>1. PICK x \in locals[g] : a = b + offset[g][x]
        BY <3>2 DEF Writable, b, g, s
      <4>2. QED
        BY <1>2, <4>1
    <3>3. QED
      BY <3>1, <3>2
  <2>2. QED
    BY <1>1, <1>2, <2>1
<1>6. /\ barrier(f) \in Nat /\ barrier(f) > b
      /\ \A a \in Writable(f) :
            a \in b..(barrier(f) - 1) /\ a # b + r /\ a # b + p
      /\ b + r \in b..(barrier(f) - 1)
      /\ b + p \in b..(barrier(f) - 1)
  BY <1>1, <1>2, <1>3, <1>4, <1>5
<1>7. QED
  BY <1>6 DEF b, r, p, g

(***************************************************************************)
(* Writing variables and operands of the running frame leaves every frame  *)
(* in order.                                                               *)
(***************************************************************************)
LEMMA SoundAfterWrite ==
    ASSUME NEW m, NEW m2, NEW c \in Seq(Calls), c # << >>, Len(m2) \in Nat,
           Sound(m, c), OnlyWritten(m, m2, c[Len(c)])
    PROVE  Sound(m2, c)
<1> DEFINE n == Len(c)
           t == c[n]
<1>1. n \in Nat /\ n >= 1 /\ \A i \in 1..n : c[i] \in Calls
  OBVIOUS
<1>2. \A i \in 1..n : c[i].bp \in Nat /\ barrier(c[i]) \in Nat /\ barrier(c[i]) > c[i].bp
  BY <1>1, WritableBetween DEF Calls
<1>3. \A i \in 1..n : i < n => barrier(c[i]) < t.bp
  BY <1>1 DEF Sound
<1>4. ASSUME NEW a \in Nat, a > 0, a < t.bp PROVE m2[a] = m[a]
  <2>1. a \in 1..barrier(t)
    BY <1>1, <1>2, <1>4
  <2>2. a \notin Writable(t)
    <3>1. t \in Calls /\ t.bp \in Nat /\ barrier(t) \in Nat
      BY <1>1, <1>2
    <3>2. \A w \in Writable(t) : w \in t.bp..(barrier(t) - 1)
      BY <3>1, WritableBetween
    <3>3. QED
      BY <1>4, <3>1, <3>2
  <2>3. QED
    BY <2>1, <2>2 DEF OnlyWritten
<1>5. ASSUME NEW a \in t.bp..barrier(t), t.bp > 0, a \notin Writable(t) PROVE m2[a] = m[a]
  <2>1. a \in 1..barrier(t)
    BY <1>1, <1>2, <1>5
  <2>2. QED
    BY <2>1, <1>5 DEF OnlyWritten
<1>6. ASSUME NEW i \in 1..n
      PROVE  barrier(c[i]) <= Len(m2) /\ m2[barrier(c[i])] = Barrier
  <2>1. c[i].bp > 0 /\ m[barrier(c[i])] = Barrier
    BY DEF Sound
  <2>2. CASE i < n
    <3>1. barrier(c[i]) < t.bp /\ t.bp < barrier(t) /\ barrier(t) <= Len(m2)
      BY <1>1, <1>2, <1>3, <2>2 DEF OnlyWritten
    <3>2. m2[barrier(c[i])] = m[barrier(c[i])]
      BY <1>2, <1>4, <2>1, <3>1
    <3>3. QED
      BY <1>1, <1>2, <2>1, <3>1, <3>2
  <2>3. CASE i = n
    <3>1. barrier(t) \notin Writable(t)
      BY <1>1, <1>2, WritableBetween
    <3>2. barrier(t) \in t.bp..barrier(t)
      BY <1>1, <1>2
    <3>3. m2[barrier(t)] = m[barrier(t)]
      BY <1>5, <2>1, <2>3, <3>1, <3>2
    <3>4. QED
      BY <2>1, <2>3, <3>3 DEF OnlyWritten
  <2>4. QED
    BY <1>1, <2>2, <2>3
<1>7. ASSUME NEW j \in 2..n PROVE LinkedBack(m2, c, j)
  <2> DEFINE r == c[j].bp + offset[c[j].fn]["__ret_addr__"]
             p == c[j].bp + offset[c[j].fn]["__base_ptr__"]
  <2>1. j \in 1..n /\ LinkedBack(m, c, j) /\ c[j].bp > 0
    BY <1>1 DEF Sound
  <2>2. /\ r \in c[j].bp..(barrier(c[j]) - 1) /\ p \in c[j].bp..(barrier(c[j]) - 1)
        /\ r \notin Writable(c[j]) /\ p \notin Writable(c[j])
    BY <1>1, <2>1, WritableBetween
  <2>3. m2[r] = m[r] /\ m2[p] = m[p]
    <3> HIDE DEF r, p
    <3>1. CASE j < n
      <4>1. barrier(c[j]) < t.bp /\ barrier(c[j]) \in Nat /\ c[j].bp \in Nat /\ t.bp \in Nat
        BY <1>1, <1>2, <1>3, <2>1, <3>1
      <4>2. r \in Nat /\ r > 0 /\ r < t.bp /\ p \in Nat /\ p > 0 /\ p < t.bp
        BY <2>1, <2>2, <4>1
      <4>3. QED
        BY <1>4, <4>2
    <3>2. CASE j = n
      <4>1. r \in t.bp..barrier(t) /\ p \in t.bp..barrier(t) /\ t.bp > 0
        BY <1>1, <1>2, <2>1, <2>2, <3>2
      <4>2. QED
        BY <1>5, <2>2, <3>2, <4>1
    <3>3. QED
      BY <1>1, <3>1, <3>2
  <2>4. QED
    BY <2>1, <2>3 DEF LinkedBack
<1>8. QED
  BY <1>6, <1>7 DEF Sound

-----------------------------------------------------------------------------
(* What each instruction does to the memory.                               *)

\* The call that is running.
running == [fn |-> ip.fn, site |-> ip.site, bp |-> rbp]

LEMMA RunningFacts ==
    ASSUME TypeOK, Sound(mem, active)
    PROVE  /\ running \in Calls
           /\ active \in Seq(Calls) /\ active # << >>
           /\ Len(callers) \in Nat /\ Len(active) = Len(callers) + 1
           /\ active[Len(active)] = running
           /\ \A j \in 1..Len(callers) : active[j] = callers[j] /\ callers[j] \in Calls
           /\ Len(mem) \in Nat /\ rbp \in Nat /\ rbp > 0
           /\ barrier(running) = rbp + Len(layout[ip.fn])
           /\ barrier(running) \in Nat /\ barrier(running) > rbp
           /\ barrier(running) <= Len(mem)
           /\ mem[barrier(running)] = Barrier
           /\ depth = Len(mem) - barrier(running)
<1>1. running \in Calls
  BY DEF TypeOK, running, Calls
<1>2. active = Append(callers, running)
  BY DEF active, running
<1>3. callers \in Seq(Calls)
  BY DEF TypeOK
<1> HIDE DEF running
<1>4. /\ active \in Seq(Calls) /\ active # << >>
      /\ Len(callers) \in Nat /\ Len(active) = Len(callers) + 1
      /\ active[Len(active)] = running
      /\ \A j \in 1..Len(callers) : active[j] = callers[j] /\ callers[j] \in Calls
  BY <1>1, <1>2, <1>3
<1>5. running.bp = rbp /\ running.fn = ip.fn
  BY DEF running
<1>6. barrier(running) = rbp + Len(layout[ip.fn])
  BY <1>5 DEF barrier
<1>7. barrier(running) \in Nat /\ barrier(running) > rbp
  BY <1>1, <1>5, WritableBetween
<1>8. Len(active) \in 1..Len(active)
  BY <1>4
<1>9. rbp > 0 /\ barrier(running) <= Len(mem) /\ mem[barrier(running)] = Barrier
  BY <1>4, <1>5, <1>8 DEF Sound
<1>10. Len(mem) \in Nat /\ rbp \in Nat
  BY DEF TypeOK
<1>11. depth = Len(mem) - barrier(running)
  BY <1>6 DEF depth, rsp
<1>12. QED
  BY <1>1, <1>4, <1>6, <1>7, <1>9, <1>10, <1>11

LEMMA WordsTyped ==
    /\ \A n \in Int : Num(n) \in Words /\ Addr(n) \in Words
    /\ \A f \in DOMAIN Functions, s \in Int : Ret(f, s) \in Words
    /\ Host \in Words /\ Table \in Words /\ Barrier \in Words /\ Junk \in Words
<1>1. Main \in DOMAIN Functions
  BY FramesAssumption
<1>2. QED
  BY <1>1 DEF Num, Addr, Ret, Host, Table, Barrier, Junk, Word, Words, Kinds

(***************************************************************************)
(* An instruction that stays in its frame keeps the invariant.             *)
(***************************************************************************)
LEMMA StraightInv ==
    ASSUME Inv, mem' \in Seq(Words), OnlyWritten(mem, mem', running),
           UNCHANGED <<rbp, ip, callers>>, r14' = r14, over' \in BOOLEAN
    PROVE  Inv'
<1>1. TypeOK /\ Sound(mem, active) /\ r14 = Table
  BY DEF Inv, FunctionTableKept
<1>2. active' = active
  BY DEF active
<1>3. active \in Seq(Calls) /\ active # << >> /\ active[Len(active)] = running
  BY <1>1, RunningFacts
<1>4. Len(mem') \in Nat
  OBVIOUS
<1>5. Sound(mem', active)
  BY <1>1, <1>3, <1>4, SoundAfterWrite
<1>6. rbp' \in DOMAIN mem'
  <2>1. rbp \in Nat /\ rbp > 0 /\ barrier(running) > rbp /\ barrier(running) \in Nat
    BY <1>1, RunningFacts
  <2>2. barrier(running) <= Len(mem')
    BY DEF OnlyWritten
  <2>3. rbp \in 1..Len(mem')
    BY <1>4, <2>1, <2>2
  <2>4. QED
    BY <2>3
<1>7. TypeOK'
  BY <1>1, <1>6 DEF TypeOK
<1>8. Sound(mem', active')
  BY <1>2, <1>5
<1>9. QED
  BY <1>1, <1>7, <1>8 DEF Inv, FunctionTableKept

(***************************************************************************)
(* A word that is pushed.                                                  *)
(***************************************************************************)
LEMMA PushWrites ==
    ASSUME Inv, NEW w \in Words, mem' = Append(mem, w)
    PROVE  /\ mem' \in Seq(Words) /\ Len(mem') = Len(mem) + 1
           /\ \A a \in 1..Len(mem) : mem'[a] = mem[a]
           /\ mem'[Len(mem) + 1] = w
           /\ OnlyWritten(mem, mem', running)
<1>1. mem \in Seq(Words)
  BY DEF Inv, TypeOK
<1>2. /\ mem' \in Seq(Words) /\ Len(mem') = Len(mem) + 1
      /\ \A a \in 1..Len(mem) : mem'[a] = mem[a]
      /\ mem'[Len(mem) + 1] = w
  BY <1>1
<1>3. barrier(running) \in Nat /\ barrier(running) <= Len(mem) /\ Len(mem) \in Nat
  BY RunningFacts DEF Inv
<1>4. OnlyWritten(mem, mem', running)
  BY <1>2, <1>3 DEF OnlyWritten
<1>5. QED
  BY <1>2, <1>4

LEMMA PushInv == ASSUME Inv, Push PROVE Inv'
<1>1. PICK n \in Numbers : mem' = Append(mem, Num(n)) /\ Straight
  BY DEF Push
<1>2. Num(n) \in Words
  BY FramesAssumption, WordsTyped
<1>3. over \in BOOLEAN
  BY DEF Inv, TypeOK
<1>4. QED
  BY <1>1, <1>2, <1>3, PushWrites, StraightInv DEF Straight

\* The slot of a variable of the running frame.
LEMMA SlotFacts ==
    ASSUME Inv, NEW x \in locals[ip.fn] \cup {"__rsp__"}
    PROVE  /\ slot(x) \in Nat /\ slot(x) >= rbp /\ slot(x) < barrier(running)
           /\ slot(x) \in 1..Len(mem)
           /\ slot(x) \in Writable(running)
<1>1. /\ running \in Calls /\ rbp \in Nat /\ rbp > 0 /\ barrier(running) \in Nat
      /\ barrier(running) <= Len(mem) /\ Len(mem) \in Nat
  BY RunningFacts DEF Inv
<1>2. slot(x) \in Writable(running)
  BY DEF slot, Writable, running
<1>3. slot(x) \in rbp..(barrier(running) - 1)
  <2>1. running.bp = rbp
    BY DEF running
  <2>2. QED
    BY <1>1, <1>2, <2>1, WritableBetween
<1>4. QED
  BY <1>1, <1>2, <1>3

LEMMA LoadInv == ASSUME Inv, ILOAD PROVE Inv'
<1>1. PICK x \in locals[ip.fn] : mem' = Append(mem, at(mem, slot(x))) /\ Straight
  BY DEF ILOAD
<1>2. at(mem, slot(x)) \in Words
  BY SlotFacts DEF at, Inv, TypeOK
<1>3. over \in BOOLEAN
  BY DEF Inv, TypeOK
<1>4. QED
  BY <1>1, <1>2, <1>3, PushWrites, StraightInv DEF Straight

(***************************************************************************)
(* The words that are left when n operands have been popped.               *)
(***************************************************************************)
LEMMA PopWrites ==
    ASSUME Inv, NEW n \in Nat, depth >= n
    PROVE  /\ pop(n) \in Seq(Words) /\ Len(pop(n)) = Len(mem) - n
           /\ Len(pop(n)) >= barrier(running)
           /\ \A a \in 1..(Len(mem) - n) : pop(n)[a] = mem[a]
<1>1. /\ barrier(running) \in Nat /\ Len(mem) \in Nat /\ depth = Len(mem) - barrier(running)
      /\ mem \in Seq(Words)
  BY RunningFacts DEF Inv, TypeOK
<1> DEFINE k == Len(mem) - n
<1>2. k \in Nat /\ k >= barrier(running) /\ k <= Len(mem)
  BY <1>1
<1>3. \A i \in 1..k : mem[i] \in Words
  BY <1>1, <1>2
<1>4. pop(n) = SubSeq(mem, 1, k)
  BY DEF pop, rsp
<1> HIDE DEF k
<1>5. /\ SubSeq(mem, 1, k) \in Seq(Words) /\ Len(SubSeq(mem, 1, k)) = k
      /\ \A i \in 1..k : SubSeq(mem, 1, k)[i] = mem[i]
  BY <1>2, <1>3
<1>6. QED
  BY <1>2, <1>4, <1>5 DEF k

LEMMA OperandFacts ==
    ASSUME Inv, NEW i \in Nat, i > 0, depth >= i
    PROVE  /\ Len(mem) + 1 - i \in 1..Len(mem)
           /\ operand(i) = mem[Len(mem) + 1 - i] /\ operand(i) \in Words
<1>1. /\ barrier(running) \in Nat /\ Len(mem) \in Nat /\ depth = Len(mem) - barrier(running)
      /\ mem \in Seq(Words)
  BY RunningFacts DEF Inv, TypeOK
<1>2. Len(mem) + 1 - i \in 1..Len(mem)
  BY <1>1
<1>3. QED
  BY <1>1, <1>2 DEF operand, at, rsp

LEMMA StoreWrites ==
    ASSUME Inv, NEW x \in locals[ip.fn], depth >= 1,
           mem' = [pop(1) EXCEPT ![slot(x)] = operand(1)]
    PROVE  /\ mem' \in Seq(Words) /\ Len(mem') = Len(mem) - 1
           /\ \A a \in 1..(Len(mem) - 1) :
                 mem'[a] = IF a = slot(x) THEN mem[Len(mem)] ELSE mem[a]
           /\ OnlyWritten(mem, mem', running)
<1>1. /\ pop(1) \in Seq(Words) /\ Len(pop(1)) = Len(mem) - 1
      /\ Len(pop(1)) >= barrier(running)
      /\ \A a \in 1..(Len(mem) - 1) : pop(1)[a] = mem[a]
  BY PopWrites
<1>2. operand(1) = mem[Len(mem)] /\ operand(1) \in Words
  <2>1. Len(mem) \in Nat /\ Len(mem) + 1 - 1 = Len(mem)
    BY DEF Inv, TypeOK
  <2>2. QED
    BY <2>1, OperandFacts
<1>3. slot(x) \in Writable(running) /\ slot(x) \in 1..Len(pop(1))
  BY <1>1, SlotFacts, RunningFacts DEF Inv
<1> DEFINE p == pop(1)
           w == operand(1)
           k == slot(x)
<1> HIDE DEF p, w, k
<1>4. mem' = [p EXCEPT ![k] = w] /\ p \in Seq(Words) /\ w \in Words
  BY <1>1, <1>2 DEF p, w, k
<1>5. /\ mem' \in Seq(Words) /\ Len(mem') = Len(p)
      /\ \A a \in 1..Len(p) : mem'[a] = IF a = k THEN w ELSE p[a]
  <2>1. k \in 1..Len(p)
    BY <1>3 DEF k, p
  <2> DEFINE e == [p EXCEPT ![k] = w]
  <2>2. p \in Seq(Words) /\ w \in Words
    BY <1>4
  <2>3. /\ e \in Seq(Words) /\ Len(e) = Len(p)
        /\ \A a \in 1..Len(p) : e[a] = IF a = k THEN w ELSE p[a]
    BY <2>1, <2>2, ExceptSeq
  <2>4. mem' = e
    BY <1>4
  <2> HIDE DEF e
  <2>5. QED
    BY <2>3, <2>4
<1>6. barrier(running) \in Nat /\ Len(mem) \in Nat
  BY RunningFacts DEF Inv
<1>7. /\ Len(mem') = Len(mem) - 1
      /\ \A a \in 1..(Len(mem) - 1) : mem'[a] = IF a = k THEN w ELSE mem[a]
  BY <1>1, <1>5 DEF p
<1>8. OnlyWritten(mem, mem', running)
  <2>1. Len(mem') >= barrier(running)
    BY <1>1, <1>7
  <2>2. \A a \in 1..barrier(running) : mem'[a] = mem[a] \/ a = k
    BY <1>6, <1>7, <2>1
  <2>3. QED
    BY <1>3, <2>1, <2>2 DEF OnlyWritten, k
<1>9. QED
  BY <1>2, <1>5, <1>7, <1>8 DEF w, k

LEMMA StoreInv == ASSUME Inv, ISTORE PROVE Inv'
<1>1. PICK x \in locals[ip.fn] :
         depth >= 1 /\ mem' = [pop(1) EXCEPT ![slot(x)] = operand(1)] /\ Straight
  BY DEF ISTORE
<1>2. over \in BOOLEAN
  BY DEF Inv, TypeOK
<1>3. QED
  BY <1>1, <1>2, StoreWrites, StraightInv DEF Straight

(***************************************************************************)
(* A call of a C function, aligned or not, gives back the stack and r14,   *)
(* with the results on top.                                                *)
(***************************************************************************)
LEMMA CCallWrites ==
    ASSUME Inv, NEW m \in Seq(Words), Len(m) >= barrier(running),
           NEW results \in Seq(Words), external_c_call(m, results)
    PROVE  /\ r14' = r14
           /\ mem' \in Seq(Words) /\ Len(mem') = Len(m) + Len(results)
           /\ \A a \in 1..Len(m) :
                 mem'[a] = IF a = slot("__rsp__") THEN Addr(Len(m) + 1) ELSE m[a]
           /\ \A i \in 1..Len(results) : mem'[Len(m) + i] = results[i]
<1> DEFINE k == slot("__rsp__")
           n == Len(m)
           q == Append(m, r14)
           saved == [q EXCEPT ![k] = Addr(n + 1)]
           al == aligned(saved)
           after == restored(al)
           back == SubSeq(after, 1, Len(after) - 1)
<1>1. n \in Nat /\ k \in 1..n /\ k \in Nat
  <2>1. /\ k \in Nat /\ k >= rbp /\ k < barrier(running) /\ rbp \in Nat /\ rbp > 0
        /\ barrier(running) \in Nat
    BY SlotFacts, RunningFacts DEF Inv
  <2>2. n \in Nat
    OBVIOUS
  <2> HIDE DEF k, n
  <2>3. n >= barrier(running)
    BY DEF n
  <2>4. QED
    BY <2>1, <2>2, <2>3
<1>2. r14 \in Words /\ Addr(n + 1) \in Words
  BY <1>1, WordsTyped DEF Inv, TypeOK
<1>3. r14' = after[Len(after)] /\ mem' = back \o results
  BY DEF external_c_call
<1> HIDE DEF k, n
<1>4. q \in Seq(Words) /\ Len(q) = n + 1 /\ q[n + 1] = r14 /\ \A a \in 1..n : q[a] = m[a]
  BY <1>2 DEF n
<1> HIDE DEF q
<1>5. /\ saved \in Seq(Words) /\ Len(saved) = n + 1
      /\ \A a \in 1..(n + 1) : saved[a] = IF a = k THEN Addr(n + 1) ELSE q[a]
  <2>1. k \in 1..Len(q) /\ q \in Seq(Words) /\ Addr(n + 1) \in Words
    BY <1>1, <1>2, <1>4
  <2>2. /\ saved \in Seq(Words) /\ Len(saved) = Len(q)
        /\ \A a \in 1..Len(q) : saved[a] = IF a = k THEN Addr(n + 1) ELSE q[a]
    BY <2>1, ExceptSeq
  <2> HIDE DEF saved
  <2>3. QED
    BY <1>4, <2>2
<1> HIDE DEF saved
<1>6. /\ al \in Seq(Words) /\ Len(al) >= n + 1
      /\ \A a \in 1..(n + 1) : al[a] = saved[a]
  <2>1. Junk \in Words
    BY WordsTyped
  <2>2. CASE Len(saved) % 2 = 0
    BY <1>1, <1>5, <2>2 DEF aligned
  <2>3. CASE Len(saved) % 2 # 0
    <3>1. al = Append(saved, Junk)
      BY <2>3 DEF aligned
    <3> HIDE DEF al
    <3>2. QED
      BY <1>1, <1>5, <2>1, <3>1
  <2>4. QED
    BY <2>2, <2>3
<1> HIDE DEF al
<1>7. after = SubSeq(al, 1, n + 1)
  <2>1. k \in DOMAIN al
    BY <1>1, <1>6
  <2>2. at(al, k) = Addr(n + 1)
    <3>1. k \in 1..(n + 1)
      BY <1>1
    <3>2. QED
      BY <1>5, <1>6, <2>1, <3>1 DEF at
  <2>3. at(al, k).n = n + 1
    BY <2>2 DEF Addr, Word
  <2>4. QED
    BY <2>3 DEF restored, k
<1> HIDE DEF after
<1>8. after \in Seq(Words) /\ Len(after) = n + 1 /\ \A a \in 1..(n + 1) : after[a] = saved[a]
  <2> DEFINE l == n + 1
  <2>1. l \in Nat /\ l <= Len(al) /\ \A a \in 1..l : al[a] \in Words
    BY <1>1, <1>6
  <2> HIDE DEF l
  <2>2. /\ SubSeq(al, 1, l) \in Seq(Words) /\ Len(SubSeq(al, 1, l)) = l
        /\ \A a \in 1..l : SubSeq(al, 1, l)[a] = al[a]
    BY <2>1
  <2>3. QED
    BY <1>6, <1>7, <2>2 DEF l
<1>9. back \in Seq(Words) /\ Len(back) = n /\ \A a \in 1..n : back[a] = saved[a]
  <2>1. \A a \in 1..n : after[a] \in Words /\ after[a] = saved[a]
    BY <1>1, <1>8
  <2>2. /\ SubSeq(after, 1, n) \in Seq(Words) /\ Len(SubSeq(after, 1, n)) = n
        /\ \A a \in 1..n : SubSeq(after, 1, n)[a] = after[a]
    BY <1>1, <2>1
  <2>3. back = SubSeq(after, 1, n)
    BY <1>1, <1>8
  <2>4. QED
    BY <2>1, <2>2, <2>3
<1> HIDE DEF back
<1>10. r14' = r14
  <2>1. after[n + 1] = saved[n + 1] /\ n + 1 # k
    BY <1>1, <1>8
  <2>2. saved[n + 1] = q[n + 1]
    BY <1>1, <1>5, <2>1
  <2>3. QED
    BY <1>3, <1>4, <1>8, <2>1, <2>2
<1>11. /\ back \o results \in Seq(Words) /\ Len(back \o results) = Len(back) + Len(results)
       /\ \A i \in 1..(Len(back) + Len(results)) :
             (back \o results)[i] = IF i <= Len(back) THEN back[i] ELSE results[i - Len(back)]
  <2>1. back \in Seq(Words) /\ results \in Seq(Words)
    BY <1>9
  <2>2. QED
    BY <2>1, ConcatProperties
<1>12. ASSUME NEW a \in 1..n
       PROVE  mem'[a] = IF a = k THEN Addr(n + 1) ELSE m[a]
  <2>1. Len(results) \in Nat
    OBVIOUS
  <2>2. mem'[a] = back[a]
    BY <1>1, <1>3, <1>9, <1>11, <2>1
  <2>3. saved[a] = IF a = k THEN Addr(n + 1) ELSE q[a]
    BY <1>1, <1>5
  <2>4. QED
    BY <1>4, <1>9, <2>2, <2>3
<1>13. ASSUME NEW i \in 1..Len(results) PROVE mem'[n + i] = results[i]
  <2>1. Len(results) \in Nat
    OBVIOUS
  <2>2. n + i \in 1..(Len(back) + Len(results)) /\ ~(n + i <= Len(back)) /\ (n + i) - Len(back) = i
    BY <1>1, <1>9, <2>1
  <2>3. QED
    BY <1>3, <1>11, <2>2
<1>14. mem' \in Seq(Words) /\ Len(mem') = n + Len(results)
  BY <1>3, <1>9, <1>11
<1>15. QED
  BY <1>10, <1>12, <1>13, <1>14 DEF n, k

LEMMA NativesTyped ==
    \A f \in DOMAIN Natives : Natives[f].takes \in Nat /\ Natives[f].gives \in BOOLEAN
<1>1. DOMAIN Natives = {"getchar", "putchar", "newarray", "iaload", "iastore"}
  BY DEF Natives
<1>2. /\ Natives["getchar"].takes = 0 /\ Natives["getchar"].gives = TRUE
      /\ Natives["putchar"].takes = 1 /\ Natives["putchar"].gives = FALSE
  BY DEF Natives
<1>3. /\ Natives["newarray"].takes = 1 /\ Natives["newarray"].gives = TRUE
      /\ Natives["iaload"].takes = 2 /\ Natives["iaload"].gives = TRUE
      /\ Natives["iastore"].takes = 3 /\ Natives["iastore"].gives = FALSE
  BY DEF Natives
<1>4. \A f \in DOMAIN Natives : Natives[f].takes \in Nat
  BY <1>1, <1>2, <1>3
<1>5. \A f \in DOMAIN Natives : Natives[f].gives \in BOOLEAN
  BY <1>1, <1>2, <1>3, Zenon
<1>6. QED
  BY <1>4, <1>5

LEMMA NativeWrites ==
    ASSUME Inv, NEW t \in Nat, depth >= t, NEW rax \in Seq(Words),
           external_c_call(pop(t), rax)
    PROVE  /\ r14' = r14
           /\ mem' \in Seq(Words) /\ Len(mem') = Len(mem) - t + Len(rax)
           /\ \A a \in 1..(Len(mem) - t) : a = slot("__rsp__") \/ mem'[a] = mem[a]
           /\ \A i \in 1..Len(rax) : mem'[Len(mem) - t + i] = rax[i]
           /\ OnlyWritten(mem, mem', running)
<1> DEFINE p == pop(t)
           k == slot("__rsp__")
<1>1. /\ p \in Seq(Words) /\ Len(p) = Len(mem) - t /\ Len(p) >= barrier(running)
      /\ \A a \in 1..(Len(mem) - t) : p[a] = mem[a]
  BY PopWrites
<1> HIDE DEF p
<1>2. external_c_call(p, rax)
  BY DEF p
<1>3. /\ r14' = r14
      /\ mem' \in Seq(Words) /\ Len(mem') = Len(p) + Len(rax)
      /\ \A a \in 1..Len(p) : mem'[a] = IF a = k THEN Addr(Len(p) + 1) ELSE p[a]
      /\ \A i \in 1..Len(rax) : mem'[Len(p) + i] = rax[i]
  BY <1>1, <1>2, CCallWrites
<1>4. k \in Writable(running)
  BY SlotFacts
<1>5. barrier(running) \in Nat /\ Len(mem) \in Nat /\ Len(rax) \in Nat
  BY RunningFacts DEF Inv
<1> HIDE DEF k
<1>6. \A a \in 1..(Len(mem) - t) : a = k \/ mem'[a] = mem[a]
  BY <1>1, <1>3
<1>7. OnlyWritten(mem, mem', running)
  <2>1. Len(mem') >= barrier(running)
    BY <1>1, <1>3, <1>5
  <2>2. \A a \in 1..barrier(running) : a \in 1..(Len(mem) - t)
    BY <1>1, <1>5
  <2>3. QED
    BY <1>4, <1>6, <2>1, <2>2 DEF OnlyWritten
<1>8. QED
  BY <1>1, <1>3, <1>6, <1>7 DEF k

LEMMA NativeInv == ASSUME Inv, Native PROVE Inv'
<1>1. PICK f \in DOMAIN Natives :
         /\ depth >= Natives[f].takes
         /\ \E rax \in IF Natives[f].gives THEN {<<Num(n)>> : n \in Numbers} ELSE {<< >>} :
               external_c_call(pop(Natives[f].takes), rax)
         /\ UNCHANGED <<rbp, ip, over, callers>>
  BY DEF Native
<1>2. PICK rax \in IF Natives[f].gives THEN {<<Num(n)>> : n \in Numbers} ELSE {<< >>} :
         external_c_call(pop(Natives[f].takes), rax)
  BY <1>1
<1>3. rax \in Seq(Words)
  <2>1. CASE Natives[f].gives
    <3>1. PICK n \in Numbers : rax = <<Num(n)>>
      BY <1>2, <2>1
    <3>2. Num(n) \in Words
      BY FramesAssumption, WordsTyped
    <3>3. QED
      BY <3>1, <3>2
  <2>2. CASE ~ Natives[f].gives
    BY <1>2, <2>2
  <2>3. QED
    BY <2>1, <2>2
<1>4. Natives[f].takes \in Nat
  BY NativesTyped
<1>5. r14' = r14 /\ mem' \in Seq(Words) /\ OnlyWritten(mem, mem', running)
  BY <1>1, <1>2, <1>3, <1>4, NativeWrites
<1>6. over \in BOOLEAN
  BY DEF Inv, TypeOK
<1>7. QED
  BY <1>1, <1>5, <1>6, StraightInv

\* A frame on top of m: the saved base x and the words j of the variables.
Built(m, x, j) == m \o <<x>> \o j \o <<Barrier>>

(***************************************************************************)
(* What function() builds on the stack: the saved base, the slots of       *)
(* __rsp__ and the variables, the barrier.                                 *)
(***************************************************************************)
LEMMA FrameBuilt ==
    ASSUME NEW m \in Seq(Words), NEW x \in Words, NEW j \in Seq(Words)
    PROVE  /\ Built(m, x, j) \in Seq(Words)
           /\ Len(Built(m, x, j)) = Len(m) + Len(j) + 2
           /\ \A a \in 1..Len(m) : Built(m, x, j)[a] = m[a]
           /\ Built(m, x, j)[Len(m) + 1] = x
           /\ Built(m, x, j)[Len(m) + Len(j) + 2] = Barrier
<1> DEFINE p == Built(m, x, j)
           k == Len(j)
           y == <<x>>
           b == <<Barrier>>
           my == m \o y
           myj == my \o j
           n == Len(m)
<1>1. y \in Seq(Words) /\ Len(y) = 1 /\ y[1] = x
  OBVIOUS
<1>2. b \in Seq(Words) /\ Len(b) = 1 /\ b[1] = Barrier
  BY WordsTyped
<1>3. j \in Seq(Words) /\ Len(j) = k /\ k \in Nat
  OBVIOUS
<1>4. p = myj \o b /\ n \in Nat
  BY DEF Built
<1> HIDE DEF p, k, y, b
<1>5. /\ my \in Seq(Words) /\ Len(my) = Len(m) + Len(y)
      /\ \A i \in 1..(Len(m) + Len(y)) : my[i] = IF i <= Len(m) THEN m[i] ELSE y[i - Len(m)]
  BY <1>1, ConcatProperties
<1> HIDE DEF my
<1>6. my \in Seq(Words) /\ j \in Seq(Words)
  BY <1>3, <1>5
<1>7. /\ myj \in Seq(Words) /\ Len(myj) = Len(my) + Len(j)
      /\ \A i \in 1..(Len(my) + Len(j)) : myj[i] = IF i <= Len(my) THEN my[i] ELSE j[i - Len(my)]
  BY <1>6, ConcatProperties
<1> HIDE DEF myj
<1>8. myj \in Seq(Words) /\ b \in Seq(Words)
  BY <1>2, <1>7
<1>9. /\ myj \o b \in Seq(Words) /\ Len(myj \o b) = Len(myj) + Len(b)
      /\ \A i \in 1..(Len(myj) + Len(b)) :
            (myj \o b)[i] = IF i <= Len(myj) THEN myj[i] ELSE b[i - Len(myj)]
  BY <1>8, ConcatProperties
<1> HIDE DEF n
<1>10. Len(my) = n + 1 /\ Len(myj) = n + 1 + k /\ n \in Nat /\ Len(m) = n
  BY <1>1, <1>3, <1>4, <1>5, <1>7 DEF n
<1>11. p \in Seq(Words) /\ Len(p) = n + k + 2
  <2>1. p \in Seq(Words) /\ Len(p) = Len(myj) + Len(b)
    BY <1>4, <1>9
  <2>2. QED
    BY <1>2, <1>3, <1>10, <2>1
<1>12. ASSUME NEW a \in 1..(n + 1) PROVE p[a] = my[a]
  <2>1. a \in 1..(n + 1 + k + 1) /\ a <= n + 1 + k /\ a \in 1..(n + 1 + k)
    BY <1>3, <1>10
  <2>2. p[a] = myj[a]
    BY <1>2, <1>4, <1>9, <1>10, <2>1
  <2>3. myj[a] = my[a]
    BY <1>3, <1>7, <1>10, <2>1
  <2>4. QED
    BY <2>2, <2>3
<1>13. ASSUME NEW a \in 1..n PROVE p[a] = m[a]
  BY <1>1, <1>5, <1>10, <1>12
<1>14. p[n + 1] = x
  <2>1. n + 1 \in 1..(n + 1) /\ ~(n + 1 <= n) /\ (n + 1) - n = 1
    BY <1>10
  <2>2. my[n + 1] = y[1]
    BY <1>1, <1>5, <1>10, <2>1
  <2>3. QED
    BY <1>1, <1>12, <2>1, <2>2
<1>15. p[n + k + 2] = Barrier
  <2>1. /\ n + k + 2 \in 1..(n + 1 + k + 1) /\ ~(n + k + 2 <= n + 1 + k)
        /\ (n + k + 2) - (n + 1 + k) = 1
    BY <1>3, <1>10
  <2>2. QED
    BY <1>2, <1>4, <1>9, <1>10, <2>1
<1>16. QED
  BY <1>10, <1>11, <1>13, <1>14, <1>15 DEF p, k

LEMMA InitFacts == Init => Inv /\ barrier(running) = Len(mem)
<1> SUFFICES ASSUME Init PROVE Inv /\ barrier(running) = Len(mem)
  OBVIOUS
<1> DEFINE called == <<Host>>
           k == nvars(Main) + 1
<1>1. Main \in DOMAIN Functions
  BY FramesAssumption
<1>2. called \in Seq(Words) /\ Len(called) = 1
  BY WordsTyped
<1>3. /\ nvars(Main) \in Nat /\ nargs(Main) = 0 /\ hidden(Main) = 0
      /\ Len(layout[Main]) = nvars(Main) + 3
  BY <1>1, LayoutEntries DEF hidden
<1>4. /\ mem \in Seq(Words) /\ Len(mem) = 1 + k + 2
      /\ mem[1 + k + 2] = Barrier
  <2>1. mem = called \o <<Addr(0)>> \o [i \in 1 .. k |-> Junk] \o <<Barrier>>
    BY DEF Init, nvars
  <2>2. Addr(0) \in Words /\ k \in Nat
    BY <1>3, WordsTyped
  <2> DEFINE j == [i \in 1 .. k |-> Junk]
  <2>3. j \in Seq(Words) /\ k = Len(j)
    BY <2>2, WordsTyped
  <2>4. mem = Built(called, Addr(0), j)
    BY <2>1 DEF Built
  <2> HIDE DEF called, k, j
  <2>5. mem \in Seq(Words) /\ Len(mem) = Len(called) + k + 2 /\ mem[Len(called) + k + 2] = Barrier
    BY <1>2, <2>2, <2>3, <2>4, FrameBuilt
  <2>6. QED
    BY <1>2, <2>5
<1>5. rbp = 1
  BY <1>2 DEF Init, base
<1>6. ip = [fn |-> Main, site |-> 0] /\ callers = << >> /\ r14 = Table /\ over = FALSE
  BY DEF Init
<1>7. TypeOK
  <2>1. rbp \in DOMAIN mem
    BY <1>3, <1>4, <1>5
  <2>2. ip \in [fn : DOMAIN Functions, site : Nat]
    BY <1>1, <1>6
  <2>3. callers \in Seq(Calls)
    BY <1>6
  <2>4. QED
    BY <1>4, <1>6, <2>1, <2>2, <2>3, WordsTyped DEF TypeOK
<1> DEFINE f == [fn |-> Main, site |-> 0, bp |-> 1]
<1>8. Len(active) = 1 /\ active[1] = f
  BY <1>5, <1>6 DEF active
<1>9. barrier(f) = 1 + k + 2 /\ k \in Nat /\ f.bp = 1 /\ f.fn = Main
  BY <1>3 DEF barrier
<1> HIDE DEF f, k
<1>10. Sound(mem, active)
  <2>1. \A i \in 1..Len(active) : i = 1
    BY <1>8
  <2>2. \A i \in 1..Len(active) : (active[i].fn = Main) <=> (i = 1)
    BY <1>8, <1>9, <2>1
  <2>3. \A i \in 1..Len(active) : active[i].bp > 0 /\ barrier(active[i]) <= Len(mem)
                                    /\ mem[barrier(active[i])] = Barrier
    BY <1>4, <1>8, <1>9, <2>1
  <2>4. \A i, j \in 1..Len(active) : ~(i < j)
    BY <2>1
  <2>5. \A j \in 2..Len(active) : FALSE
    BY <1>8
  <2>6. QED
    BY <2>2, <2>3, <2>4, <2>5 DEF Sound
<1>11. Inv
  BY <1>6, <1>7, <1>10 DEF Inv, FunctionTableKept
<1>12. running = f
  BY <1>5, <1>6 DEF running, f
<1>13. QED
  BY <1>4, <1>9, <1>11, <1>12

LEMMA InitInv == Init => Inv
BY InitFacts

(***************************************************************************)
(* A call builds its frame behind the object reference and the arguments.  *)
(***************************************************************************)
LEMMA InvokeWrites ==
    ASSUME Inv, NEW f \in DOMAIN Functions \ {Main}, NEW s \in Sites,
           depth >= nargs(f) + 1,
           mem' = prologue(f, Append(mem, Ret(ip.fn, s))),
           rbp' = base(f, Append(mem, Ret(ip.fn, s)))
    PROVE  /\ rbp' = Len(mem) - nargs(f) /\ rbp' > barrier(running)
           /\ rbp' \in Nat
           /\ mem' \in Seq(Words)
           /\ Len(mem') = Len(mem) + nvars(f) + 4
           /\ Len(mem') = rbp' + Len(layout[f])
           /\ mem'[Len(mem')] = Barrier
           /\ \A a \in 1..Len(mem) : mem'[a] = mem[a]
           /\ mem'[rbp' + offset[f]["__ret_addr__"]] = Ret(ip.fn, s)
           /\ mem'[rbp' + offset[f]["__base_ptr__"]] = Addr(rbp)
<1> DEFINE called == Append(mem, Ret(ip.fn, s))
           k == nvars(f) + 1
           n == Len(mem)
<1>1. /\ mem \in Seq(Words) /\ n \in Nat /\ rbp \in Nat /\ ip.fn \in DOMAIN Functions
      /\ barrier(running) \in Nat /\ depth = n - barrier(running)
  BY RunningFacts DEF Inv, TypeOK
<1>2. Ret(ip.fn, s) \in Words /\ Addr(rbp) \in Words
  <2>1. s \in Int
    BY FramesAssumption
  <2>2. QED
    BY <1>1, <2>1, WordsTyped
<1>3. /\ called \in Seq(Words) /\ Len(called) = n + 1 /\ called[n + 1] = Ret(ip.fn, s)
      /\ \A a \in 1..n : called[a] = mem[a]
  BY <1>1, <1>2
<1>4. /\ nargs(f) \in Nat /\ nvars(f) \in Nat /\ hidden(f) = 1
      /\ Len(layout[f]) = 1 + nargs(f) + 3 + nvars(f)
      /\ offset[f]["__ret_addr__"] = 1 + nargs(f)
      /\ offset[f]["__base_ptr__"] = 1 + nargs(f) + 1
  BY LayoutEntries, OffsetsReserved DEF hidden
<1> HIDE DEF called
<1> DEFINE j == [i \in 1 .. k |-> Junk]
<1>5. mem' = Built(called, Addr(rbp), j)
  BY DEF called, prologue, nvars, Built
<1>6. k \in Nat /\ j \in Seq(Words) /\ k = Len(j)
  BY <1>4, WordsTyped
<1> HIDE DEF j
<1>7. rbp' = n - nargs(f)
  <2>1. rbp' = Len(called) - 1 - nargs(f)
    BY DEF called, base, nargs
  <2>2. QED
    BY <1>1, <1>3, <1>4, <2>1
<1> HIDE DEF k
<1>8. /\ mem' \in Seq(Words) /\ Len(mem') = Len(called) + k + 2
      /\ \A a \in 1..Len(called) : mem'[a] = called[a]
      /\ mem'[Len(called) + 1] = Addr(rbp) /\ mem'[Len(called) + k + 2] = Barrier
  <2> DEFINE b == Built(called, Addr(rbp), j)
  <2>1. called \in Seq(Words) /\ Addr(rbp) \in Words /\ j \in Seq(Words)
    BY <1>2, <1>3, <1>6
  <2>2. /\ b \in Seq(Words) /\ Len(b) = Len(called) + Len(j) + 2
        /\ \A a \in 1..Len(called) : b[a] = called[a]
        /\ b[Len(called) + 1] = Addr(rbp) /\ b[Len(called) + Len(j) + 2] = Barrier
    BY <2>1, FrameBuilt
  <2> HIDE DEF b
  <2>3. mem' = b /\ Len(j) = k
    BY <1>5, <1>6 DEF b
  <2>4. QED
    BY <2>2, <2>3
<1> HIDE DEF n
<1>9. /\ rbp' > barrier(running) /\ rbp' \in Nat
      /\ Len(mem') = n + nvars(f) + 4
      /\ Len(mem') = rbp' + Len(layout[f])
      /\ rbp' + offset[f]["__ret_addr__"] = n + 1
      /\ rbp' + offset[f]["__base_ptr__"] = n + 2
  <2>1. depth >= nargs(f) + 1
    OBVIOUS
  <2> DEFINE a == nargs(f)
             v == nvars(f)
             d == depth
  <2>2. a \in Nat /\ v \in Nat /\ d >= a + 1 /\ d = n - barrier(running) /\ k = v + 1 /\ rbp' = n - a
    BY <1>1, <1>4, <1>7, <2>1 DEF k
  <2> HIDE DEF a, v, d
  <2>3. rbp' > barrier(running) /\ rbp' \in Nat
    BY <1>1, <2>2
  <2>4. Len(mem') = n + v + 4
    <3>1. Len(mem') = Len(called) + k + 2 /\ Len(called) = n + 1
      BY <1>3, <1>8
    <3>2. QED
      BY <1>1, <2>2, <3>1
  <2>5. /\ Len(mem') = rbp' + (1 + a + 3 + v)
        /\ rbp' + (1 + a) = n + 1 /\ rbp' + (1 + a + 1) = n + 2
    BY <1>1, <2>2, <2>4
  <2>6. QED
    BY <1>4, <2>3, <2>4, <2>5 DEF a, v
<1>10. mem'[Len(mem')] = Barrier /\ mem'[n + 2] = Addr(rbp) /\ mem'[n + 1] = Ret(ip.fn, s)
  <2>1. Len(called) + 1 = n + 2 /\ n + 1 \in 1..Len(called)
    BY <1>1, <1>3
  <2>2. QED
    BY <1>3, <1>8, <2>1
<1>11. \A a \in 1..n : mem'[a] = mem[a]
  BY <1>1, <1>3, <1>8
<1>12. QED
  BY <1>7, <1>8, <1>9, <1>10, <1>11 DEF n

(***************************************************************************)
(* The active calls after a call: the caller has come to a site of it.     *)
(***************************************************************************)
LEMMA InvokeActive ==
    ASSUME Inv, NEW f \in DOMAIN Functions, NEW s \in Sites,
           ip' = [fn |-> f, site |-> 0],
           callers' = Append(callers, [fn |-> ip.fn, site |-> s, bp |-> rbp]),
           rbp' \in Nat
    PROVE  /\ active' \in Seq(Calls) /\ Len(active') = Len(active) + 1
           /\ callers' \in Seq(Calls)
           /\ \A j \in 1..(Len(active) - 1) : active'[j] = active[j]
           /\ active'[Len(active)] = [fn |-> ip.fn, site |-> s, bp |-> rbp]
           /\ active'[Len(active) + 1] = [fn |-> f, site |-> 0, bp |-> rbp']
<1> DEFINE stopped == [fn |-> ip.fn, site |-> s, bp |-> rbp]
           new == [fn |-> f, site |-> 0, bp |-> rbp']
<1>1. stopped \in Calls /\ new \in Calls
  <2>1. s \in Nat
    BY FramesAssumption
  <2>2. ip.fn \in DOMAIN Functions /\ rbp \in Nat
    BY RunningFacts DEF Inv, TypeOK
  <2>3. QED
    BY <2>1, <2>2 DEF Calls
<1>2. /\ callers \in Seq(Calls) /\ Len(callers) \in Nat /\ Len(active) = Len(callers) + 1
      /\ \A j \in 1..Len(callers) : active[j] = callers[j]
  BY RunningFacts DEF Inv, TypeOK
<1>3. active' = Append(callers', new)
  BY DEF active
<1> HIDE DEF stopped, new
<1>4. callers' = Append(callers, stopped)
  BY DEF stopped
<1>5. /\ callers' \in Seq(Calls) /\ Len(callers') = Len(callers) + 1
      /\ callers'[Len(callers) + 1] = stopped
      /\ \A j \in 1..Len(callers) : callers'[j] = callers[j]
  BY <1>1, <1>2, <1>4
<1> DEFINE c == callers'
<1> HIDE DEF c
<1>6. Append(c, new) \in Seq(Calls) /\ Len(Append(c, new)) = Len(c) + 1
      /\ Append(c, new)[Len(c) + 1] = new /\ \A j \in 1..Len(c) : Append(c, new)[j] = c[j]
  BY <1>1, <1>5 DEF c
<1>7. /\ active' \in Seq(Calls) /\ Len(active') = Len(callers) + 2
      /\ active'[Len(callers) + 2] = new
      /\ \A j \in 1..(Len(callers) + 1) : active'[j] = callers'[j]
  BY <1>2, <1>3, <1>5, <1>6 DEF c
<1>8. active'[Len(callers) + 1] = stopped /\ \A j \in 1..Len(callers) : active'[j] = active[j]
  BY <1>2, <1>5, <1>7
<1>9. QED
  BY <1>2, <1>5, <1>7, <1>8 DEF stopped, new

LEMMA InvokeInv == ASSUME Inv, INVOKEVIRTUAL PROVE Inv'
<1>1. PICK f \in DOMAIN Functions \ {Main}, s \in Sites :
         /\ depth >= Len(Functions[f].args) + 1
         /\ mem' = prologue(f, Append(mem, Ret(ip.fn, s)))
         /\ rbp' = base(f, Append(mem, Ret(ip.fn, s)))
         /\ ip' = [fn |-> f, site |-> 0]
         /\ callers' = Append(callers, [fn |-> ip.fn, site |-> s, bp |-> rbp])
         /\ UNCHANGED <<r14, over>>
  BY DEF INVOKEVIRTUAL
<1>2. depth >= nargs(f) + 1
  BY <1>1 DEF nargs
<1>3. /\ rbp' > barrier(running) /\ rbp' \in Nat /\ mem' \in Seq(Words)
      /\ Len(mem') = Len(mem) + nvars(f) + 4
      /\ Len(mem') = rbp' + Len(layout[f])
      /\ mem'[Len(mem')] = Barrier
      /\ \A a \in 1..Len(mem) : mem'[a] = mem[a]
      /\ mem'[rbp' + offset[f]["__ret_addr__"]] = Ret(ip.fn, s)
      /\ mem'[rbp' + offset[f]["__base_ptr__"]] = Addr(rbp)
  BY <1>1, <1>2, InvokeWrites
<1> DEFINE n == Len(active)
           c == active
           c2 == active'
           stopped == [fn |-> ip.fn, site |-> s, bp |-> rbp]
           new == [fn |-> f, site |-> 0, bp |-> rbp']
<1>4. /\ c2 \in Seq(Calls) /\ Len(c2) = n + 1
      /\ callers' \in Seq(Calls)
      /\ \A j \in 1..(n - 1) : c2[j] = c[j]
      /\ c2[n] = stopped /\ c2[n + 1] = new
  BY <1>1, <1>3, InvokeActive
<1>5. /\ c \in Seq(Calls) /\ n \in Nat /\ n >= 1 /\ c[n] = running
      /\ Len(mem) \in Nat /\ rbp > 0 /\ rbp \in Nat
      /\ barrier(running) \in Nat /\ barrier(running) <= Len(mem)
  <2>1. n = Len(callers) + 1 /\ Len(callers) \in Nat
    BY RunningFacts DEF Inv
  <2>2. QED
    BY <2>1, RunningFacts DEF Inv
<1>6. Sound(mem, c)
  BY DEF Inv
<1>7. /\ stopped.fn = running.fn /\ stopped.bp = running.bp /\ barrier(stopped) = barrier(running)
      /\ stopped.fn = ip.fn /\ stopped.bp = rbp /\ stopped.site = s
  BY DEF running, barrier
<1>8. new.fn = f /\ new.bp = rbp' /\ barrier(new) = Len(mem')
  BY <1>3 DEF barrier
<1>9. f # Main /\ nvars(f) \in Nat
  BY LayoutEntries
<1> HIDE DEF n, c, c2, stopped, new
<1>10. \A j \in 1..n : c2[j].fn = c[j].fn /\ c2[j].bp = c[j].bp /\ barrier(c2[j]) = barrier(c[j])
  <2> TAKE j \in 1..n
  <2>1. CASE j = n
    BY <1>4, <1>5, <1>7, <2>1
  <2>2. CASE j # n
    <3>1. j \in 1..(n - 1)
      BY <1>5, <2>2
    <3>2. QED
      BY <1>4, <3>1
  <2>3. QED
    BY <2>1, <2>2
<1>11. \A j \in 1..n : /\ c[j].bp \in Nat /\ c[j].bp > 0 /\ barrier(c[j]) \in Nat
                       /\ barrier(c[j]) <= barrier(running) /\ c[j].bp < barrier(c[j])
  <2> TAKE j \in 1..n
  <2>1. c[j] \in Calls /\ c[j].bp > 0
    BY <1>5, <1>6 DEF Sound, n, c
  <2>2. c[j].bp \in Nat /\ barrier(c[j]) \in Nat /\ c[j].bp < barrier(c[j])
    BY <2>1, WritableBetween DEF Calls
  <2>3. barrier(c[j]) <= barrier(running)
    <3>1. CASE j = n
      BY <1>5, <3>1
    <3>2. CASE j < n
      <4>1. barrier(c[j]) < c[n].bp
        BY <1>5, <1>6, <3>2 DEF Sound, n, c
      <4>2. c[n].bp = rbp /\ barrier(running) > rbp
        BY <1>5, RunningFacts DEF running, Inv
      <4>3. QED
        BY <1>5, <2>2, <4>1, <4>2
    <3>3. QED
      BY <1>5, <3>1, <3>2
  <2>4. QED
    BY <2>1, <2>2, <2>3
<1>12. \A i \in 1..(n + 1) : i \in 1..n \/ i = n + 1
  BY <1>5
<1>13. \A i \in 1..(n + 1) : (c2[i].fn = Main) <=> (i = 1)
  <2>1. \A i \in 1..n : (c2[i].fn = Main) <=> (i = 1)
    BY <1>6, <1>10 DEF Sound, n, c
  <2>2. c2[n + 1].fn # Main /\ n + 1 # 1
    BY <1>4, <1>5, <1>8, <1>9
  <2>3. QED
    BY <1>12, <2>1, <2>2
<1>14. ASSUME NEW i \in 1..(n + 1)
       PROVE  c2[i].bp > 0 /\ barrier(c2[i]) <= Len(mem') /\ mem'[barrier(c2[i])] = Barrier
  <2>1. CASE i \in 1..n
    <3>1. c2[i].bp > 0
      BY <1>10, <1>11, <2>1
    <3>2. mem[barrier(c[i])] = Barrier
      BY <1>6, <2>1 DEF Sound, n, c
    <3>3. barrier(c[i]) \in 1..Len(mem)
      BY <1>5, <1>11, <2>1
    <3>4. Len(mem) <= Len(mem')
      BY <1>3, <1>5, <1>9
    <3>5. mem'[barrier(c[i])] = Barrier
      BY <1>3, <3>2, <3>3
    <3>6. Len(mem') \in Nat
      BY <1>3
    <3>7. barrier(c[i]) <= Len(mem')
      BY <1>5, <3>3, <3>4, <3>6
    <3>8. QED
      BY <1>10, <2>1, <3>1, <3>5, <3>7
  <2>2. CASE i = n + 1
    <3>1. rbp' > 0 /\ Len(mem') \in Nat
      BY <1>3, <1>5
    <3>2. QED
      BY <1>3, <1>4, <1>8, <2>2, <3>1
  <2>3. QED
    BY <1>12, <2>1, <2>2
<1>15. ASSUME NEW i \in 1..(n + 1), NEW j \in 1..(n + 1), i < j
       PROVE  barrier(c2[i]) < c2[j].bp
  <2>1. i \in 1..n
    BY <1>5, <1>15
  <2>2. CASE j \in 1..n
    <3>1. barrier(c[i]) < c[j].bp
      BY <1>6, <1>15, <2>1, <2>2 DEF Sound, n, c
    <3>2. QED
      BY <1>10, <2>1, <2>2, <3>1
  <2>3. CASE j = n + 1
    <3>1. barrier(c[i]) \in Nat /\ barrier(c[i]) <= barrier(running) /\ c2[j].bp = rbp'
      BY <1>4, <1>8, <1>11, <2>1, <2>3
    <3>2. rbp' > barrier(running) /\ rbp' \in Nat /\ barrier(running) \in Nat
      BY <1>3, <1>5
    <3>3. barrier(c2[i]) = barrier(c[i])
      BY <1>10, <2>1
    <3>4. QED
      BY <3>1, <3>2, <3>3
  <2>4. QED
    BY <1>12, <2>2, <2>3
<1>16. ASSUME NEW j \in 2..(n + 1) PROVE LinkedBack(mem', c2, j)
  <2>1. CASE j \in 2..n
    <3>1. LinkedBack(mem, c, j)
      BY <1>6, <2>1 DEF Sound, n, c
    <3>2. j \in 1..n /\ j - 1 \in 1..(n - 1)
      BY <1>5, <2>1
    <3>3. c2[j].fn = c[j].fn /\ c2[j].bp = c[j].bp /\ c2[j - 1] = c[j - 1]
      BY <1>4, <1>10, <3>2
    <3>4. c[j] \in Calls
      BY <1>5, <3>2 DEF n, c
    <3> DEFINE r == c[j].bp + offset[c[j].fn]["__ret_addr__"]
               p == c[j].bp + offset[c[j].fn]["__base_ptr__"]
    <3>5. /\ r \in c[j].bp..(barrier(c[j]) - 1) /\ p \in c[j].bp..(barrier(c[j]) - 1)
      BY <3>4, WritableBetween
    <3> HIDE DEF r, p
    <3>6. r \in 1..Len(mem) /\ p \in 1..Len(mem)
      <4>1. c[j].bp \in Nat /\ c[j].bp > 0 /\ barrier(c[j]) \in Nat /\ barrier(c[j]) <= Len(mem)
        BY <1>5, <1>11, <3>2
      <4>2. QED
        BY <1>5, <3>5, <4>1
    <3>7. mem'[r] = mem[r] /\ mem'[p] = mem[p]
      BY <1>3, <3>6
    <3>8. QED
      BY <3>1, <3>3, <3>7 DEF LinkedBack, r, p
  <2>2. CASE j = n + 1
    <3>1. j - 1 = n
      BY <1>5, <2>2
    <3>2. c2[j] = new /\ c2[j - 1] = stopped
      BY <1>4, <2>2, <3>1
    <3>3. QED
      BY <1>3, <1>7, <1>8, <3>2 DEF LinkedBack
  <2>3. j \in 2..n \/ j = n + 1
    BY <1>5
  <2>4. QED
    BY <2>1, <2>2, <2>3
<1>17. Sound(mem', active')
  <2>1. Sound(mem', c2)
    BY <1>4, <1>13, <1>14, <1>15, <1>16 DEF Sound
  <2>2. QED
    BY <2>1 DEF c2
<1>18. TypeOK'
  <2>1. rbp' \in DOMAIN mem'
    <3>1. rbp' \in Nat /\ rbp' > 0 /\ Len(mem') = rbp' + Len(layout[f]) /\ Len(layout[f]) \in Nat
      <4>1. rbp' > barrier(running) /\ rbp' \in Nat /\ barrier(running) \in Nat
        BY <1>3, <1>5
      <4>2. Len(layout[f]) \in Nat
        BY FrameLayout
      <4>3. QED
        BY <1>3, <4>1, <4>2
    <3>2. rbp' \in 1..Len(mem')
      BY <3>1
    <3>3. QED
      BY <1>3, <3>2
  <2>2. ip' \in [fn : DOMAIN Functions, site : Nat]
    BY <1>1
  <2>3. r14' \in Words /\ over' \in BOOLEAN
    BY <1>1 DEF Inv, TypeOK
  <2>4. QED
    BY <1>3, <1>4, <2>1, <2>2, <2>3 DEF TypeOK
<1>19. FunctionTableKept'
  BY <1>1 DEF Inv, FunctionTableKept
<1>20. QED
  BY <1>17, <1>18, <1>19 DEF Inv

(***************************************************************************)
(* A return finds its caller, and puts the result where the object         *)
(* reference was.                                                          *)
(***************************************************************************)
LEMMA ReturnWrites ==
    ASSUME Inv, IRETURN
    PROVE  /\ Len(callers) >= 1
           /\ active' = callers
           /\ callers' \in Seq(Calls)
           /\ mem' \in Seq(Words) /\ Len(mem') = rbp
           /\ \A a \in 1..(rbp - 1) : mem'[a] = mem[a]
           /\ mem'[rbp] = mem[Len(mem)]
           /\ ip' = [fn |-> callers[Len(callers)].fn, site |-> callers[Len(callers)].site]
           /\ rbp' = callers[Len(callers)].bp
<1> DEFINE n == Len(callers)
           l == callers[n]
<1>1. /\ n \in Nat /\ Len(active) = n + 1 /\ active[n + 1] = running
      /\ callers \in Seq(Calls)
      /\ \A j \in 1..n : active[j] = callers[j]
      /\ Len(mem) \in Nat /\ rbp \in Nat /\ rbp > 0 /\ mem \in Seq(Words)
      /\ barrier(running) \in Nat /\ barrier(running) <= Len(mem) /\ barrier(running) > rbp
      /\ Sound(mem, active) /\ running \in Calls
      /\ running.fn = ip.fn /\ running.bp = rbp
  BY RunningFacts DEF Inv, TypeOK, running
<1>2. ip.fn # Main /\ depth >= 1
  BY DEF IRETURN
<1>3. n >= 1
  <2>1. n + 1 \in 1..Len(active)
    BY <1>1
  <2>2. n + 1 # 1
    BY <1>1, <1>2, <2>1 DEF Sound
  <2>3. QED
    BY <1>1, <2>2
<1>4. l \in Calls
  BY <1>1, <1>3
<1>5. LinkedBack(mem, active, n + 1) /\ active[n] = l
  <2>1. n + 1 \in 2..Len(active) /\ n \in 1..n
    BY <1>1, <1>3
  <2>2. QED
    BY <1>1, <2>1 DEF Sound
<1>6. /\ at(mem, slot("__ret_addr__")) = Ret(l.fn, l.site)
      /\ at(mem, slot("__base_ptr__")) = Addr(l.bp)
  <2> DEFINE r == rbp + offset[ip.fn]["__ret_addr__"]
             p == rbp + offset[ip.fn]["__base_ptr__"]
  <2>1. r \in rbp..(barrier(running) - 1) /\ p \in rbp..(barrier(running) - 1)
    BY <1>1, WritableBetween
  <2>2. slot("__ret_addr__") = r /\ slot("__base_ptr__") = p
    BY DEF slot
  <2>3. mem[r] = Ret(l.fn, l.site) /\ mem[p] = Addr(l.bp)
    <3>1. (n + 1) - 1 = n
      BY <1>1
    <3>2. QED
      BY <1>1, <1>5, <3>1 DEF LinkedBack
  <2> HIDE DEF r, p
  <2>4. r \in DOMAIN mem /\ p \in DOMAIN mem
    <3>1. r \in 1..Len(mem) /\ p \in 1..Len(mem)
      BY <1>1, <2>1
    <3>2. QED
      BY <1>1, <3>1
  <2>5. QED
    BY <2>2, <2>3, <2>4 DEF at
<1>7. ip' = [fn |-> l.fn, site |-> l.site] /\ rbp' = l.bp
  <2>1. Ret(l.fn, l.site).fn = l.fn /\ Ret(l.fn, l.site).n = l.site /\ Addr(l.bp).n = l.bp
    BY DEF Ret, Addr, Word
  <2>2. ip' = [fn |-> at(mem, slot("__ret_addr__")).fn, site |-> at(mem, slot("__ret_addr__")).n]
        /\ rbp' = at(mem, slot("__base_ptr__")).n
    BY DEF IRETURN
  <2>3. QED
    BY <1>6, <2>1, <2>2
<1>8. active' = callers /\ callers' \in Seq(Calls)
  <2>1. callers' = Front(callers)
    BY DEF IRETURN
  <2>2. active' = Append(callers', [fn |-> l.fn, site |-> l.site, bp |-> l.bp])
    BY <1>7 DEF active
  <2>3. [fn |-> l.fn, site |-> l.site, bp |-> l.bp] = l
    BY <1>4 DEF Calls
  <2>4. Front(callers) = SubSeq(callers, 1, n - 1)
    BY DEF Front
  <2> DEFINE k == n - 1
  <2>5. k \in Nat /\ \A i \in 1..k : callers[i] \in Calls
    BY <1>1, <1>3
  <2> HIDE DEF l
  <2>6. /\ SubSeq(callers, 1, k) \in Seq(Calls) /\ Len(SubSeq(callers, 1, k)) = k
        /\ \A i \in 1..k : SubSeq(callers, 1, k)[i] = callers[i]
    <3> HIDE DEF k
    <3>1. QED
      BY <2>5
  <2> DEFINE fr == SubSeq(callers, 1, k)
  <2> HIDE DEF fr
  <2>7. fr \in Seq(Calls) /\ Len(fr) = n - 1 /\ \A i \in 1..(n - 1) : fr[i] = callers[i]
    BY <2>6 DEF fr
  <2>8. Append(fr, l) = callers
    <3>1. Append(fr, l) \in Seq(Calls) /\ Len(Append(fr, l)) = n
          /\ \A i \in 1..n : Append(fr, l)[i] = callers[i]
      <4>1. Append(fr, l) \in Seq(Calls) /\ Len(Append(fr, l)) = n
        BY <1>1, <1>3, <1>4, <2>7
      <4>2. ASSUME NEW i \in 1..(n - 1) PROVE Append(fr, l)[i] = callers[i]
        BY <1>1, <2>7
      <4>3. Append(fr, l)[n] = callers[n]
        BY <1>1, <1>3, <2>7 DEF l
      <4>4. \A i \in 1..n : i \in 1..(n - 1) \/ i = n
        BY <1>1
      <4>5. QED
        BY <4>1, <4>2, <4>3, <4>4
    <3>2. QED
      BY <1>1, <3>1, SeqEqual
  <2>9. QED
    BY <2>1, <2>2, <2>3, <2>4, <2>7, <2>8 DEF fr, k
<1>9. /\ mem' \in Seq(Words) /\ Len(mem') = rbp
      /\ \A a \in 1..(rbp - 1) : mem'[a] = mem[a]
      /\ mem'[rbp] = mem[Len(mem)]
  <2> DEFINE k == rbp - 1
             m == SubSeq(mem, 1, k)
  <2>1. k \in Nat /\ k <= Len(mem) /\ \A i \in 1..k : mem[i] \in Words
    BY <1>1
  <2>2. mem' = Append(m, operand(1))
    BY DEF IRETURN
  <2>3. operand(1) = mem[Len(mem)] /\ operand(1) \in Words
    <3>1. Len(mem) + 1 - 1 = Len(mem)
      BY <1>1
    <3>2. QED
      BY <1>2, <3>1, OperandFacts
  <2>4. m \in Seq(Words) /\ Len(m) = k /\ \A i \in 1..k : m[i] = mem[i]
    <3> HIDE DEF k
    <3>1. QED
      BY <2>1
  <2> HIDE DEF m
  <2> DEFINE w == operand(1)
  <2> HIDE DEF w
  <2>5. mem' = Append(m, w) /\ w \in Words
    BY <2>2, <2>3 DEF w
  <2>6. mem' \in Seq(Words) /\ Len(mem') = k + 1 /\ mem'[k + 1] = w /\ \A i \in 1..k : mem'[i] = m[i]
    BY <2>4, <2>5
  <2>7. k + 1 = rbp
    BY <1>1
  <2>8. QED
    BY <2>3, <2>4, <2>6, <2>7 DEF w
<1>10. QED
  BY <1>3, <1>7, <1>8, <1>9

LEMMA ReturnInv == ASSUME Inv, IRETURN PROVE Inv'
<1> DEFINE n == Len(callers)
<1>1. /\ n >= 1 /\ n \in Nat
      /\ active' = callers
      /\ callers' \in Seq(Calls)
      /\ mem' \in Seq(Words) /\ Len(mem') = rbp
      /\ \A a \in 1..(rbp - 1) : mem'[a] = mem[a]
      /\ ip' = [fn |-> callers[n].fn, site |-> callers[n].site]
      /\ rbp' = callers[n].bp
  BY ReturnWrites, RunningFacts DEF Inv
<1>2. /\ Len(active) = n + 1 /\ active[n + 1] = running
      /\ callers \in Seq(Calls)
      /\ \A j \in 1..n : active[j] = callers[j] /\ callers[j] \in Calls
      /\ rbp \in Nat /\ rbp > 0 /\ running.bp = rbp
      /\ Sound(mem, active)
  BY RunningFacts DEF Inv, TypeOK, running
<1>3. \A i \in 1..n : /\ callers[i].bp \in Nat /\ callers[i].bp > 0
                      /\ barrier(callers[i]) \in Nat /\ barrier(callers[i]) > callers[i].bp
                      /\ barrier(callers[i]) <= rbp - 1
  <2> TAKE i \in 1..n
  <2>1. i \in 1..Len(active) /\ n + 1 \in 1..Len(active) /\ i < n + 1
    BY <1>1, <1>2
  <2>2. barrier(active[i]) < active[n + 1].bp /\ active[i].bp > 0
    BY <1>2, <2>1 DEF Sound
  <2>3. callers[i] \in Calls
    BY <1>2
  <2>4. callers[i].bp \in Nat /\ barrier(callers[i]) \in Nat /\ barrier(callers[i]) > callers[i].bp
    BY <2>3, WritableBetween DEF Calls
  <2>5. QED
    BY <1>2, <2>2, <2>4
<1>4. \A i \in 1..n : i \in 1..Len(active)
  BY <1>1, <1>2
<1>5. \A i \in 1..n : (callers[i].fn = Main) <=> (i = 1)
  BY <1>2, <1>4 DEF Sound
<1>6. ASSUME NEW i \in 1..n
      PROVE  /\ callers[i].bp > 0 /\ barrier(callers[i]) <= Len(mem')
             /\ mem'[barrier(callers[i])] = Barrier
  <2>1. mem[barrier(callers[i])] = Barrier
    BY <1>2, <1>4 DEF Sound
  <2>2. barrier(callers[i]) \in 1..(rbp - 1)
    BY <1>2, <1>3
  <2>3. QED
    BY <1>1, <1>2, <1>3, <2>1, <2>2
<1>7. \A i, j \in 1..n : i < j => barrier(callers[i]) < callers[j].bp
  BY <1>2, <1>4 DEF Sound
<1>8. ASSUME NEW j \in 2..n PROVE LinkedBack(mem', callers, j)
  <2>1. j \in 1..n /\ j - 1 \in 1..n /\ j \in 2..Len(active)
    BY <1>1, <1>2
  <2>2. LinkedBack(mem, active, j) /\ active[j] = callers[j] /\ active[j - 1] = callers[j - 1]
    BY <1>2, <2>1 DEF Sound
  <2> DEFINE r == callers[j].bp + offset[callers[j].fn]["__ret_addr__"]
             p == callers[j].bp + offset[callers[j].fn]["__base_ptr__"]
  <2>3. /\ r \in callers[j].bp..(barrier(callers[j]) - 1)
        /\ p \in callers[j].bp..(barrier(callers[j]) - 1)
    BY <1>2, <2>1, WritableBetween
  <2> HIDE DEF r, p
  <2>4. r \in 1..(rbp - 1) /\ p \in 1..(rbp - 1)
    BY <1>2, <1>3, <2>1, <2>3
  <2>5. mem'[r] = mem[r] /\ mem'[p] = mem[p]
    BY <1>1, <2>4
  <2>6. QED
    BY <2>2, <2>5 DEF LinkedBack, r, p
<1>9. Sound(mem', active')
  <2>1. Sound(mem', callers)
    BY <1>5, <1>6, <1>7, <1>8 DEF Sound
  <2>2. QED
    BY <1>1, <2>1
<1>10. TypeOK'
  <2>1. rbp' \in DOMAIN mem'
    <3>1. rbp' \in 1..Len(mem')
      BY <1>1, <1>2, <1>3
    <3>2. QED
      BY <1>1, <3>1
  <2>2. ip' \in [fn : DOMAIN Functions, site : Nat]
    <3>1. callers[n] \in Calls
      BY <1>1, <1>2
    <3>2. QED
      BY <1>1, <3>1 DEF Calls
  <2>3. r14' \in Words /\ over' \in BOOLEAN
    BY DEF IRETURN, Inv, TypeOK
  <2>4. QED
    BY <1>1, <2>1, <2>2, <2>3 DEF TypeOK
<1>11. FunctionTableKept'
  BY DEF IRETURN, Inv, FunctionTableKept
<1>12. QED
  BY <1>9, <1>10, <1>11 DEF Inv

LEMMA NextInv == Inv /\ [Next]_vars => Inv'
<1> SUFFICES ASSUME Inv, [Next]_vars PROVE Inv'
  OBVIOUS
<1>1. ASSUME UNCHANGED <<machine, callers, over>> PROVE Inv'
  <2>1. UNCHANGED <<mem, rbp, r14, ip, callers, over>>
    BY <1>1 DEF machine
  <2>2. active' = active
    BY <2>1 DEF active
  <2>3. TypeOK' /\ FunctionTableKept' /\ Sound(mem', active')
    BY <2>1, <2>2 DEF Inv, TypeOK, FunctionTableKept
  <2>4. QED
    BY <2>3 DEF Inv
<1>2. CASE Exit
  <2>1. UNCHANGED <<mem, rbp, r14, ip, callers>> /\ over' = TRUE
    BY <1>2 DEF Exit, machine
  <2>2. active' = active
    BY <2>1 DEF active
  <2>3. TypeOK' /\ FunctionTableKept' /\ Sound(mem', active')
    BY <2>1, <2>2 DEF Inv, TypeOK, FunctionTableKept
  <2>4. QED
    BY <2>3 DEF Inv
<1>3. CASE UNCHANGED vars
  BY <1>1, <1>3 DEF vars
<1>4. CASE Over
  BY <1>1, <1>4 DEF Over, vars
<1>5. QED
  BY <1>2, <1>3, <1>4, PushInv, LoadInv, StoreInv, InvokeInv, ReturnInv, NativeInv
     DEF Next, Step

LEMMA InvKeepsRuntime == Inv => RuntimeKept
<1> SUFFICES ASSUME Inv PROVE RuntimeKept
  OBVIOUS
<1>1. TypeOK /\ FunctionTableKept /\ Sound(mem, active) /\ mem \in Seq(Words)
  BY DEF Inv, TypeOK
<1>2. /\ active \in Seq(Calls) /\ Len(callers) \in Nat /\ Len(active) = Len(callers) + 1
      /\ \A j \in 1..Len(callers) : active[j] = callers[j]
      /\ callers \in Seq(Calls)
  BY <1>1, RunningFacts DEF TypeOK
<1>3. ASSUME NEW j \in DOMAIN active PROVE at(mem, barrier(active[j])) = Barrier
  <2>1. j \in 1..Len(active) /\ active[j] \in Calls
    BY <1>2
  <2>2. /\ barrier(active[j]) \in Nat /\ barrier(active[j]) > active[j].bp /\ active[j].bp \in Nat
        /\ barrier(active[j]) <= Len(mem) /\ mem[barrier(active[j])] = Barrier
    BY <1>1, <2>1, WritableBetween DEF Sound, Calls
  <2>3. barrier(active[j]) \in DOMAIN mem
    BY <1>1, <2>2
  <2>4. QED
    BY <2>2, <2>3 DEF at
<1>4. ASSUME NEW j \in DOMAIN callers
      PROVE  LET f == active[j + 1]
             IN  /\ at(mem, f.bp + offset[f.fn]["__ret_addr__"])
                       = Ret(callers[j].fn, callers[j].site)
                 /\ at(mem, f.bp + offset[f.fn]["__base_ptr__"]) = Addr(callers[j].bp)
  <2> DEFINE f == active[j + 1]
             r == f.bp + offset[f.fn]["__ret_addr__"]
             p == f.bp + offset[f.fn]["__base_ptr__"]
  <2>1. j \in 1..Len(callers) /\ j + 1 \in 2..Len(active) /\ j + 1 \in 1..Len(active)
        /\ (j + 1) - 1 = j
    BY <1>2
  <2>2. LinkedBack(mem, active, j + 1) /\ active[j] = callers[j]
    BY <1>1, <1>2, <2>1 DEF Sound
  <2>3. f \in Calls
    BY <1>2, <2>1
  <2>4. mem[r] = Ret(callers[j].fn, callers[j].site) /\ mem[p] = Addr(callers[j].bp)
    BY <2>1, <2>2 DEF LinkedBack
  <2>5. f.bp > 0 /\ barrier(f) <= Len(mem)
    BY <1>1, <2>1 DEF Sound
  <2>6. r \in f.bp..(barrier(f) - 1) /\ p \in f.bp..(barrier(f) - 1) /\ f.bp \in Nat /\ barrier(f) \in Nat
    BY <2>3, WritableBetween DEF Calls
  <2> HIDE DEF f, r, p
  <2>7. r \in DOMAIN mem /\ p \in DOMAIN mem
    BY <1>1, <2>5, <2>6
  <2>8. at(mem, r) = Ret(callers[j].fn, callers[j].site) /\ at(mem, p) = Addr(callers[j].bp)
    BY <2>4, <2>7 DEF at
  <2>9. QED
    BY <2>8 DEF f, r, p
<1>5. BarriersIntact
  BY <1>3 DEF BarriersIntact
<1>6. LinksIntact
  BY <1>4 DEF LinksIntact
<1>7. QED
  BY <1>1, <1>5, <1>6 DEF RuntimeKept

(***************************************************************************)
(* For every program, whatever it stores and calls and however the stack   *)
(* is aligned, r14 survives the C functions, every active frame keeps its  *)
(* barrier, and every call the address and the base to which it returns    *)
(* (x64_assembler.cpp:185-204, 272-291, 508-534).                          *)
(***************************************************************************)
THEOREM RuntimeAlwaysKept == Spec => []RuntimeKept
<1>1. QED
  BY InitInv, NextInv, InvKeepsRuntime, PTL DEF Spec

-----------------------------------------------------------------------------
(* The machine implements the frames of IjvmFrames.                        *)

(***************************************************************************)
(* A frame's operands are a window of the memory: what a change of the     *)
(* memory means for the window.                                            *)
(***************************************************************************)
LEMMA Window ==
    ASSUME NEW m \in Seq(Words), NEW b \in Nat, NEW l \in Nat, b <= l, l <= Len(m)
    PROVE  /\ SubSeq(m, b + 1, l) \in Seq(Words)
           /\ Len(SubSeq(m, b + 1, l)) = l - b
           /\ \A i \in 1..(l - b) : SubSeq(m, b + 1, l)[i] = m[b + i]
<1> DEFINE k == b + 1
<1>1. k \in Nat /\ k >= 1 /\ l + 1 - k = l - b /\ \A i \in k..l : m[i] \in Words
  OBVIOUS
<1>2. \A i \in 1..(l - b) : k + i - 1 = b + i
  OBVIOUS
<1> HIDE DEF k
<1>3. /\ SubSeq(m, k, l) \in Seq(Words)
      /\ Len(SubSeq(m, k, l)) = IF k <= l THEN l + 1 - k ELSE 0
      /\ \A i \in 1..(l + 1 - k) : SubSeq(m, k, l)[i] = m[k + i - 1]
  BY <1>1
<1>4. Len(SubSeq(m, k, l)) = l - b
  BY <1>1, <1>3
<1>5. QED
  BY <1>1, <1>2, <1>3, <1>4 DEF k

LEMMA WindowPop ==
    ASSUME NEW m \in Seq(Words), NEW m2 \in Seq(Words), NEW b \in Nat, NEW l \in Nat,
           NEW k \in Nat, b <= l - k, l <= Len(m), l - k <= Len(m2),
           \A a \in 1..(l - k) : a > b => m2[a] = m[a]
    PROVE  SubSeq(m2, b + 1, l - k)
              = SubSeq(SubSeq(m, b + 1, l), 1, Len(SubSeq(m, b + 1, l)) - k)
<1> DEFINE h == l - k
           w == SubSeq(m, b + 1, l)
           v == SubSeq(m2, b + 1, h)
           n == h - b
<1>1. h \in Nat /\ b <= h /\ b <= l /\ n \in Nat /\ (l - b) - k = n /\ n <= l - b
      /\ h <= Len(m2)
  OBVIOUS
<1>2. w \in Seq(Words) /\ Len(w) = l - b /\ \A i \in 1..(l - b) : w[i] = m[b + i]
  BY <1>1, Window
<1> HIDE DEF h
<1>3. v \in Seq(Words) /\ Len(v) = n /\ \A i \in 1..n : v[i] = m2[b + i]
  BY <1>1, Window
<1>4. \A i \in 1..n : i \in 1..(l - b) /\ b + i \in 1..h /\ b + i > b
  BY <1>1
<1>5. \A i \in 1..n : v[i] = w[i]
  <2>1. \A a \in 1..h : a > b => m2[a] = m[a]
    BY DEF h
  <2>2. QED
    BY <1>2, <1>3, <1>4, <2>1
<1> HIDE DEF w, v, n
<1>6. \A i \in 1..n : w[i] \in Words
  BY <1>3, <1>5
<1>7. SubSeq(w, 1, n) \in Seq(Words) /\ Len(SubSeq(w, 1, n)) = n
      /\ \A i \in 1..n : SubSeq(w, 1, n)[i] = w[i]
  BY <1>1, <1>6
<1>8. v = SubSeq(w, 1, n)
  BY <1>3, <1>5, <1>7, SeqEqual
<1>9. Len(w) - k = n
  BY <1>1, <1>2
<1>10. QED
  BY <1>8, <1>9 DEF v, w, h

LEMMA WindowSame ==
    ASSUME NEW m \in Seq(Words), NEW m2 \in Seq(Words), NEW b \in Nat, NEW l \in Nat,
           b <= l, l <= Len(m), l <= Len(m2),
           \A a \in 1..l : a > b => m2[a] = m[a]
    PROVE  SubSeq(m2, b + 1, l) = SubSeq(m, b + 1, l)
<1> DEFINE w == SubSeq(m, b + 1, l)
           v == SubSeq(m2, b + 1, l)
           n == l - b
<1>1. w \in Seq(Words) /\ Len(w) = n /\ \A i \in 1..n : w[i] = m[b + i]
  BY Window
<1>2. v \in Seq(Words) /\ Len(v) = n /\ \A i \in 1..n : v[i] = m2[b + i]
  BY Window
<1>3. \A i \in 1..n : b + i \in 1..l /\ b + i > b
  OBVIOUS
<1>4. \A i \in 1..n : v[i] = w[i]
  BY <1>1, <1>2, <1>3
<1> HIDE DEF w, v, n
<1>5. v = w
  BY <1>1, <1>2, <1>4, SeqEqual
<1>6. QED
  BY <1>5 DEF v, w

LEMMA WindowPush ==
    ASSUME NEW m \in Seq(Words), NEW m2 \in Seq(Words), NEW b \in Nat, NEW l \in Nat,
           b <= l, l <= Len(m), l + 1 <= Len(m2),
           \A a \in 1..l : a > b => m2[a] = m[a]
    PROVE  SubSeq(m2, b + 1, l + 1) = Append(SubSeq(m, b + 1, l), m2[l + 1])
<1> DEFINE w == SubSeq(m, b + 1, l)
           v == SubSeq(m2, b + 1, l + 1)
           n == l - b
           x == m2[l + 1]
<1>1. w \in Seq(Words) /\ Len(w) = n /\ \A i \in 1..n : w[i] = m[b + i]
  BY Window
<1>2. v \in Seq(Words) /\ Len(v) = n + 1 /\ \A i \in 1..(n + 1) : v[i] = m2[b + i]
  <2> DEFINE h == l + 1
  <2>1. h \in Nat /\ b <= h /\ h <= Len(m2) /\ h - b = n + 1
    OBVIOUS
  <2> HIDE DEF h
  <2>2. SubSeq(m2, b + 1, h) \in Seq(Words) /\ Len(SubSeq(m2, b + 1, h)) = h - b
        /\ \A i \in 1..(h - b) : SubSeq(m2, b + 1, h)[i] = m2[b + i]
    BY <2>1, Window
  <2>3. QED
    BY <2>1, <2>2 DEF h
<1>3. /\ n \in Nat /\ x \in Words /\ b + (n + 1) = l + 1
      /\ \A i \in 1..n : b + i \in 1..l /\ b + i > b
  OBVIOUS
<1>4. \A i \in 1..n : v[i] = w[i]
  <2>1. \A i \in 1..n : i \in 1..(n + 1)
    BY <1>3
  <2>2. QED
    BY <1>1, <1>2, <1>3, <2>1
<1>5. v[n + 1] = x
  <2>1. n + 1 \in 1..(n + 1) /\ b + (n + 1) = l + 1
    BY <1>3
  <2> HIDE DEF v, n
  <2>2. v[n + 1] = m2[b + (n + 1)]
    BY <1>2, <2>1
  <2>3. QED
    BY <2>1, <2>2
<1> HIDE DEF w, v, n, x
<1>6. /\ Append(w, x) \in Seq(Words) /\ Len(Append(w, x)) = n + 1
      /\ Append(w, x)[n + 1] = x /\ \A i \in 1..n : Append(w, x)[i] = w[i]
  BY <1>1, <1>3
<1>7. \A i \in 1..(n + 1) : v[i] = Append(w, x)[i]
  <2>1. \A i \in 1..(n + 1) : i \in 1..n \/ i = n + 1
    BY <1>3
  <2>2. QED
    BY <1>4, <1>5, <1>6, <2>1
<1>8. v = Append(w, x)
  BY <1>2, <1>6, <1>7, SeqEqual
<1>9. QED
  BY <1>8 DEF v, w, x

(***************************************************************************)
(* The frames seen in a memory m when c are active.                        *)
(***************************************************************************)
Seen(m, c) == [j \in DOMAIN c |-> frame(m, c, j)]

LEMMA SeenFacts ==
    ASSUME NEW m, NEW c \in Seq(Calls), NEW S,
           \A j \in 1..Len(c) : frame(m, c, j) \in S
    PROVE  /\ Seen(m, c) \in Seq(S) /\ Len(Seen(m, c)) = Len(c)
           /\ \A j \in 1..Len(c) : Seen(m, c)[j] = frame(m, c, j)
<1>1. DOMAIN c = 1..Len(c) /\ Len(c) \in Nat
  OBVIOUS
<1>2. Seen(m, c) = [j \in 1..Len(c) |-> frame(m, c, j)]
  BY <1>1 DEF Seen
<1>3. \A j \in 1..Len(c) : Seen(m, c)[j] = frame(m, c, j)
  BY <1>2
<1>4. Seen(m, c) \in [1..Len(c) -> S]
  BY <1>2
<1>5. QED
  BY <1>1, <1>3, <1>4

LEMMA TopReplaced ==
    ASSUME NEW S, NEW s \in Seq(S), NEW t \in Seq(S), Len(s) >= 1, Len(t) = Len(s),
           \A i \in 1..(Len(s) - 1) : t[i] = s[i]
    PROVE  t = Append(SubSeq(s, 1, Len(s) - 1), t[Len(t)])
<1> DEFINE n == Len(s) - 1
           f == SubSeq(s, 1, n)
           x == t[Len(t)]
<1>1. n \in Nat /\ Len(t) = n + 1 /\ x \in S /\ \A i \in 1..n : s[i] \in S
  OBVIOUS
<1> HIDE DEF n, x
<1>2. f \in Seq(S) /\ Len(f) = n /\ \A i \in 1..n : f[i] = s[i]
  BY <1>1
<1> HIDE DEF f
<1>3. /\ Append(f, x) \in Seq(S) /\ Len(Append(f, x)) = n + 1
      /\ Append(f, x)[n + 1] = x /\ \A i \in 1..n : Append(f, x)[i] = f[i]
  BY <1>1, <1>2
<1>4. \A i \in 1..(n + 1) : t[i] = Append(f, x)[i]
  <2>1. \A i \in 1..(n + 1) : i \in 1..n \/ i = n + 1
    BY <1>1
  <2>2. t[n + 1] = x /\ \A i \in 1..n : t[i] = s[i]
    BY <1>1 DEF x, n
  <2>3. QED
    BY <1>2, <1>3, <2>1, <2>2
<1>5. t = Append(f, x)
  BY <1>1, <1>3, <1>4, SeqEqual
<1>6. QED
  BY <1>5 DEF f, x, n

(***************************************************************************)
(* A suspended frame is the same in two memories that agree below its      *)
(* callee.                                                                 *)
(***************************************************************************)
LEMMA FrameKept ==
    ASSUME NEW m \in Seq(Words), NEW m2 \in Seq(Words),
           NEW c \in Seq(Calls), NEW d \in Seq(Calls), NEW i \in Nat, i >= 1,
           i < Len(c), i < Len(d), d[i] = c[i], d[i + 1].bp = c[i + 1].bp,
           barrier(c[i]) < c[i + 1].bp, c[i].bp > 0,
           c[i + 1].bp - 1 <= Len(m), c[i + 1].bp - 1 <= Len(m2),
           \A a \in 1..(c[i + 1].bp - 1) : m2[a] = m[a]
    PROVE  frame(m2, d, i) = frame(m, c, i)
<1> DEFINE f == c[i]
           b == barrier(f)
           l == c[i + 1].bp - 1
<1>1. f \in Calls /\ c[i + 1] \in Calls
  OBVIOUS
<1>2. b \in Nat /\ b > f.bp /\ f.bp \in Nat /\ f.fn \in DOMAIN Functions /\ c[i + 1].bp \in Nat
  BY <1>1, WritableBetween DEF Calls
<1>3. b <= l /\ l \in Nat
  BY <1>2
<1>4. limit(m, c, i) = l /\ limit(m2, d, i) = l
  BY DEF limit
<1> HIDE DEF f, b, l
<1>5. SubSeq(m2, b + 1, l) = SubSeq(m, b + 1, l)
  <2>1. l <= Len(m) /\ l <= Len(m2) /\ \A a \in 1..l : m2[a] = m[a]
    BY DEF l
  <2>2. QED
    BY <1>2, <1>3, <2>1, WindowSame
<1>6. ASSUME NEW x \in locals[f.fn]
      PROVE  at(m2, f.bp + offset[f.fn][x]) = at(m, f.bp + offset[f.fn][x])
  <2> DEFINE a == f.bp + offset[f.fn][x]
  <2>1. a \in f.bp..(b - 1)
    <3>1. a \in Writable(f)
      BY DEF Writable
    <3>2. QED
      BY <1>1, <3>1, WritableBetween DEF b, f
  <2>2. f.bp > 0
    BY DEF f
  <2> HIDE DEF a
  <2>3. a \in 1..l
    BY <1>2, <1>3, <2>1, <2>2
  <2>4. m2[a] = m[a] /\ l <= Len(m) /\ l <= Len(m2)
    BY <2>3 DEF l
  <2>5. a \in 1..Len(m) /\ a \in 1..Len(m2)
    <3>1. Len(m) \in Nat /\ Len(m2) \in Nat
      OBVIOUS
    <3>2. QED
      BY <1>3, <2>3, <2>4, <3>1
  <2>6. a \in DOMAIN m /\ a \in DOMAIN m2
    BY <2>5
  <2>7. QED
    BY <2>4, <2>6 DEF at, a
<1>7. /\ frame(m, c, i) = [fn |-> f.fn, site |-> f.site,
            locals |-> [x \in locals[f.fn] |-> at(m, f.bp + offset[f.fn][x])],
            stack |-> SubSeq(m, b + 1, l)]
      /\ frame(m2, d, i) = [fn |-> f.fn, site |-> f.site,
            locals |-> [x \in locals[f.fn] |-> at(m2, f.bp + offset[f.fn][x])],
            stack |-> SubSeq(m2, b + 1, l)]
  BY <1>4 DEF frame, b, f
<1>8. [x \in locals[f.fn] |-> at(m2, f.bp + offset[f.fn][x])]
         = [x \in locals[f.fn] |-> at(m, f.bp + offset[f.fn][x])]
  BY <1>6
<1>9. QED
  BY <1>5, <1>7, <1>8

\* A frame, and what becomes of it when one of its fields is replaced.
Frame(f, s, l, k) == [fn |-> f, site |-> s, locals |-> l, stack |-> k]

LEMMA FrameFields ==
    ASSUME NEW f, NEW s, NEW l, NEW k
    PROVE  /\ Frame(f, s, l, k).fn = f /\ Frame(f, s, l, k).site = s
           /\ Frame(f, s, l, k).locals = l /\ Frame(f, s, l, k).stack = k
BY DEF Frame

LEMMA FrameUpdates ==
    ASSUME NEW f, NEW s, NEW l, NEW k, NEW v
    PROVE  /\ [Frame(f, s, l, k) EXCEPT !.site = v] = Frame(f, v, l, k)
           /\ [Frame(f, s, l, k) EXCEPT !.stack = v] = Frame(f, s, l, v)
BY DEF Frame

LEMMA FramePush ==
    ASSUME NEW f, NEW s, NEW l, NEW k, NEW w, NEW p, p = Frame(f, s, l, k)
    PROVE  [p EXCEPT !.stack = Append(@, w)] = Frame(f, s, l, Append(k, w))
BY DEF Frame

LEMMA FramePop ==
    ASSUME NEW f, NEW s, NEW l, NEW k, NEW n, NEW p, p = Frame(f, s, l, k)
    PROVE  [p EXCEPT !.stack = Ijvm!keep(@, n)] = Frame(f, s, l, Ijvm!keep(k, n))
BY DEF Frame

LEMMA Popped ==
    ASSUME NEW f, NEW s, NEW l, NEW k, NEW n, Ijvm!top = Frame(f, s, l, k)
    PROVE  Ijvm!popped(n) = Frame(f, s, l, SubSeq(k, 1, Len(k) - n))
<1> DEFINE p == Ijvm!top
<1>1. p = Frame(f, s, l, k)
  OBVIOUS
<1> HIDE DEF p
<1>2. [p EXCEPT !.stack = Ijvm!keep(@, n)] = Frame(f, s, l, Ijvm!keep(k, n))
  BY <1>1, FramePop
<1>3. QED
  BY <1>2 DEF Ijvm!popped, p, Ijvm!keep

(***************************************************************************)
(* The running frame, and what is the same when the instruction stays in   *)
(* it.                                                                     *)
(***************************************************************************)
RunningLocals(m) == [x \in locals[ip.fn] |-> at(m, slot(x))]
RunningStack(m)  == SubSeq(m, barrier(running) + 1, Len(m))

LEMMA RunningFrame ==
    ASSUME Inv, NEW m
    PROVE  frame(m, active, Len(active)) =
              Frame(ip.fn, ip.site, RunningLocals(m), RunningStack(m))
<1>1. active[Len(active)] = running
  BY RunningFacts DEF Inv
<1>2. limit(m, active, Len(active)) = Len(m)
  BY DEF limit
<1>3. running.fn = ip.fn /\ running.site = ip.site /\ running.bp = rbp
  BY DEF running
<1>4. QED
  BY <1>1, <1>2, <1>3 DEF frame, Frame, RunningLocals, RunningStack, slot

LEMMA StackFacts ==
    ASSUME Inv
    PROVE  /\ RunningStack(mem) \in Seq(Words) /\ Len(RunningStack(mem)) = depth
           /\ depth \in Nat
           /\ \A i \in 1..depth : RunningStack(mem)[depth + 1 - i] = operand(i)
           /\ depth >= 1 => RunningStack(mem)[Len(RunningStack(mem))] = mem[Len(mem)]
<1> DEFINE b == barrier(running)
           l == Len(mem)
           w == RunningStack(mem)
<1>1. b \in Nat /\ l \in Nat /\ b <= l /\ depth = l - b /\ mem \in Seq(Words) /\ depth \in Nat
  BY RunningFacts DEF Inv, TypeOK
<1> HIDE DEF b, l
<1>2. w \in Seq(Words) /\ Len(w) = l - b /\ \A i \in 1..(l - b) : w[i] = mem[b + i]
  <2>1. w = SubSeq(mem, b + 1, l)
    BY DEF RunningStack, b, l
  <2>2. l <= Len(mem)
    BY <1>1 DEF l
  <2>3. QED
    BY <1>1, <2>1, <2>2, Window
<1> HIDE DEF w
<1>3. ASSUME NEW i \in 1..depth PROVE w[depth + 1 - i] = operand(i)
  <2> DEFINE d == depth
  <2>1. i \in Nat /\ i > 0 /\ depth >= i
    BY <1>1
  <2>2. operand(i) = mem[l + 1 - i]
    BY <2>1, OperandFacts DEF l
  <2>3. d \in Nat /\ d = l - b /\ i \in 1..d
    BY <1>1
  <2> HIDE DEF d
  <2>4. d + 1 - i \in 1..(l - b) /\ b + (d + 1 - i) = l + 1 - i
    BY <1>1, <2>3
  <2>5. QED
    BY <1>2, <2>2, <2>4 DEF d
<1>4. ASSUME depth >= 1 PROVE w[Len(w)] = mem[l]
  <2> DEFINE d == depth
  <2>1. d \in Nat /\ d = l - b /\ d >= 1
    BY <1>1, <1>4
  <2> HIDE DEF d
  <2>2. l - b \in 1..(l - b) /\ b + (l - b) = l
    BY <1>1, <2>1
  <2>3. QED
    BY <1>2, <2>2
<1>5. Len(w) = depth
  BY <1>1, <1>2
<1>6. QED
  BY <1>1, <1>2, <1>3, <1>4, <1>5 DEF w, l

\* The variables other than the one written.
LEMMA LocalsKept ==
    ASSUME Inv, NEW m, m \in Seq(Words), OnlyWritten(mem, m, running), NEW x \in locals[ip.fn],
           m[slot(x)] = mem[slot(x)]
    PROVE  at(m, slot(x)) = at(mem, slot(x))
<1>1. /\ slot(x) \in Nat /\ slot(x) < barrier(running) /\ slot(x) \in 1..Len(mem)
      /\ barrier(running) \in Nat /\ mem \in Seq(Words) /\ Len(m) >= barrier(running) /\ Len(m) \in Nat
  BY SlotFacts, RunningFacts DEF Inv, TypeOK, OnlyWritten
<1> DEFINE a == slot(x)
<1> HIDE DEF a
<1>2. a \in 1..Len(m)
  BY <1>1 DEF a
<1>3. a \in DOMAIN m /\ a \in DOMAIN mem
  BY <1>1, <1>2 DEF a
<1>4. QED
  BY <1>3 DEF at, a

LEMMA SlotsDiffer ==
    ASSUME Inv, NEW x \in locals[ip.fn]
    PROVE  /\ \A y \in locals[ip.fn] : slot(x) = slot(y) => x = y
           /\ slot(x) # slot("__rsp__")
<1> DEFINE f == ip.fn
           o == offset[f]
<1>1. f \in DOMAIN Functions /\ rbp \in Nat
  BY RunningFacts DEF Inv, TypeOK
<1>2. /\ \A y \in locals[f] : o[y] \in Nat /\ o[y] # o["__rsp__"]
      /\ o["__rsp__"] \in Nat
  <2>1. \A k \in 0..(Len(layout[f]) - 1) : k \in Nat
    OBVIOUS
  <2>2. QED
    BY <1>1, <2>1, FrameLayout
<1>3. \A y \in locals[f] : y \in ToSet(layout[f])
  BY <1>1, OffsetsLocals
<1>4. \A y \in locals[f] : layout[f][o[y] + 1] = y
  BY <1>1, <1>3, OffsetLast
<1>5. \A y \in locals[f] : slot(y) = rbp + o[y]
  BY DEF slot
<1>6. slot("__rsp__") = rbp + o["__rsp__"]
  BY DEF slot
<1>7. x \in locals[f]
  OBVIOUS
<1> HIDE DEF f, o
<1>8. ASSUME NEW y \in locals[f], slot(x) = slot(y) PROVE x = y
  <2>1. o[x] = o[y]
    <3>1. rbp + o[x] = rbp + o[y]
      BY <1>5, <1>7, <1>8
    <3>2. o[x] \in Nat /\ o[y] \in Nat
      BY <1>2, <1>7
    <3>3. QED
      BY <1>1, <3>1, <3>2
  <2>2. QED
    BY <1>4, <1>7, <2>1
<1>9. slot(x) # slot("__rsp__")
  <2>1. slot(x) = rbp + o[x] /\ o[x] \in Nat /\ o[x] # o["__rsp__"]
    BY <1>2, <1>5, <1>7
  <2>2. QED
    BY <1>1, <1>2, <1>6, <2>1
<1>10. QED
  BY <1>8, <1>9 DEF f

(***************************************************************************)
(* When an instruction stays in its frame, the frames below are as they    *)
(* were.                                                                   *)
(***************************************************************************)
LEMMA StraightSeen ==
    ASSUME Inv, mem' \in Seq(Words), OnlyWritten(mem, mem', running),
           UNCHANGED <<rbp, ip, callers>>
    PROVE  /\ seen[Len(seen)] = Frame(ip.fn, ip.site, RunningLocals(mem), RunningStack(mem))
           /\ seen' = Append(SubSeq(seen, 1, Len(seen) - 1),
                             Frame(ip.fn, ip.site, RunningLocals(mem'), RunningStack(mem')))
<1> DEFINE n == Len(active)
           S == {frame(mem, active, j) : j \in 1..n} \cup {frame(mem', active, j) : j \in 1..n}
           m2 == mem'
<1>1. /\ active \in Seq(Calls) /\ n \in Nat /\ n >= 1 /\ active[n] = running
      /\ mem \in Seq(Words) /\ Len(mem) \in Nat /\ Sound(mem, active)
      /\ barrier(running) \in Nat /\ barrier(running) <= Len(mem) /\ running.bp = rbp /\ rbp \in Nat
      /\ barrier(running) > rbp /\ running \in Calls
  <2>1. n = Len(callers) + 1 /\ Len(callers) \in Nat
    BY RunningFacts DEF Inv
  <2>2. QED
    BY <2>1, RunningFacts DEF Inv, TypeOK, running
<1>2. seen = Seen(mem, active) /\ seen' = Seen(m2, active)
  <2>1. active' = active
    BY DEF active
  <2>2. QED
    BY <2>1 DEF seen, Seen
<1>3. /\ seen \in Seq(S) /\ Len(seen) = n /\ \A j \in 1..n : seen[j] = frame(mem, active, j)
  <2>1. \A j \in 1..n : frame(mem, active, j) \in S
    OBVIOUS
  <2> HIDE DEF S
  <2>2. QED
    BY <1>1, <1>2, <2>1, SeenFacts
<1> DEFINE t == Seen(m2, active)
<1>4. t \in Seq(S) /\ Len(t) = n /\ \A j \in 1..n : t[j] = frame(m2, active, j)
  <2>1. \A j \in 1..n : frame(m2, active, j) \in S
    OBVIOUS
  <2> HIDE DEF S, m2
  <2>2. QED
    BY <1>1, <2>1, SeenFacts
<1>5. m2 \in Seq(Words) /\ OnlyWritten(mem, m2, running) /\ Len(m2) \in Nat
  OBVIOUS
<1> HIDE DEF n, S, m2, t
<1>6. ASSUME NEW i \in 1..(n - 1) PROVE frame(m2, active, i) = frame(mem, active, i)
  <2>1. i \in Nat /\ i >= 1 /\ i < n /\ i \in 1..n /\ i + 1 \in 1..n /\ n = Len(active)
    BY <1>1 DEF n
  <2>2. barrier(active[i]) < active[i + 1].bp /\ active[i].bp > 0
    <3>1. i < i + 1 /\ i \in 1..Len(active) /\ i + 1 \in 1..Len(active)
      BY <2>1
    <3> DEFINE k == i + 1
    <3>2. k \in 1..Len(active) /\ i < k
      BY <3>1
    <3> HIDE DEF k
    <3>3. barrier(active[i]) < active[k].bp /\ active[i].bp > 0
      BY <1>1, <3>1, <3>2 DEF Sound
    <3>4. QED
      BY <3>3 DEF k
  <2>3. active[i + 1].bp \in Nat /\ active[i + 1].bp <= rbp
    <3>1. active[i + 1] \in Calls
      BY <1>1, <2>1
    <3>2. active[i + 1].bp \in Nat /\ barrier(active[i + 1]) \in Nat
          /\ barrier(active[i + 1]) > active[i + 1].bp
      BY <3>1, WritableBetween DEF Calls
    <3>3. CASE i + 1 = n
      BY <1>1, <3>2, <3>3
    <3>4. CASE i + 1 < n
      <4>1. barrier(active[i + 1]) < active[n].bp
        BY <1>1, <2>1, <3>4 DEF Sound
      <4>2. QED
        BY <1>1, <3>2, <4>1
    <3>5. QED
      BY <1>1, <2>1, <3>3, <3>4
  <2> DEFINE h == active[i + 1].bp
  <2>4. h - 1 <= Len(mem) /\ h - 1 <= Len(m2)
    <3>1. Len(m2) >= barrier(running)
      BY <1>5 DEF OnlyWritten
    <3> HIDE DEF h
    <3>2. QED
      BY <1>1, <1>5, <2>3, <3>1 DEF h
  <2>5. ASSUME NEW a \in 1..(h - 1) PROVE m2[a] = mem[a]
    <3>1. a \in 1..barrier(running) /\ a < rbp
      <4> HIDE DEF h
      <4>1. QED
        BY <1>1, <2>3 DEF h
    <3>2. \A w \in Writable(running) : w \in rbp..(barrier(running) - 1)
      BY <1>1, WritableBetween
    <3>3. a \notin Writable(running)
      BY <1>1, <3>1, <3>2
    <3>4. QED
      BY <1>5, <3>1, <3>3 DEF OnlyWritten
  <2>6. QED
    <3>1. mem \in Seq(Words) /\ m2 \in Seq(Words) /\ active \in Seq(Calls) /\ i \in Nat
      BY <1>1, <1>5, <2>1
    <3>2. i >= 1 /\ i < Len(active)
      BY <2>1
    <3>3. QED
      BY <2>2, <2>4, <2>5, <3>1, <3>2, FrameKept
<1>7. t = Append(SubSeq(seen, 1, Len(seen) - 1), t[Len(t)])
  <2>1. Len(seen) >= 1 /\ Len(t) = Len(seen)
    BY <1>1, <1>3, <1>4
  <2>2. \A i \in 1..(Len(seen) - 1) : t[i] = seen[i]
    <3>1. \A i \in 1..(n - 1) : i \in 1..n
      BY <1>1
    <3>2. QED
      BY <1>3, <1>4, <1>6, <3>1
  <2>3. QED
    BY <1>3, <1>4, <2>1, <2>2, TopReplaced
<1>8. n \in 1..n
  BY <1>1
<1>9. seen[Len(seen)] = frame(mem, active, n) /\ t[Len(t)] = frame(m2, active, n)
  BY <1>3, <1>4, <1>8
<1>10. /\ frame(mem, active, n) = Frame(ip.fn, ip.site, RunningLocals(mem), RunningStack(mem))
       /\ frame(m2, active, n) = Frame(ip.fn, ip.site, RunningLocals(m2), RunningStack(m2))
  BY RunningFrame DEF n
<1>11. seen' = t
  BY <1>2 DEF t
<1>12. RunningLocals(m2) = RunningLocals(mem') /\ m2 = mem'
  BY DEF m2
<1>13. QED
  BY <1>7, <1>9, <1>10, <1>11 DEF m2

\* A push of w: the variables stay, the operands have w on top.
LEMMA PushSeen ==
    ASSUME Inv, NEW w \in Words, mem' = Append(mem, w), UNCHANGED <<rbp, ip, callers>>
    PROVE  seen' = Append(SubSeq(seen, 1, Len(seen) - 1),
                          [seen[Len(seen)] EXCEPT !.stack = Append(@, w)])
<1>1. /\ mem' \in Seq(Words) /\ Len(mem') = Len(mem) + 1
      /\ \A a \in 1..Len(mem) : mem'[a] = mem[a]
      /\ mem'[Len(mem) + 1] = w
      /\ OnlyWritten(mem, mem', running)
  BY PushWrites
<1>2. /\ barrier(running) \in Nat /\ Len(mem) \in Nat /\ barrier(running) <= Len(mem)
      /\ mem \in Seq(Words)
  BY RunningFacts DEF Inv, TypeOK
<1>3. RunningStack(mem') = Append(RunningStack(mem), w)
  <2> DEFINE b == barrier(running)
             l == Len(mem)
             m2 == mem'
  <2>1. b \in Nat /\ l \in Nat /\ b <= l /\ l <= Len(mem) /\ l + 1 <= Len(m2) /\ m2 \in Seq(Words)
        /\ mem \in Seq(Words)
    BY <1>1, <1>2
  <2>2. \A a \in 1..l : a > b => m2[a] = mem[a]
    BY <1>1
  <2>3. m2[l + 1] = w /\ Len(m2) = l + 1
    BY <1>1
  <2> HIDE DEF b, l, m2
  <2>4. SubSeq(m2, b + 1, l + 1) = Append(SubSeq(mem, b + 1, l), m2[l + 1])
    BY <2>1, <2>2, WindowPush
  <2>5. QED
    BY <2>3, <2>4 DEF RunningStack, b, l, m2
<1>4. RunningLocals(mem') = RunningLocals(mem)
  <2>1. ASSUME NEW x \in locals[ip.fn] PROVE at(mem', slot(x)) = at(mem, slot(x))
    <3>1. mem'[slot(x)] = mem[slot(x)]
      BY <1>1, SlotFacts
    <3>2. QED
      BY <1>1, <3>1, LocalsKept
  <2>2. QED
    BY <2>1 DEF RunningLocals
<1>5. /\ seen[Len(seen)] = Frame(ip.fn, ip.site, RunningLocals(mem), RunningStack(mem))
      /\ seen' = Append(SubSeq(seen, 1, Len(seen) - 1),
                        Frame(ip.fn, ip.site, RunningLocals(mem'), RunningStack(mem')))
  BY <1>1, StraightSeen
<1>6. [seen[Len(seen)] EXCEPT !.stack = Append(@, w)]
         = Frame(ip.fn, ip.site, RunningLocals(mem), Append(RunningStack(mem), w))
  <2> DEFINE p == seen[Len(seen)]
  <2>1. p = Frame(ip.fn, ip.site, RunningLocals(mem), RunningStack(mem))
    BY <1>5
  <2> HIDE DEF p
  <2>2. [p EXCEPT !.stack = Append(@, w)]
           = Frame(ip.fn, ip.site, RunningLocals(mem), Append(RunningStack(mem), w))
    BY <2>1, FramePush
  <2>3. QED
    BY <2>2 DEF p
<1>7. Frame(ip.fn, ip.site, RunningLocals(mem'), RunningStack(mem'))
         = [seen[Len(seen)] EXCEPT !.stack = Append(@, w)]
  BY <1>3, <1>4, <1>6
<1>8. QED
  BY <1>5, <1>7

LEMMA PushStep == ASSUME Inv, Push PROVE Ijvm!Push
<1>1. PICK n \in Numbers : mem' = Append(mem, Num(n)) /\ Straight
  BY DEF Push
<1>2. Num(n) \in Words
  BY FramesAssumption, WordsTyped
<1>3. seen' = Append(SubSeq(seen, 1, Len(seen) - 1),
                     [seen[Len(seen)] EXCEPT !.stack = Append(@, Num(n))])
  BY <1>1, <1>2, PushSeen DEF Straight
<1>4. native' = <<"none">> /\ UNCHANGED over
  BY <1>1 DEF Straight
<1>5. QED
  BY <1>3, <1>4 DEF Ijvm!Push, Ijvm!Becomes, Ijvm!top, Ijvm!callers, Ijvm!NoNative

\* Both modules mean the same variables.
LEMMA LocalsSame ==
    ASSUME NEW f \in DOMAIN Functions
    PROVE  Ijvm!locals(f) = locals[f]
<1>1. Functions[f].args \in Seq(Identifiers) /\ Functions[f].vars \in Seq(Identifiers)
  BY NamesAssumption
<1>2. locals[f] = ToSet(Functions[f].args) \cup ToSet(Functions[f].vars)
  BY <1>1, ToSetConcat DEF locals
<1>3. QED
  BY <1>2 DEF Ijvm!locals, Ijvm!Names, ToSet

\* What the program sees of the frame that is running.
LEMMA TopFacts ==
    ASSUME Inv
    PROVE  /\ Ijvm!top = Frame(ip.fn, ip.site, RunningLocals(mem), RunningStack(mem))
           /\ Ijvm!top.fn = ip.fn /\ Ijvm!top.stack = RunningStack(mem)
           /\ Ijvm!top.locals = RunningLocals(mem)
           /\ Ijvm!locals(Ijvm!top.fn) = locals[ip.fn]
           /\ \A x \in locals[ip.fn] : Ijvm!top.locals[x] = at(mem, slot(x))
<1> DEFINE n == Len(active)
           S == {frame(mem, active, j) : j \in 1..n}
<1>1. active \in Seq(Calls) /\ n \in Nat /\ n >= 1 /\ ip.fn \in DOMAIN Functions
  <2>1. n = Len(callers) + 1 /\ Len(callers) \in Nat
    BY RunningFacts DEF Inv
  <2>2. QED
    BY <2>1, RunningFacts DEF Inv, TypeOK
<1>2. Len(seen) = n /\ \A j \in 1..n : seen[j] = frame(mem, active, j)
  <2>1. seen = Seen(mem, active)
    BY DEF seen, Seen
  <2>2. \A j \in 1..n : frame(mem, active, j) \in S
    OBVIOUS
  <2> HIDE DEF S
  <2>3. QED
    BY <1>1, <2>1, <2>2, SeenFacts
<1>3. Ijvm!top = frame(mem, active, n)
  <2>1. n \in 1..n
    BY <1>1
  <2>2. QED
    BY <1>2, <2>1 DEF Ijvm!top
<1>4. Ijvm!top = Frame(ip.fn, ip.site, RunningLocals(mem), RunningStack(mem))
  BY <1>3, RunningFrame
<1>5. Ijvm!top.fn = ip.fn /\ Ijvm!top.stack = RunningStack(mem) /\ Ijvm!top.locals = RunningLocals(mem)
  BY <1>4, FrameFields
<1>6. Ijvm!locals(Ijvm!top.fn) = locals[ip.fn]
  BY <1>1, <1>5, LocalsSame
<1>7. \A x \in locals[ip.fn] : Ijvm!top.locals[x] = at(mem, slot(x))
  BY <1>5 DEF RunningLocals
<1>8. QED
  BY <1>4, <1>5, <1>6, <1>7

LEMMA LoadStep == ASSUME Inv, ILOAD PROVE Ijvm!Load
<1>1. PICK x \in locals[ip.fn] : mem' = Append(mem, at(mem, slot(x))) /\ Straight
  BY DEF ILOAD
<1>2. at(mem, slot(x)) \in Words
  BY SlotFacts DEF at, Inv, TypeOK
<1> DEFINE w == at(mem, slot(x))
<1>3. seen' = Append(SubSeq(seen, 1, Len(seen) - 1),
                     [seen[Len(seen)] EXCEPT !.stack = Append(@, w)])
  BY <1>1, <1>2, PushSeen DEF Straight
<1>4. native' = <<"none">> /\ UNCHANGED over
  BY <1>1 DEF Straight
<1>5. x \in Ijvm!locals(Ijvm!top.fn) /\ Ijvm!top.locals[x] = w
  BY <1>1, TopFacts
<1> HIDE DEF w
<1>6. Ijvm!Becomes([Ijvm!top EXCEPT !.stack = Append(@, w)])
  BY <1>3, <1>4 DEF Ijvm!Becomes, Ijvm!top, Ijvm!callers, Ijvm!NoNative
<1>7. QED
  BY <1>5, <1>6 DEF Ijvm!Load

LEMMA StoreStep == ASSUME Inv, ISTORE PROVE Ijvm!Store
<1>1. PICK x \in locals[ip.fn] :
         depth >= 1 /\ mem' = [pop(1) EXCEPT ![slot(x)] = operand(1)] /\ Straight
  BY DEF ISTORE
<1>2. /\ mem' \in Seq(Words) /\ Len(mem') = Len(mem) - 1
      /\ \A a \in 1..(Len(mem) - 1) :
            mem'[a] = IF a = slot(x) THEN mem[Len(mem)] ELSE mem[a]
      /\ OnlyWritten(mem, mem', running)
  BY <1>1, StoreWrites
<1>3. /\ barrier(running) \in Nat /\ Len(mem) \in Nat /\ barrier(running) <= Len(mem) - 1
      /\ mem \in Seq(Words)
  BY <1>1, RunningFacts DEF Inv, TypeOK
<1> DEFINE w == mem[Len(mem)]
           s == RunningStack(mem)
<1>4. RunningStack(mem') = SubSeq(s, 1, Len(s) - 1)
  <2> DEFINE b == barrier(running)
             l == Len(mem)
             m2 == mem'
  <2>1. b \in Nat /\ l \in Nat /\ 1 \in Nat /\ b <= l - 1 /\ l <= Len(mem) /\ l - 1 <= Len(m2)
        /\ m2 \in Seq(Words) /\ mem \in Seq(Words)
    BY <1>2, <1>3
  <2>2. \A a \in 1..(l - 1) : a > b => m2[a] = mem[a]
    BY <1>2, <1>3, SlotFacts
  <2>3. Len(m2) = l - 1
    BY <1>2
  <2> HIDE DEF b, l, m2
  <2>4. SubSeq(m2, b + 1, l - 1)
          = SubSeq(SubSeq(mem, b + 1, l), 1, Len(SubSeq(mem, b + 1, l)) - 1)
    BY <2>1, <2>2, WindowPop
  <2>5. QED
    BY <2>3, <2>4 DEF RunningStack, b, l, m2
<1>5. RunningLocals(mem') = [RunningLocals(mem) EXCEPT ![x] = w]
  <2>1. ASSUME NEW y \in locals[ip.fn]
        PROVE  at(mem', slot(y)) = IF y = x THEN w ELSE at(mem, slot(y))
    <3>1. slot(y) \in 1..(Len(mem) - 1)
      BY <1>3, SlotFacts
    <3>2. mem'[slot(y)] = IF slot(y) = slot(x) THEN w ELSE mem[slot(y)]
      BY <1>2, <3>1
    <3>3. slot(x) = slot(y) => x = y
      BY SlotsDiffer
    <3>4. CASE y = x
      <4>1. slot(y) \in DOMAIN mem'
        BY <1>2, <3>1
      <4>2. QED
        BY <3>2, <3>4, <4>1 DEF at
    <3>5. CASE y # x
      <4>1. mem'[slot(y)] = mem[slot(y)]
        BY <3>2, <3>3, <3>5
      <4>2. QED
        BY <1>2, <3>5, <4>1, LocalsKept
    <3>6. QED
      BY <3>4, <3>5
  <2> HIDE DEF w
  <2>2. QED
    BY <2>1 DEF RunningLocals
<1>6. seen' = Append(SubSeq(seen, 1, Len(seen) - 1),
                     Frame(ip.fn, ip.site, [RunningLocals(mem) EXCEPT ![x] = w], SubSeq(s, 1, Len(s) - 1)))
  BY <1>1, <1>2, <1>4, <1>5, StraightSeen DEF Straight
<1>7. native' = <<"none">> /\ UNCHANGED over
  BY <1>1 DEF Straight
<1>8. s[Len(s)] = w /\ Len(s) >= 1 /\ s # << >>
  <2>1. Len(s) = depth /\ s[Len(s)] = mem[Len(mem)] /\ s \in Seq(Words)
    BY <1>1, StackFacts
  <2> HIDE DEF s
  <2>2. QED
    BY <1>1, <2>1
<1>9. /\ Ijvm!top = Frame(ip.fn, ip.site, RunningLocals(mem), s)
      /\ Ijvm!top.stack = s /\ x \in Ijvm!locals(Ijvm!top.fn)
  BY TopFacts
<1>10. [Ijvm!popped(1) EXCEPT !.locals[x] = w]
         = Frame(ip.fn, ip.site, [RunningLocals(mem) EXCEPT ![x] = w], SubSeq(s, 1, Len(s) - 1))
  <2> HIDE DEF w, s
  <2> DEFINE p == Ijvm!popped(1)
             f == ip.fn
             i == ip.site
             l == RunningLocals(mem)
             k == SubSeq(s, 1, Len(s) - 1)
  <2>1. p = Frame(f, i, l, k)
    BY <1>9, Popped
  <2> HIDE DEF p, f, i, l, k
  <2>2. [p EXCEPT !.locals[x] = w] = Frame(f, i, [l EXCEPT ![x] = w], k)
    BY <2>1 DEF Frame
  <2>3. QED
    BY <2>2 DEF p, f, i, l, k
<1>11. Ijvm!Becomes([Ijvm!popped(1) EXCEPT !.locals[x] = w])
  <2> HIDE DEF w, s
  <2>1. QED
    BY <1>6, <1>7, <1>10 DEF Ijvm!Becomes, Ijvm!callers, Ijvm!NoNative
<1> HIDE DEF w, s
<1>12. QED
  BY <1>8, <1>9, <1>11 DEF Ijvm!Store

\* A C function takes t operands and may leave a result.
LEMMA NativeSeen ==
    ASSUME Inv, NEW t \in Nat, depth >= t, NEW rax \in Seq(Words),
           external_c_call(pop(t), rax), UNCHANGED <<rbp, ip, callers>>
    PROVE  /\ RunningLocals(mem') = RunningLocals(mem)
           /\ Len(rax) = 0 => RunningStack(mem')
                 = SubSeq(RunningStack(mem), 1, Len(RunningStack(mem)) - t)
           /\ Len(rax) = 1 => RunningStack(mem')
                 = Append(SubSeq(RunningStack(mem), 1, Len(RunningStack(mem)) - t), rax[1])
<1>1. /\ mem' \in Seq(Words) /\ Len(mem') = Len(mem) - t + Len(rax)
      /\ \A a \in 1..(Len(mem) - t) : a = slot("__rsp__") \/ mem'[a] = mem[a]
      /\ \A i \in 1..Len(rax) : mem'[Len(mem) - t + i] = rax[i]
      /\ OnlyWritten(mem, mem', running)
  BY NativeWrites
<1>2. /\ barrier(running) \in Nat /\ Len(mem) \in Nat /\ barrier(running) <= Len(mem) - t
      /\ mem \in Seq(Words)
  BY RunningFacts DEF Inv, TypeOK
<1>3. RunningLocals(mem') = RunningLocals(mem)
  <2>1. ASSUME NEW x \in locals[ip.fn] PROVE at(mem', slot(x)) = at(mem, slot(x))
    <3>1. slot(x) \in 1..(Len(mem) - t) /\ slot(x) # slot("__rsp__")
      BY <1>2, SlotFacts, SlotsDiffer
    <3>2. mem'[slot(x)] = mem[slot(x)]
      BY <1>1, <3>1
    <3>3. QED
      BY <1>1, <3>2, LocalsKept
  <2>2. QED
    BY <2>1 DEF RunningLocals
<1> DEFINE b == barrier(running)
           n == Len(mem)
           l == n - t
           m2 == mem'
           s == RunningStack(mem)
           rest == SubSeq(s, 1, Len(s) - t)
<1>4. b \in Nat /\ n \in Nat /\ l \in Nat /\ b <= l /\ n <= Len(mem) /\ l <= Len(m2)
      /\ m2 \in Seq(Words) /\ mem \in Seq(Words) /\ n - t = l
  <2>1. Len(rax) \in Nat
    OBVIOUS
  <2>2. QED
    BY <1>1, <1>2, <2>1
<1>5. \A a \in 1..l : a > b => m2[a] = mem[a]
  <2>1. slot("__rsp__") < b
    <3>1. running \in Calls /\ slot("__rsp__") \in Writable(running)
      BY RunningFacts DEF Inv, Writable, slot, running
    <3>2. slot("__rsp__") \in running.bp..(barrier(running) - 1)
      BY <3>1, WritableBetween
    <3>3. running.bp \in Nat
      BY <3>1 DEF Calls
    <3>4. QED
      BY <1>2, <3>2, <3>3
  <2>2. \A a \in 1..l : a > b => a # slot("__rsp__")
    BY <1>4, <2>1
  <2>3. QED
    BY <1>1, <2>2
<1>6. Len(m2) = l + Len(rax) /\ \A i \in 1..Len(rax) : m2[l + i] = rax[i]
  BY <1>1
<1>7. s = SubSeq(mem, b + 1, n) /\ RunningStack(m2) = SubSeq(m2, b + 1, Len(m2))
  BY DEF RunningStack
<1> HIDE DEF b, l, n, m2, s
<1>8. SubSeq(m2, b + 1, l) = rest
  BY <1>4, <1>5, <1>7, WindowPop
<1> HIDE DEF rest
<1>9. ASSUME Len(rax) = 0 PROVE RunningStack(m2) = rest
  <2>1. Len(m2) = l
    BY <1>4, <1>6, <1>9
  <2>2. QED
    BY <1>7, <1>8, <2>1
<1>10. ASSUME Len(rax) = 1 PROVE RunningStack(m2) = Append(rest, rax[1])
  <2>1. Len(m2) = l + 1 /\ m2[l + 1] = rax[1]
    <3>1. 1 \in 1..Len(rax)
      BY <1>10
    <3>2. QED
      BY <1>6, <1>10, <3>1
  <2>2. SubSeq(m2, b + 1, l + 1) = Append(SubSeq(m2, b + 1, l), m2[l + 1])
    <3> DEFINE m == m2
    <3>1. /\ m \in Seq(Words) /\ l <= Len(m) /\ l + 1 <= Len(m2)
          /\ \A a \in 1..l : a > b => m2[a] = m[a]
      BY <1>4, <2>1
    <3> HIDE DEF m
    <3>2. SubSeq(m2, b + 1, l + 1) = Append(SubSeq(m, b + 1, l), m2[l + 1])
      BY <1>4, <3>1, WindowPush
    <3>3. QED
      BY <3>2 DEF m
  <2>3. QED
    BY <1>7, <1>8, <2>1, <2>2
<1>11. QED
  BY <1>3, <1>9, <1>10 DEF m2, rest, s

LEMMA NativeStep == ASSUME Inv, Native PROVE Ijvm!Native
<1>1. PICK f \in DOMAIN Natives :
        /\ depth >= Natives[f].takes
        /\ native' = <<f>> \o [i \in 1..Natives[f].takes |-> operand(i)]
        /\ \E rax \in IF Natives[f].gives THEN {<<Num(n)>> : n \in Numbers} ELSE {<< >>} :
               external_c_call(pop(Natives[f].takes), rax)
        /\ UNCHANGED <<rbp, ip, over, callers>>
  BY DEF Native
<1> DEFINE t == Natives[f].takes
           g == Natives[f].gives
           s == RunningStack(mem)
           rest == SubSeq(s, 1, Len(s) - t)
           below == SubSeq(seen, 1, Len(seen) - 1)
<1>2. t \in Nat /\ g \in BOOLEAN
  BY NativesTyped
<1>3. PICK rax \in IF g THEN {<<Num(n)>> : n \in Numbers} ELSE {<< >>} :
         external_c_call(pop(t), rax)
  BY <1>1
<1>4. /\ g => \E n \in Numbers : rax = <<Num(n)>>
      /\ ~ g => rax = << >>
  <2> HIDE DEF g
  <2>1. QED
    BY <1>3
<1>5. rax \in Seq(Words)
  <2>1. \A n \in Numbers : Num(n) \in Words
    BY FramesAssumption, WordsTyped
  <2>2. \A n \in Numbers : <<Num(n)>> \in Seq(Words)
    BY <2>1
  <2> HIDE DEF g
  <2>3. CASE g
    BY <1>4, <2>2, <2>3
  <2>4. CASE ~ g
    BY <1>4, <2>4
  <2>5. QED
    BY <2>3, <2>4
<1>6. depth >= t /\ UNCHANGED <<rbp, ip, callers>>
  BY <1>1
<1>7. /\ mem' \in Seq(Words) /\ OnlyWritten(mem, mem', running)
  <2> HIDE DEF t
  <2>1. QED
    BY <1>2, <1>3, <1>5, <1>6, NativeWrites
<1>8. /\ RunningLocals(mem') = RunningLocals(mem)
      /\ Len(rax) = 0 => RunningStack(mem') = rest
      /\ Len(rax) = 1 => RunningStack(mem') = Append(rest, rax[1])
  <2> HIDE DEF t
  <2>1. QED
    BY <1>2, <1>3, <1>5, <1>6, NativeSeen
<1>9. seen' = Append(below, Frame(ip.fn, ip.site, RunningLocals(mem'), RunningStack(mem')))
  BY <1>6, <1>7, StraightSeen
<1>10. /\ Ijvm!top = Frame(ip.fn, ip.site, RunningLocals(mem), s) /\ Ijvm!top.stack = s
       /\ Ijvm!callers = below
  BY TopFacts DEF Ijvm!callers
<1>11. Ijvm!popped(t) = Frame(ip.fn, ip.site, RunningLocals(mem), rest)
  <2> HIDE DEF t, s
  <2>1. QED
    BY <1>10, Popped
<1>12. Len(s) = depth /\ depth \in Nat /\ \A i \in 1..depth : s[depth + 1 - i] = operand(i)
  BY StackFacts
<1> HIDE DEF s
<1>13. Len(Ijvm!top.stack) >= t
  BY <1>6, <1>10, <1>12
<1>14. native' = <<f>> \o [i \in 1..t |-> Ijvm!top.stack[Len(Ijvm!top.stack) + 1 - i]]
  <2>1. \A i \in 1..t : i \in 1..depth
    <3> DEFINE d == depth
    <3>1. d \in Nat /\ d >= t
      BY <1>6, <1>12
    <3> HIDE DEF d, t
    <3>2. \A i \in 1..t : i \in 1..d
      BY <1>2, <3>1
    <3>3. QED
      BY <3>2 DEF d
  <2>2. \A i \in 1..t : Ijvm!top.stack[Len(Ijvm!top.stack) + 1 - i] = operand(i)
    BY <1>10, <1>12, <2>1
  <2> DEFINE taken == [i \in 1..t |-> operand(i)]
             shown == [i \in 1..t |-> Ijvm!top.stack[Len(Ijvm!top.stack) + 1 - i]]
  <2>3. taken = shown
    <3> HIDE DEF t
    <3>1. QED
      BY <2>2
  <2>4. native' = <<f>> \o taken
    BY <1>1
  <2> HIDE DEF taken, shown
  <2>5. native' = <<f>> \o shown
    BY <2>3, <2>4
  <2>6. QED
    BY <2>5 DEF shown
<1>15. ASSUME g
       PROVE  \E n \in {Num(k) : k \in Numbers} :
                 seen' = Append(Ijvm!callers, [Ijvm!popped(t) EXCEPT !.stack = Append(@, n)])
  <2>1. PICK n \in Numbers : rax = <<Num(n)>>
    BY <1>4, <1>15
  <2> DEFINE w == Num(n)
             p == Ijvm!popped(t)
  <2>2. Len(rax) = 1 /\ rax[1] = w
    BY <2>1
  <2> HIDE DEF w
  <2>3. seen' = Append(below, Frame(ip.fn, ip.site, RunningLocals(mem), Append(rest, w)))
    BY <1>8, <1>9, <2>2
  <2>4. p = Frame(ip.fn, ip.site, RunningLocals(mem), rest)
    BY <1>11
  <2> HIDE DEF p, rest
  <2>5. [p EXCEPT !.stack = Append(@, w)]
           = Frame(ip.fn, ip.site, RunningLocals(mem), Append(rest, w))
    BY <2>4, FramePush
  <2>6. seen' = Append(Ijvm!callers, [p EXCEPT !.stack = Append(@, w)])
    BY <1>10, <2>3, <2>5
  <2>7. w \in {Num(k) : k \in Numbers}
    BY DEF w
  <2>8. QED
    BY <2>6, <2>7 DEF p
<1>16. ASSUME ~ g PROVE seen' = Append(Ijvm!callers, Ijvm!popped(t))
  <2>1. Len(rax) = 0
    BY <1>4, <1>16
  <2> HIDE DEF rest, t
  <2>2. QED
    BY <1>8, <1>9, <1>10, <1>11, <2>1
<1>17. UNCHANGED over
  BY <1>1
<1> HIDE DEF t, g
<1>18. QED
  BY <1>13, <1>14, <1>15, <1>16, <1>17, Zenon DEF Ijvm!Native, t, g

LEMMA ExitStep == ASSUME Inv, Exit PROVE Ijvm!Exit
<1>1. PICK f \in {"halt", "error"} : native' = <<f>> /\ over' = TRUE /\ UNCHANGED <<machine, callers>>
  BY DEF Exit
<1>2. UNCHANGED <<mem, active>>
  BY <1>1 DEF machine, active
<1>3. UNCHANGED seen
  BY <1>2 DEF seen
<1>4. QED
  BY <1>1, <1>3 DEF Ijvm!Exit

\* A call leaves the words of its caller, who keeps them but for the arguments.
LEMMA CallerKept ==
    ASSUME Inv, NEW f \in DOMAIN Functions \ {Main}, NEW m2 \in Seq(Words),
           depth >= nargs(f) + 1, Len(m2) >= Len(mem),
           \A a \in 1..Len(mem) : m2[a] = mem[a]
    PROVE  /\ RunningLocals(m2) = RunningLocals(mem)
           /\ SubSeq(m2, barrier(running) + 1, Len(mem) - nargs(f) - 1)
                 = SubSeq(RunningStack(mem), 1, Len(RunningStack(mem)) - (nargs(f) + 1))
<1>1. /\ barrier(running) \in Nat /\ Len(mem) \in Nat /\ nargs(f) \in Nat
      /\ barrier(running) <= Len(mem) - (nargs(f) + 1)
      /\ mem \in Seq(Words) /\ Len(m2) \in Nat
  <2>1. nargs(f) \in Nat
    BY LayoutEntries
  <2>2. QED
    BY <2>1, RunningFacts DEF Inv, TypeOK
<1>2. ASSUME NEW x \in locals[ip.fn] PROVE at(m2, slot(x)) = at(mem, slot(x))
  <2> DEFINE a == slot(x)
  <2>1. a \in 1..Len(mem)
    BY SlotFacts
  <2> HIDE DEF a
  <2>2. a \in 1..Len(m2)
    BY <1>1, <2>1
  <2>3. a \in DOMAIN mem /\ a \in DOMAIN m2
    BY <1>1, <2>1, <2>2
  <2>4. QED
    BY <2>1, <2>3 DEF at, a
<1>3. RunningLocals(m2) = RunningLocals(mem)
  BY <1>2 DEF RunningLocals
<1> DEFINE b == barrier(running)
           l == Len(mem)
           k == nargs(f) + 1
           s == RunningStack(mem)
<1>4. /\ b \in Nat /\ l \in Nat /\ k \in Nat /\ b <= l - k /\ l <= Len(mem) /\ l - k <= Len(m2)
      /\ l - k = Len(mem) - nargs(f) - 1
  BY <1>1
<1>5. \A a \in 1..(l - k) : a > b => m2[a] = mem[a]
  <2>1. \A a \in 1..(l - k) : a \in 1..l
    BY <1>4
  <2>2. QED
    BY <2>1
<1>6. s = SubSeq(mem, b + 1, l)
  BY DEF RunningStack
<1> HIDE DEF b, l, k, s
<1>7. SubSeq(m2, b + 1, l - k) = SubSeq(SubSeq(mem, b + 1, l), 1, Len(SubSeq(mem, b + 1, l)) - k)
  BY <1>1, <1>4, <1>5, WindowPop
<1>8. SubSeq(m2, b + 1, l - k) = SubSeq(s, 1, Len(s) - k)
  BY <1>6, <1>7
<1>9. QED
  BY <1>3, <1>4, <1>8 DEF b, s, k

\* The callee finds its arguments, in their order, and no operand.
LEMMA CalleeFrame ==
    ASSUME Inv, NEW f \in DOMAIN Functions \ {Main}, NEW m2 \in Seq(Words),
           depth >= nargs(f) + 1, NEW b \in Nat, b = Len(mem) - nargs(f),
           Len(m2) = b + Len(layout[f]), Len(m2) >= Len(mem),
           \A a \in 1..Len(mem) : m2[a] = mem[a]
    PROVE  /\ SubSeq(m2, Len(m2) + 1, Len(m2)) = << >>
           /\ \A i \in 1..nargs(f) :
                 /\ Functions[f].args[i] \in locals[f]
                 /\ at(m2, b + offset[f][Functions[f].args[i]])
                       = Ijvm!last(RunningStack(mem), nargs(f))[i]
<1>1. SubSeq(m2, Len(m2) + 1, Len(m2)) = << >>
  <2> DEFINE k == Len(m2)
  <2>1. k \in Nat /\ k <= Len(m2) /\ k <= k
    OBVIOUS
  <2> HIDE DEF k
  <2>2. SubSeq(m2, k + 1, k) \in Seq(Words) /\ Len(SubSeq(m2, k + 1, k)) = k - k
    BY <2>1, Window
  <2>3. SubSeq(m2, k + 1, k) = << >>
    <3> DEFINE e == SubSeq(m2, k + 1, k)
    <3>1. e \in Seq(Words) /\ Len(e) = 0
      BY <2>1, <2>2
    <3> HIDE DEF e
    <3>2. e = << >>
      BY <3>1
    <3>3. QED
      BY <3>2 DEF e
  <2>4. QED
    BY <2>3 DEF k
<1>2. ASSUME NEW i \in 1..nargs(f)
      PROVE  /\ Functions[f].args[i] \in locals[f]
             /\ at(m2, b + offset[f][Functions[f].args[i]])
                   = Ijvm!last(RunningStack(mem), nargs(f))[i]
  <2> DEFINE s == RunningStack(mem)
             n == nargs(f)
             l == Len(mem)
             c == barrier(running)
             x == Functions[f].args[i]
             q == l - n + i
  <2>1. n \in Nat /\ hidden(f) = 1
    BY LayoutEntries DEF hidden
  <2>2. x \in locals[f]
    <3>1. Functions[f].args \in Seq(Identifiers) /\ Functions[f].vars \in Seq(Identifiers)
      BY NamesAssumption
    <3>2. locals[f] = ToSet(Functions[f].args) \cup ToSet(Functions[f].vars)
      BY <3>1, ToSetConcat DEF locals
    <3>3. i \in DOMAIN Functions[f].args
      BY <3>1 DEF nargs
    <3>4. x \in ToSet(Functions[f].args)
      BY <3>3 DEF ToSet
    <3>5. QED
      BY <3>2, <3>4
  <2>3. offset[f][x] = hidden(f) + i - 1
    BY OffsetsArgs
  <2>4. /\ c \in Nat /\ l \in Nat /\ c + n < l /\ mem \in Seq(Words) /\ depth = l - c
    BY <2>1, RunningFacts DEF Inv, TypeOK
  <2>5. s \in Seq(Words) /\ Len(s) = depth /\ s = SubSeq(mem, c + 1, l)
    BY StackFacts DEF RunningStack
  <2>6. i \in 1..n /\ Len(m2) \in Nat /\ l <= Len(m2) /\ b = l - n
    OBVIOUS
  <2> HIDE DEF s, l, c, x, n
  <2>7. q \in 1..l /\ q = b + offset[f][x] /\ q \in 1..Len(m2) /\ q - c \in 1..(l - c)
    <3> DEFINE o == offset[f][x]
    <3>1. o = i
      BY <2>1, <2>3, <2>6
    <3> HIDE DEF o
    <3>2. i \in Nat /\ i >= 1 /\ i <= n
      BY <2>1, <2>6
    <3>3. q \in Nat /\ q = b + i /\ q >= 1 /\ q <= l /\ q - c >= 1 /\ q - c <= l - c
      <4>1. c \in Nat /\ l \in Nat /\ n \in Nat /\ i \in Nat /\ c + n < l /\ b = l - n
            /\ i >= 1 /\ i <= n
        BY <2>1, <2>4, <2>6, <3>2
      <4>2. q = l - n + i
        OBVIOUS
      <4> HIDE DEF q
      <4>3. q \in Nat /\ q = b + i /\ q >= 1 /\ q <= l
        <5>1. q = b + i
          BY <4>1, <4>2
        <5>2. q \in Int
          BY <4>1, <4>2
        <5>3. q >= 1
          BY <4>1, <4>2, <5>2
        <5>4. q <= l
          BY <4>1, <4>2, <5>2
        <5>5. QED
          BY <5>1, <5>2, <5>3, <5>4
      <4>4. q - c >= 1 /\ q - c <= l - c
        BY <4>1, <4>2
      <4>5. QED
        BY <4>3, <4>4
    <3>4. QED
      BY <2>4, <2>6, <3>1, <3>3 DEF o
  <2>8. at(m2, b + offset[f][x]) = mem[q]
    <3> HIDE DEF q
    <3>1. q \in DOMAIN m2 /\ m2[q] = mem[q]
      BY <2>7 DEF l
    <3>2. QED
      BY <2>7, <3>1 DEF at
  <2>9. s[q - c] = mem[q]
    <3>1. \A j \in 1..(l - c) : SubSeq(mem, c + 1, l)[j] = mem[c + j]
      <4>1. c <= l
        BY <2>1, <2>4
      <4>2. l <= Len(mem)
        BY <2>4 DEF l
      <4>3. QED
        BY <2>4, <4>1, <4>2, Window
    <3>2. c + (q - c) = q
      BY <2>4, <2>6
    <3> HIDE DEF q
    <3>3. QED
      BY <2>5, <2>7, <3>1, <3>2
  <2>10. Ijvm!last(s, n)[i] = s[q - c]
    <3> DEFINE a == Len(s) - n
    <3>1. a \in Nat /\ a <= Len(s) /\ Len(s) \in Nat /\ Len(s) - a = n /\ a + i = q - c
      BY <2>1, <2>4, <2>5, <2>6
    <3>2. \A j \in 1..(Len(s) - a) : SubSeq(s, a + 1, Len(s))[j] = s[a + j]
      <4> HIDE DEF a
      <4> DEFINE k == Len(s)
      <4>1. k \in Nat /\ k <= Len(s) /\ a <= k /\ a \in Nat
        BY <3>1
      <4> HIDE DEF k
      <4>2. \A j \in 1..(k - a) : SubSeq(s, a + 1, k)[j] = s[a + j]
        BY <2>5, <4>1, Window
      <4>3. QED
        BY <4>2 DEF k
    <3>3. Ijvm!last(s, n) = SubSeq(s, a + 1, Len(s))
      BY DEF Ijvm!last
    <3> HIDE DEF a, q
    <3>4. QED
      BY <2>6, <3>1, <3>2, <3>3
  <2>11. QED
    BY <2>2, <2>8, <2>9, <2>10 DEF x, s, n
<1>3. QED
  BY <1>1, <1>2

\* What is below is what was there, the caller gives its operands, the callee
\* is new.
LEMMA InvokeSeen ==
    ASSUME Inv, NEW f \in DOMAIN Functions \ {Main}, NEW s \in Sites,
           depth >= nargs(f) + 1,
           mem' = prologue(f, Append(mem, Ret(ip.fn, s))),
           rbp' = base(f, Append(mem, Ret(ip.fn, s))),
           ip' = [fn |-> f, site |-> 0],
           callers' = Append(callers, [fn |-> ip.fn, site |-> s, bp |-> rbp])
    PROVE  /\ Len(seen') = Len(seen) + 1
           /\ SubSeq(seen', 1, Len(seen))
                 = Append(SubSeq(seen, 1, Len(seen) - 1),
                          Frame(ip.fn, s, RunningLocals(mem),
                                SubSeq(RunningStack(mem), 1,
                                       Len(RunningStack(mem)) - (nargs(f) + 1))))
           /\ seen'[Len(seen')]
                 = Frame(f, 0, [x \in locals[f] |-> at(mem', rbp' + offset[f][x])], << >>)
           /\ \A i \in 1..nargs(f) :
                 /\ Functions[f].args[i] \in locals[f]
                 /\ at(mem', rbp' + offset[f][Functions[f].args[i]])
                       = Ijvm!last(RunningStack(mem), nargs(f))[i]
<1>1. /\ rbp' = Len(mem) - nargs(f) /\ rbp' > barrier(running) /\ rbp' \in Nat
      /\ mem' \in Seq(Words) /\ Len(mem') = Len(mem) + nvars(f) + 4
      /\ Len(mem') = rbp' + Len(layout[f])
      /\ \A a \in 1..Len(mem) : mem'[a] = mem[a]
  BY InvokeWrites
<1> DEFINE n == Len(active)
           c == active
           d == active'
           m2 == mem'
           b2 == rbp'
           stopped == [fn |-> ip.fn, site |-> s, bp |-> rbp]
           new == [fn |-> f, site |-> 0, bp |-> rbp']
           S == {frame(mem, c, j) : j \in 1..n} \cup {frame(m2, d, j) : j \in 1..(n + 1)}
<1>2. /\ d \in Seq(Calls) /\ Len(d) = n + 1
      /\ \A j \in 1..(n - 1) : d[j] = c[j]
      /\ d[n] = stopped /\ d[n + 1] = new
  BY <1>1, InvokeActive
<1>3. /\ c \in Seq(Calls) /\ n \in Nat /\ n >= 1 /\ c[n] = running
      /\ Len(mem) \in Nat /\ mem \in Seq(Words) /\ rbp > 0 /\ rbp \in Nat
      /\ barrier(running) \in Nat /\ barrier(running) <= Len(mem)
  <2>1. n = Len(callers) + 1 /\ Len(callers) \in Nat
    BY RunningFacts DEF Inv
  <2>2. QED
    BY <2>1, RunningFacts DEF Inv, TypeOK
<1>4. Sound(mem, c)
  BY DEF Inv
<1>5. nvars(f) \in Nat /\ nargs(f) \in Nat
  BY LayoutEntries
<1>6. /\ m2 \in Seq(Words) /\ Len(m2) \in Nat /\ Len(m2) >= Len(mem)
      /\ \A a \in 1..Len(mem) : m2[a] = mem[a]
      /\ b2 \in Nat /\ b2 = Len(mem) - nargs(f) /\ Len(m2) = b2 + Len(layout[f])
  BY <1>1, <1>3, <1>5
<1>7. /\ stopped.fn = ip.fn /\ stopped.bp = rbp /\ stopped.site = s
      /\ barrier(stopped) = barrier(running) /\ running.bp = rbp
      /\ new.fn = f /\ new.site = 0 /\ new.bp = b2 /\ barrier(new) = Len(m2)
  BY <1>6 DEF running, barrier
<1>8. seen = Seen(mem, c) /\ seen' = Seen(m2, d)
  BY DEF seen, Seen
<1>9. seen \in Seq(S) /\ Len(seen) = n /\ \A j \in 1..n : seen[j] = frame(mem, c, j)
  <2>1. \A j \in 1..n : frame(mem, c, j) \in S
    OBVIOUS
  <2> HIDE DEF S
  <2>2. QED
    BY <1>3, <1>8, <2>1, SeenFacts
<1> DEFINE t == Seen(m2, d)
<1>10. t \in Seq(S) /\ Len(t) = n + 1 /\ \A j \in 1..(n + 1) : t[j] = frame(m2, d, j)
  <2>1. \A j \in 1..(n + 1) : frame(m2, d, j) \in S
    OBVIOUS
  <2> HIDE DEF S, n, m2, c, d
  <2>2. QED
    BY <1>2, <2>1, SeenFacts
<1> HIDE DEF n, c, d, m2, b2, stopped, new, S, t
<1>11. ASSUME NEW i \in 1..(n - 1) PROVE frame(m2, d, i) = frame(mem, c, i)
  <2> DEFINE k == i + 1
  <2>1. i \in Nat /\ i >= 1 /\ i < n /\ i \in 1..n /\ k \in 1..n /\ i < k /\ n = Len(c) /\ i < n + 1
    BY <1>3 DEF n, c
  <2>2. d[i] = c[i] /\ d[k].bp = c[k].bp
    <3>1. CASE k = n
      BY <1>2, <1>3, <1>7, <3>1
    <3>2. CASE k # n
      <4>1. k \in 1..(n - 1)
        BY <1>3, <2>1, <3>2
      <4>2. QED
        BY <1>2, <4>1
    <3>3. QED
      BY <1>2, <3>1, <3>2
  <2> HIDE DEF k
  <2>3. barrier(c[i]) < c[k].bp /\ c[i].bp > 0 /\ barrier(c[k]) <= Len(mem)
    BY <1>4, <2>1 DEF Sound
  <2>4. c[k] \in Calls
    BY <1>3, <2>1
  <2>5. c[k].bp \in Nat /\ c[k].bp < barrier(c[k]) /\ barrier(c[k]) \in Nat
    BY <2>4, WritableBetween DEF Calls
  <2>6. c[k].bp - 1 <= Len(mem) /\ c[k].bp - 1 <= Len(m2)
    BY <1>3, <1>6, <2>3, <2>5
  <2>7. \A a \in 1..(c[k].bp - 1) : m2[a] = mem[a]
    <3>1. \A a \in 1..(c[k].bp - 1) : a \in 1..Len(mem)
      BY <1>3, <2>3, <2>5
    <3>2. QED
      BY <1>6, <3>1
  <2>8. /\ d[i] = c[i] /\ d[i + 1].bp = c[i + 1].bp
        /\ barrier(c[i]) < c[i + 1].bp /\ c[i].bp > 0
        /\ c[i + 1].bp - 1 <= Len(mem) /\ c[i + 1].bp - 1 <= Len(m2)
        /\ \A a \in 1..(c[i + 1].bp - 1) : m2[a] = mem[a]
    BY <2>2, <2>3, <2>6, <2>7 DEF k
  <2>9. i < Len(c) /\ i < Len(d)
    BY <1>2, <2>1
  <2>10. /\ mem \in Seq(Words) /\ m2 \in Seq(Words) /\ c \in Seq(Calls) /\ d \in Seq(Calls)
         /\ i \in Nat /\ i >= 1
    BY <1>2, <1>3, <1>6, <2>1
  <2>11. QED
    BY <2>8, <2>9, <2>10, FrameKept
<1>12. RunningLocals(m2) = RunningLocals(mem)
       /\ SubSeq(m2, barrier(running) + 1, Len(mem) - nargs(f) - 1)
             = SubSeq(RunningStack(mem), 1, Len(RunningStack(mem)) - (nargs(f) + 1))
  BY <1>6, CallerKept
<1>13. frame(m2, d, n)
         = Frame(ip.fn, s, RunningLocals(mem),
                 SubSeq(RunningStack(mem), 1, Len(RunningStack(mem)) - (nargs(f) + 1)))
  <2>1. limit(m2, d, n) = Len(mem) - nargs(f) - 1
    <3>1. n # Len(d) /\ d[n + 1].bp = b2
      BY <1>2, <1>3, <1>7
    <3>2. QED
      BY <1>6, <3>1 DEF limit
  <2>2. frame(m2, d, n) = Frame(ip.fn, s, [x \in locals[ip.fn] |-> at(m2, rbp + offset[ip.fn][x])],
                                SubSeq(m2, barrier(running) + 1, Len(mem) - nargs(f) - 1))
    BY <1>2, <1>7, <2>1 DEF frame, Frame
  <2>3. [x \in locals[ip.fn] |-> at(m2, rbp + offset[ip.fn][x])] = RunningLocals(m2)
    BY DEF RunningLocals, slot
  <2>4. QED
    BY <1>12, <2>2, <2>3
<1>14. /\ SubSeq(m2, Len(m2) + 1, Len(m2)) = << >>
       /\ \A i \in 1..nargs(f) :
             /\ Functions[f].args[i] \in locals[f]
             /\ at(m2, b2 + offset[f][Functions[f].args[i]])
                   = Ijvm!last(RunningStack(mem), nargs(f))[i]
  BY <1>6, CalleeFrame
<1>15. frame(m2, d, n + 1) = Frame(f, 0, [x \in locals[f] |-> at(m2, b2 + offset[f][x])], << >>)
  <2>1. limit(m2, d, n + 1) = Len(m2)
    BY <1>2 DEF limit
  <2>2. QED
    BY <1>2, <1>7, <1>14, <2>1 DEF frame, Frame
<1> DEFINE u == SubSeq(t, 1, n)
<1>16. u \in Seq(S) /\ Len(u) = n /\ \A j \in 1..n : u[j] = t[j]
  <2>1. \A j \in 1..n : j \in 1..(n + 1) /\ t[j] \in S
    BY <1>3, <1>10
  <2>2. QED
    BY <1>3, <1>10, <2>1
<1> HIDE DEF u
<1>17. u = Append(SubSeq(seen, 1, Len(seen) - 1), u[Len(u)])
  <2>1. Len(seen) >= 1 /\ Len(u) = Len(seen)
    BY <1>3, <1>9, <1>16
  <2>2. \A i \in 1..(Len(seen) - 1) : u[i] = seen[i]
    <3>1. \A i \in 1..(n - 1) : i \in 1..n /\ i \in 1..(n + 1)
      BY <1>3
    <3>2. QED
      BY <1>9, <1>10, <1>11, <1>16, <3>1
  <2>3. QED
    BY <1>9, <1>16, <2>1, <2>2, TopReplaced
<1>18. u[Len(u)] = frame(m2, d, n)
  <2>1. n \in 1..n /\ n \in 1..(n + 1)
    BY <1>3
  <2>2. QED
    BY <1>10, <1>16, <2>1
<1>19. t[Len(t)] = frame(m2, d, n + 1)
  <2>1. n + 1 \in 1..(n + 1)
    BY <1>3
  <2>2. QED
    BY <1>10, <2>1
<1>20. seen' = t
  BY <1>8 DEF t
<1>21. Len(t) = Len(seen) + 1 /\ SubSeq(t, 1, Len(seen)) = u
  BY <1>9, <1>10 DEF u
<1>22. QED
  BY <1>13, <1>14, <1>15, <1>17, <1>18, <1>19, <1>20, <1>21 DEF m2, b2

LEMMA InvokeStep == ASSUME Inv, INVOKEVIRTUAL PROVE Ijvm!Invoke
<1>1. PICK f \in DOMAIN Functions \ {Main}, s \in Sites :
         /\ depth >= Len(Functions[f].args) + 1
         /\ mem' = prologue(f, Append(mem, Ret(ip.fn, s)))
         /\ rbp' = base(f, Append(mem, Ret(ip.fn, s)))
         /\ ip' = [fn |-> f, site |-> 0]
         /\ callers' = Append(callers, [fn |-> ip.fn, site |-> s, bp |-> rbp])
         /\ UNCHANGED <<r14, over>> /\ native' = <<"none">>
  BY DEF INVOKEVIRTUAL
<1> DEFINE k == RunningStack(mem)
           n == nargs(f)
           new == seen'[Len(seen')]
           loc == [x \in locals[f] |-> at(mem', rbp' + offset[f][x])]
<1>2. depth >= n + 1
  BY <1>1 DEF nargs
<1>3. /\ Len(seen') = Len(seen) + 1
      /\ SubSeq(seen', 1, Len(seen))
            = Append(SubSeq(seen, 1, Len(seen) - 1),
                     Frame(ip.fn, s, RunningLocals(mem), SubSeq(k, 1, Len(k) - (n + 1))))
      /\ new = Frame(f, 0, loc, << >>)
      /\ \A i \in 1..n : /\ Functions[f].args[i] \in locals[f]
                         /\ at(mem', rbp' + offset[f][Functions[f].args[i]]) = Ijvm!last(k, n)[i]
  BY <1>1, <1>2, InvokeSeen
<1>4. /\ Ijvm!top = Frame(ip.fn, ip.site, RunningLocals(mem), k) /\ Ijvm!top.stack = k
      /\ Len(k) = depth
  BY TopFacts, StackFacts
<1> HIDE DEF k, n
<1>5. [Ijvm!popped(n + 1) EXCEPT !.site = s]
         = Frame(ip.fn, s, RunningLocals(mem), SubSeq(k, 1, Len(k) - (n + 1)))
  <2> DEFINE p == Ijvm!popped(n + 1)
  <2>1. p = Frame(ip.fn, ip.site, RunningLocals(mem), SubSeq(k, 1, Len(k) - (n + 1)))
    BY <1>4, Popped
  <2> HIDE DEF p
  <2>2. [p EXCEPT !.site = s]
           = Frame(ip.fn, s, RunningLocals(mem), SubSeq(k, 1, Len(k) - (n + 1)))
    BY <2>1, FrameUpdates
  <2>3. QED
    BY <2>2 DEF p
<1>6. SubSeq(seen', 1, Len(seen)) = Append(Ijvm!callers, [Ijvm!popped(n + 1) EXCEPT !.site = s])
  BY <1>3, <1>5 DEF Ijvm!callers
<1> HIDE DEF new
<1>7. Ijvm!IsFrame(new, f, Ijvm!Start, << >>)
  <2>1. DOMAIN loc = locals[f]
    OBVIOUS
  <2> HIDE DEF loc
  <2>2. new.fn = f /\ new.site = 0 /\ new.locals = loc /\ new.stack = << >>
    BY <1>3, FrameFields
  <2>3. QED
    BY <2>1, <2>2, LocalsSame DEF Ijvm!IsFrame, Ijvm!Start
<1>8. \A i \in 1..n : new.locals[Functions[f].args[i]] = Ijvm!last(Ijvm!top.stack, n)[i]
  <2>1. new.locals = loc
    <3> HIDE DEF loc
    <3>1. QED
      BY <1>3, FrameFields
  <2>2. QED
    BY <1>3, <1>4, <2>1
<1>9. Len(Ijvm!top.stack) >= n + 1
  BY <1>2, <1>4
<1>10. native' = Ijvm!NoNative /\ UNCHANGED over
  BY <1>1 DEF Ijvm!NoNative
<1>11. QED
  BY <1>3, <1>6, <1>7, <1>8, <1>9, <1>10 DEF Ijvm!Invoke, n, new, nargs

\* The caller has its frame back, with the result on its stack.
LEMMA ReturnStep == ASSUME Inv, IRETURN PROVE Ijvm!Return
<1>1. /\ Len(callers) >= 1 /\ active' = callers
      /\ mem' \in Seq(Words) /\ Len(mem') = rbp
      /\ \A a \in 1..(rbp - 1) : mem'[a] = mem[a]
      /\ mem'[rbp] = mem[Len(mem)]
  BY ReturnWrites
<1>2. ip.fn # Main /\ depth >= 1 /\ UNCHANGED over /\ native' = <<"none">>
  BY DEF IRETURN
<1> DEFINE n == Len(callers)
           c == active
           d == callers
           m2 == mem'
           w == mem[Len(mem)]
           S == {frame(mem, c, j) : j \in 1..(n + 1)} \cup {frame(m2, d, j) : j \in 1..n}
           t == Seen(m2, d)
<1>3. /\ c \in Seq(Calls) /\ d \in Seq(Calls) /\ n \in Nat /\ n >= 1 /\ Len(c) = n + 1 /\ Len(d) = n
      /\ c[n + 1] = running /\ \A j \in 1..n : c[j] = d[j]
      /\ Len(mem) \in Nat /\ mem \in Seq(Words) /\ rbp > 0 /\ rbp \in Nat
      /\ barrier(running) \in Nat /\ barrier(running) <= Len(mem) /\ barrier(running) > rbp
  BY <1>1, RunningFacts DEF Inv, TypeOK
<1>4. Sound(mem, c) /\ running.bp = rbp
  BY DEF Inv, running
<1>5. m2 \in Seq(Words) /\ Len(m2) = rbp /\ m2[rbp] = w /\ \A a \in 1..(rbp - 1) : m2[a] = mem[a]
  BY <1>1
<1>6. seen = Seen(mem, c) /\ seen' = t
  BY <1>1 DEF seen, Seen
<1>7. seen \in Seq(S) /\ Len(seen) = n + 1 /\ \A j \in 1..(n + 1) : seen[j] = frame(mem, c, j)
  <2>1. \A j \in 1..(n + 1) : frame(mem, c, j) \in S
    OBVIOUS
  <2> HIDE DEF S, n, c, d
  <2>2. QED
    BY <1>3, <1>6, <2>1, SeenFacts
<1>8. t \in Seq(S) /\ Len(t) = n /\ \A j \in 1..n : t[j] = frame(m2, d, j)
  <2>1. \A j \in 1..n : frame(m2, d, j) \in S
    OBVIOUS
  <2> HIDE DEF S, m2
  <2>2. QED
    BY <1>3, <2>1, SeenFacts
<1> HIDE DEF n, c, d, m2, w, S, t
<1>9. ASSUME NEW i \in 1..n
      PROVE  /\ c[i] \in Calls /\ c[i + 1] \in Calls /\ c[i].bp > 0 /\ c[i].bp \in Nat
             /\ barrier(c[i]) \in Nat /\ barrier(c[i]) < c[i + 1].bp
             /\ c[i + 1].bp \in Nat /\ c[i + 1].bp <= rbp
  <2> DEFINE k == i + 1
  <2>1. i \in 1..(n + 1) /\ k \in 1..(n + 1) /\ i < k /\ Len(c) = n + 1 /\ n + 1 \in 1..(n + 1)
        /\ k \in Nat
    BY <1>3
  <2>2. k = n + 1 \/ k < n + 1
    BY <1>3, <2>1
  <2> HIDE DEF k
  <2>3. c[i] \in Calls /\ c[k] \in Calls
    BY <1>3, <2>1
  <2>4. /\ c[i].bp \in Nat /\ barrier(c[i]) \in Nat
        /\ c[k].bp \in Nat /\ barrier(c[k]) \in Nat /\ barrier(c[k]) > c[k].bp
    BY <2>3, WritableBetween DEF Calls
  <2>5. c[i].bp > 0 /\ barrier(c[i]) < c[k].bp
    BY <1>4, <2>1 DEF Sound
  <2>6. c[k].bp <= rbp
    <3>1. CASE k = n + 1
      BY <1>3, <1>4, <3>1
    <3>2. CASE k < n + 1
      <4>1. barrier(c[k]) < c[n + 1].bp
        BY <1>4, <2>1, <3>2 DEF Sound
      <4>2. QED
        BY <1>3, <1>4, <2>4, <4>1
    <3>3. QED
      BY <2>2, <3>1, <3>2
  <2>7. QED
    BY <2>3, <2>4, <2>5, <2>6 DEF k
<1>10. ASSUME NEW i \in 1..(n - 1) PROVE frame(m2, d, i) = frame(mem, c, i)
  <2>1. i \in Nat /\ i >= 1 /\ i < Len(c) /\ i < Len(d) /\ i \in 1..n /\ i + 1 \in 1..n
    BY <1>3
  <2>2. d[i] = c[i] /\ d[i + 1] = c[i + 1]
    BY <1>3, <2>1
  <2> DEFINE h == c[i + 1].bp - 1
  <2>3. c[i + 1].bp \in Nat /\ c[i + 1].bp <= rbp /\ barrier(c[i]) < c[i + 1].bp /\ c[i].bp > 0
    BY <1>9, <2>1
  <2>4. h <= rbp - 1 /\ h <= Len(mem) /\ h <= Len(m2)
    BY <1>3, <1>5, <2>3
  <2>5. \A a \in 1..h : m2[a] = mem[a]
    <3>1. \A a \in 1..h : a \in 1..(rbp - 1)
      BY <1>3, <2>3, <2>4
    <3>2. QED
      BY <1>5, <3>1
  <2>6. /\ d[i] = c[i] /\ d[i + 1].bp = c[i + 1].bp
        /\ barrier(c[i]) < c[i + 1].bp /\ c[i].bp > 0
        /\ c[i + 1].bp - 1 <= Len(mem) /\ c[i + 1].bp - 1 <= Len(m2)
        /\ \A a \in 1..(c[i + 1].bp - 1) : m2[a] = mem[a]
    BY <2>2, <2>3, <2>4, <2>5
  <2>7. /\ mem \in Seq(Words) /\ m2 \in Seq(Words) /\ c \in Seq(Calls) /\ d \in Seq(Calls)
        /\ i \in Nat /\ i >= 1 /\ i < Len(c) /\ i < Len(d)
    BY <1>3, <1>5, <2>1
  <2>8. QED
    BY <2>6, <2>7, FrameKept
<1> DEFINE b == barrier(c[n])
           l == rbp - 1
           loc == [x \in locals[c[n].fn] |-> at(mem, c[n].bp + offset[c[n].fn][x])]
           k == SubSeq(mem, b + 1, l)
<1>11. /\ b \in Nat /\ l \in Nat /\ b <= l /\ l + 1 = rbp /\ l <= Len(mem)
       /\ c[n] \in Calls /\ d[n] = c[n] /\ c[n].bp \in Nat /\ c[n].bp > 0 /\ b > c[n].bp
  <2>1. n \in 1..n
    BY <1>3
  <2>2. b < c[n + 1].bp /\ c[n] \in Calls /\ c[n].bp \in Nat /\ c[n].bp > 0 /\ b \in Nat
    BY <1>9, <2>1
  <2>3. c[n + 1].bp = rbp
    BY <1>3, <1>4
  <2>4. b > c[n].bp
    BY <2>2, WritableBetween
  <2>5. d[n] = c[n]
    BY <1>3, <2>1
  <2> HIDE DEF b
  <2>6. QED
    BY <1>3, <2>2, <2>3, <2>4, <2>5
<1>12. frame(mem, c, n) = Frame(c[n].fn, c[n].site, loc, k)
  <2>1. limit(mem, c, n) = l
    BY <1>3, <1>4 DEF limit
  <2>2. QED
    BY <2>1 DEF frame, Frame
<1>13. frame(m2, d, n) = Frame(c[n].fn, c[n].site, loc, Append(k, w))
  <2>1. limit(m2, d, n) = l + 1
    BY <1>3, <1>5, <1>11 DEF limit
  <2>2. ASSUME NEW x \in locals[c[n].fn]
        PROVE  at(m2, c[n].bp + offset[c[n].fn][x]) = at(mem, c[n].bp + offset[c[n].fn][x])
    <3> DEFINE a == c[n].bp + offset[c[n].fn][x]
               p == c[n]
    <3>1. a \in Writable(p)
      BY DEF Writable
    <3>2. a \in p.bp..(b - 1)
      BY <1>11, <3>1, WritableBetween
    <3> HIDE DEF a, b, l
    <3>3. a \in 1..l
      BY <1>11, <3>2
    <3>4. a \in 1..(rbp - 1) /\ a \in 1..Len(m2) /\ a \in 1..Len(mem)
      BY <1>3, <1>5, <1>11, <3>3
    <3>5. m2[a] = mem[a] /\ a \in DOMAIN m2 /\ a \in DOMAIN mem
      BY <1>3, <1>5, <3>4
    <3>6. QED
      BY <3>5 DEF at, a
  <2>3. [x \in locals[c[n].fn] |-> at(m2, c[n].bp + offset[c[n].fn][x])] = loc
    BY <2>2
  <2>4. SubSeq(m2, b + 1, l + 1) = Append(k, w)
    <3> HIDE DEF b, l
    <3>1. l + 1 <= Len(m2) /\ m2[l + 1] = w
      BY <1>3, <1>5, <1>11
    <3>2. \A a \in 1..l : a > b => m2[a] = mem[a]
      BY <1>5, <1>11 DEF l
    <3>3. SubSeq(m2, b + 1, l + 1) = Append(SubSeq(mem, b + 1, l), m2[l + 1])
      BY <1>3, <1>5, <1>11, <3>1, <3>2, WindowPush
    <3>4. QED
      BY <3>1, <3>3
  <2>5. frame(m2, d, n) = Frame(c[n].fn, c[n].site,
                                [x \in locals[c[n].fn] |-> at(m2, c[n].bp + offset[c[n].fn][x])],
                                SubSeq(m2, b + 1, l + 1))
    BY <1>11, <2>1 DEF frame, Frame
  <2> HIDE DEF loc, k, b, l
  <2>6. QED
    BY <2>3, <2>4, <2>5
<1> HIDE DEF b, l, loc, k
<1> DEFINE old == SubSeq(seen, 1, n)
<1>14. old \in Seq(S) /\ Len(old) = n /\ \A j \in 1..n : old[j] = seen[j]
  <2>1. \A j \in 1..n : j \in 1..(n + 1) /\ seen[j] \in S
    BY <1>3, <1>7
  <2>2. QED
    BY <1>3, <1>7, <2>1
<1>15. SubSeq(old, 1, n - 1) = SubSeq(seen, 1, Len(seen) - 2)
  <2> DEFINE u == SubSeq(old, 1, n - 1)
             v == SubSeq(seen, 1, n - 1)
  <2>1. n - 1 \in Nat /\ \A j \in 1..(n - 1) : j \in 1..n /\ j \in 1..(n + 1)
    BY <1>3
  <2>2. u \in Seq(S) /\ Len(u) = n - 1 /\ \A j \in 1..(n - 1) : u[j] = old[j]
    <3>1. \A j \in 1..(n - 1) : old[j] \in S
      BY <1>14, <2>1
    <3> HIDE DEF old
    <3>2. QED
      BY <1>14, <2>1, <3>1
  <2>3. v \in Seq(S) /\ Len(v) = n - 1 /\ \A j \in 1..(n - 1) : v[j] = seen[j]
    <3>1. \A j \in 1..(n - 1) : seen[j] \in S
      BY <1>7, <2>1
    <3>2. QED
      BY <1>3, <1>7, <2>1, <3>1
  <2> HIDE DEF u, v, old
  <2>4. u = v
    BY <1>14, <2>1, <2>2, <2>3, SeqEqual
  <2>5. Len(seen) - 2 = n - 1
    BY <1>3, <1>7
  <2>6. QED
    BY <2>4, <2>5 DEF u, v
<1> HIDE DEF old
<1>16. t = Append(SubSeq(old, 1, Len(old) - 1), t[Len(t)])
  <2>1. Len(old) >= 1 /\ Len(t) = Len(old)
    BY <1>3, <1>8, <1>14
  <2>2. \A i \in 1..(Len(old) - 1) : t[i] = old[i]
    <3>1. \A i \in 1..(n - 1) : i \in 1..n /\ i \in 1..(n + 1)
      BY <1>3
    <3>2. QED
      BY <1>7, <1>8, <1>10, <1>14, <3>1
  <2>3. QED
    BY <1>8, <1>14, <2>1, <2>2, TopReplaced
<1>17. n \in 1..n /\ n \in 1..(n + 1)
  BY <1>3
<1>18. t = Append(SubSeq(seen, 1, Len(seen) - 2), Frame(c[n].fn, c[n].site, loc, Append(k, w)))
  BY <1>8, <1>13, <1>14, <1>15, <1>16, <1>17
<1> DEFINE caller == seen[Len(seen) - 1]
<1>19. caller = Frame(c[n].fn, c[n].site, loc, k)
  <2>1. Len(seen) - 1 = n
    BY <1>3, <1>7
  <2>2. QED
    BY <1>7, <1>12, <1>17, <2>1
<1> HIDE DEF caller
<1>20. [caller EXCEPT !.stack = Append(@, w)] = Frame(c[n].fn, c[n].site, loc, Append(k, w))
  BY <1>19, FramePush
<1>21. seen' = Append(SubSeq(seen, 1, Len(seen) - 2), [caller EXCEPT !.stack = Append(@, w)])
  BY <1>6, <1>18, <1>20
<1>22. /\ Ijvm!top.fn # Main /\ Ijvm!top.stack # << >>
       /\ Ijvm!top.stack[Len(Ijvm!top.stack)] = w
  <2> DEFINE s == RunningStack(mem)
  <2>1. /\ Ijvm!top.fn = ip.fn /\ Ijvm!top.stack = s /\ s \in Seq(Words) /\ Len(s) = depth
        /\ depth \in Nat /\ s[Len(s)] = w
    BY <1>2, TopFacts, StackFacts DEF w
  <2> HIDE DEF s
  <2>2. s # << >>
    BY <1>2, <2>1
  <2>3. QED
    BY <1>2, <2>1, <2>2
<1>23. seen' = Append(SubSeq(seen, 1, Len(seen) - 2),
                      [caller EXCEPT !.stack = Append(@, Ijvm!top.stack[Len(Ijvm!top.stack)])])
  BY <1>21, <1>22
<1>24. QED
  BY <1>2, <1>22, <1>23 DEF Ijvm!Return, Ijvm!NoNative, caller

LEMMA InitStep == Init => Ijvm!Init
<1> SUFFICES ASSUME Init PROVE Ijvm!Init
  OBVIOUS
<1>1. Inv /\ barrier(running) = Len(mem)
  BY InitFacts
<1>2. ip.fn = Main /\ ip.site = 0 /\ callers = << >> /\ native = <<"none">> /\ over = FALSE
  BY DEF Init
<1>3. active \in Seq(Calls) /\ Len(active) = 1
  BY <1>1, <1>2, RunningFacts DEF Inv
<1>4. Len(seen) = 1
  <2> DEFINE S == {frame(mem, active, j) : j \in 1..1}
  <2>1. \A j \in 1..1 : frame(mem, active, j) \in S
    OBVIOUS
  <2> HIDE DEF S
  <2>2. Len(Seen(mem, active)) = 1
    BY <1>3, <2>1, SeenFacts
  <2>3. seen = Seen(mem, active)
    BY DEF seen, Seen
  <2>4. QED
    BY <2>2, <2>3
<1>5. seen[1] = Ijvm!top
  BY <1>4 DEF Ijvm!top
<1>6. /\ Ijvm!top.fn = Main /\ Ijvm!top.site = 0
      /\ Ijvm!top.stack = RunningStack(mem) /\ Ijvm!top.locals = RunningLocals(mem)
  <2>1. Ijvm!top = Frame(ip.fn, ip.site, RunningLocals(mem), RunningStack(mem))
    BY <1>1, TopFacts
  <2>2. QED
    BY <1>2, <2>1, FrameFields
<1>7. RunningStack(mem) = << >>
  <2> DEFINE s == RunningStack(mem)
  <2>1. s \in Seq(Words) /\ Len(s) = depth
    BY <1>1, StackFacts
  <2>2. depth = 0
    BY <1>1, RunningFacts DEF Inv
  <2> HIDE DEF s
  <2>3. s = << >>
    BY <2>1, <2>2
  <2>4. QED
    BY <2>3 DEF s
<1>8. DOMAIN RunningLocals(mem) = Ijvm!locals(Main)
  BY <1>2, FramesAssumption, LocalsSame DEF RunningLocals
<1>9. Ijvm!IsFrame(seen[1], Main, Ijvm!Start, << >>)
  BY <1>5, <1>6, <1>7, <1>8 DEF Ijvm!IsFrame, Ijvm!Start
<1>10. QED
  BY <1>2, <1>4, <1>9 DEF Ijvm!Init, Ijvm!NoNative

LEMMA NextStep == Inv /\ [Next]_vars => [Ijvm!Next]_(Ijvm!vars)
<1> SUFFICES ASSUME Inv, [Next]_vars PROVE [Ijvm!Next]_(Ijvm!vars)
  OBVIOUS
<1>1. CASE UNCHANGED vars
  <2>1. UNCHANGED <<mem, rbp, ip, native, over, callers>>
    BY <1>1 DEF vars, machine
  <2>2. UNCHANGED active
    BY <2>1 DEF active
  <2>3. UNCHANGED seen
    BY <2>1, <2>2 DEF seen
  <2>4. QED
    BY <2>1, <2>3 DEF Ijvm!vars
<1>2. CASE Step
  <2>1. ~ over
    BY <1>2 DEF Step
  <2>2. \/ Ijvm!Push \/ Ijvm!Load \/ Ijvm!Store \/ Ijvm!Native \/ Ijvm!Invoke
        \/ Ijvm!Return \/ Ijvm!Exit
    BY <1>2, PushStep, LoadStep, StoreStep, NativeStep, InvokeStep, ReturnStep, ExitStep
       DEF Step
  <2>3. QED
    BY <2>1, <2>2 DEF Ijvm!Next
<1>3. QED
  BY <1>1, <1>2 DEF Next, Over

(***************************************************************************)
(* Whatever a program does, on every machine stack: the variables and the  *)
(* operands of every active frame, which the code of the backend finds by  *)
(* offsets from rbp on one stack that it shares with saved pointers and C  *)
(* functions (x64_assembler.cpp:185-204, 212-291, 499-534), are those of   *)
(* IJVM.  Each instruction does to them what IJVM says of it, and nothing  *)
(* else.                                                                   *)
(***************************************************************************)
THEOREM FramesImplemented == Spec => ImplementsFrames
<1>1. QED
  BY InitInv, NextInv, InitStep, NextStep, PTL DEF Spec, ImplementsFrames, Ijvm!Spec

=============================================================================
