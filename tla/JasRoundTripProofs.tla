------------------------- MODULE JasRoundTripProofs -------------------------
(***************************************************************************)
(* JasRoundTrip keeps its types, and the reader of the JAS format never    *)
(* leaves anything half-read: each function of it takes what was built for *)
(* it and leaves what it promises.                                         *)
(*                                                                         *)
(* The argument is one about heights.  Everything the reader may have to   *)
(* do fits between two heights of `built`, and what it has still to do is  *)
(* a thread: it leads from the height that there is to the end.  A rule of *)
(* the grammar is replaced by a thread between the same heights.  Behind   *)
(* the last thing to do there is -1, which nothing can follow.             *)
(*                                                                         *)
(* What the writer writes, the reader reads, and as what it was: that is   *)
(* the same argument with more in a height.  The text is laid out call by  *)
(* call; a state is how much of it has been read, what has been built of   *)
(* it and how many calls have been made; and what there is to do is a path *)
(* of states that ends behind the text, or in an error where the text is   *)
(* not readable.                                                           *)
(***************************************************************************)
EXTENDS JasRoundTrip, ProofBasics, FiniteSetTheorems

Heights == Nat \cup {-1}

\* x may be done at height m, and leads to height n.
Fits(x, m, n) ==
    /\ m \in Nat /\ n \in Heights
    /\ \/ x.do = "fail"
       \/ x.do \in {"discard", "expect"} /\ n = m
       \/ x.do \in {"number", "identifier", "push"} /\ n = m + 1
       \/ x.do = "call" /\ x.a = "toplevel" /\ m = 0 /\ n = -1
       \/ x.do = "call" /\ x.a \in {"block", "constants", "braces", "code", "op"} /\ n = m
       \/ x.do = "call" /\ x.a \in {"args", "more_args", "vars", "var_names"} /\ m >= 1 /\ n = m
       \/ x.do = "call" /\ x.a \in {"value", "immediate"} /\ n = m + 1
       \/ x.do = "make" /\ x.a \in {"negative", "method"} /\ m >= 1 /\ n = m
       \/ x.do = "make" /\ x.a \in {"name", "immediate", "arg", "var"} /\ m >= 2 /\ n = m - 1
       \/ x.do = "make" /\ x.a \in {"call", "label"} /\ m >= 1 /\ n = m - 1
       \/ x.do = "make" /\ x.a = "constant" /\ m >= 2 /\ n = m - 2
       \/ x.do = "make" /\ x.a = "end" /\ m = 0 /\ n = -1

\* The things in s, one after the other, lead from height m to height n.
Threads(s, m, n) ==
    /\ \E S : s \in Seq(S)
    /\ \E h \in [1 .. Len(s) + 1 -> Heights] :
          /\ h[1] = m /\ h[Len(s) + 1] = n
          /\ \A i \in 1 .. Len(s) : Fits(s[i], h[i], h[i + 1])

IInv ==
    /\ phase \in {"writing", "parsing", "done", "error"}
    /\ script \in Seq(JasCalls)
    /\ said \in 0 .. Len(script)
    /\ \E S : constant_order \in Seq(S)
    /\ ToSet(constant_order) = DOMAIN constant_map
    /\ Len(cache) <= 1
    /\ \A v \in accessible_vars :
          LET begun == {i \in 1 .. said : script[i].op = "function"}
          IN  v \in ToSet(script[Max(begun)].args) \cup ToSet(script[Max(begun)].vars)
    /\ \E S : built \in Seq(S)
    /\ Threads(todo, Len(built), -1)

-----------------------------------------------------------------------------
(* Threads.                                                                *)

LEMMA ThreadsConcat ==
    ASSUME NEW s, NEW t, NEW m, NEW k, NEW n, Threads(s, m, k), Threads(t, k, n)
    PROVE  Threads(s \o t, m, n)
<1>1. PICK S1 : s \in Seq(S1)
  BY DEF Threads
<1>2. PICK S2 : t \in Seq(S2)
  BY DEF Threads
<1>3. PICK h1 \in [1 .. Len(s) + 1 -> Heights] :
        /\ h1[1] = m /\ h1[Len(s) + 1] = k
        /\ \A i \in 1 .. Len(s) : Fits(s[i], h1[i], h1[i + 1])
  BY DEF Threads
<1>4. PICK h2 \in [1 .. Len(t) + 1 -> Heights] :
        /\ h2[1] = k /\ h2[Len(t) + 1] = n
        /\ \A i \in 1 .. Len(t) : Fits(t[i], h2[i], h2[i + 1])
  BY DEF Threads
<1>5. s \in Seq(S1 \cup S2) /\ t \in Seq(S1 \cup S2)
  BY <1>1, <1>2
<1> DEFINE S == S1 \cup S2
<1> HIDE DEF S
<1>6. /\ s \o t \in Seq(S)
      /\ Len(s) \in Nat /\ Len(t) \in Nat
      /\ Len(s \o t) = Len(s) + Len(t)
      /\ \A i \in 1 .. Len(s) + Len(t) :
            (s \o t)[i] = IF i <= Len(s) THEN s[i] ELSE t[i - Len(s)]
  BY <1>5, ConcatProperties DEF S
<1> DEFINE h == [i \in 1 .. Len(s) + Len(t) + 1 |->
                    IF i <= Len(s) THEN h1[i] ELSE h2[i - Len(s)]]
<1>7. h \in [1 .. Len(s \o t) + 1 -> Heights]
  <2>1. ASSUME NEW i \in 1 .. Len(s) + Len(t) + 1
        PROVE  (IF i <= Len(s) THEN h1[i] ELSE h2[i - Len(s)]) \in Heights
    <3>1. CASE i <= Len(s)
      <4>1. i \in 1 .. Len(s) + 1
        BY <1>6, <3>1
      <4>2. QED
        BY <1>3, <3>1, <4>1
    <3>2. CASE i > Len(s)
      <4>1. i - Len(s) \in 1 .. Len(t) + 1
        BY <1>6, <3>2
      <4>2. QED
        BY <1>4, <1>6, <3>2, <4>1
    <3>3. QED
      BY <1>6, <3>1, <3>2
  <2>2. QED
    BY <1>6, <2>1
<1>8. h[1] = m /\ h[Len(s \o t) + 1] = n
  BY <1>3, <1>4, <1>6
<1>9. ASSUME NEW i \in 1 .. Len(s \o t)
      PROVE  Fits((s \o t)[i], h[i], h[i + 1])
  <2>1. i \in 1 .. Len(s) + Len(t) /\ i + 1 \in 1 .. Len(s) + Len(t) + 1
    BY <1>6
  <2>2. CASE i < Len(s)
    <3>1. (s \o t)[i] = s[i] /\ h[i] = h1[i] /\ h[i + 1] = h1[i + 1]
      BY <1>6, <2>1, <2>2
    <3>2. QED
      BY <1>3, <1>6, <2>1, <2>2, <3>1
  <2>3. CASE i = Len(s)
    <3>1. (s \o t)[i] = s[i] /\ h[i] = h1[i] /\ h[i + 1] = h2[1]
      BY <1>6, <2>1, <2>3
    <3>2. i \in 1 .. Len(s) /\ h1[i + 1] = h2[1]
      BY <1>3, <1>4, <1>6, <2>1, <2>3
    <3>3. QED
      BY <1>3, <3>1, <3>2
  <2>4. CASE i > Len(s)
    <3> DEFINE j == i - Len(s)
    <3>1. j \in 1 .. Len(t) /\ (i + 1) - Len(s) = j + 1
      BY <1>6, <2>1, <2>4
    <3>2. (s \o t)[i] = t[j] /\ h[i] = h2[j] /\ h[i + 1] = h2[j + 1]
      BY <1>6, <2>1, <2>4, <3>1
    <3>3. QED
      BY <1>4, <3>1, <3>2
  <2>5. QED
    BY <1>6, <2>1, <2>2, <2>3, <2>4
<1> HIDE DEF h
<1>10. QED
  BY <1>6, <1>7, <1>8, <1>9 DEF Threads

LEMMA ThreadsHead ==
    ASSUME NEW s, NEW m \in Nat, Threads(s, m, -1)
    PROVE  /\ s # << >>
           /\ \E k \in Heights : Fits(Head(s), m, k) /\ Threads(Tail(s), k, -1)
<1>1. PICK S : s \in Seq(S)
  BY DEF Threads
<1>2. PICK h \in [1 .. Len(s) + 1 -> Heights] :
        /\ h[1] = m /\ h[Len(s) + 1] = -1
        /\ \A i \in 1 .. Len(s) : Fits(s[i], h[i], h[i + 1])
  BY DEF Threads
<1>3. Len(s) # 0
  BY <1>1, <1>2
<1>4. s # << >> /\ Len(s) \in Nat \ {0}
  BY <1>1, <1>3
<1>5. /\ Tail(s) \in Seq(S)
      /\ Len(Tail(s)) = Len(s) - 1
      /\ \A i \in 1 .. Len(s) - 1 : Tail(s)[i] = s[i + 1]
  BY <1>1, <1>4
<1>6. Fits(Head(s), m, h[2]) /\ h[2] \in Heights
  <2>1. 1 \in 1 .. Len(s) /\ Head(s) = s[1] /\ 2 \in 1 .. Len(s) + 1
    BY <1>1, <1>4
  <2>2. QED
    BY <1>2, <2>1
<1> DEFINE g == [i \in 1 .. Len(s) |-> h[i + 1]]
<1>7. g \in [1 .. Len(Tail(s)) + 1 -> Heights]
  BY <1>2, <1>4, <1>5
<1>8. g[1] = h[2] /\ g[Len(Tail(s)) + 1] = -1
  BY <1>2, <1>4, <1>5
<1>9. \A i \in 1 .. Len(Tail(s)) : Fits(Tail(s)[i], g[i], g[i + 1])
  <2> TAKE i \in 1 .. Len(Tail(s))
  <2>1. /\ i + 1 \in 1 .. Len(s) /\ i \in 1 .. Len(s) - 1
        /\ g[i] = h[i + 1] /\ g[i + 1] = h[(i + 1) + 1]
    BY <1>4, <1>5
  <2>2. Tail(s)[i] = s[i + 1]
    BY <1>5, <2>1
  <2>3. QED
    BY <1>2, <2>1, <2>2
<1> HIDE DEF g
<1>10. Threads(Tail(s), h[2], -1)
  BY <1>5, <1>7, <1>8, <1>9 DEF Threads
<1>11. QED
  BY <1>4, <1>6, <1>10

LEMMA ThreadsEmpty ==
    ASSUME NEW m \in Heights
    PROVE  Threads(<< >>, m, m)
<1> DEFINE h == [i \in 1 .. 1 |-> m]
<1>1. h \in [1 .. Len(<< >>) + 1 -> Heights] /\ h[1] = m /\ h[Len(<< >>) + 1] = m
  OBVIOUS
<1>2. << >> \in Seq({})
  OBVIOUS
<1> HIDE DEF h
<1>3. QED
  BY <1>1, <1>2 DEF Threads

LEMMA Threads1 ==
    ASSUME NEW a, NEW m0, NEW m1,
           Fits(a, m0, m1)
    PROVE  Threads(<<a>>, m0, m1)
<1> DEFINE s == <<a>>
           h == <<m0, m1>>
<1>1. m0 \in Heights /\ m1 \in Heights
  BY DEF Fits, Heights
<1>2. s \in Seq({a}) /\ Len(s) = 1
  OBVIOUS
<1>3. h \in [1 .. Len(s) + 1 -> Heights] /\ h[1] = m0 /\ h[Len(s) + 1] = m1
  BY <1>1, <1>2
<1>4. \A i \in 1 .. Len(s) : Fits(s[i], h[i], h[i + 1])
  <2> TAKE i \in 1 .. Len(s)
  <2>1. i = 1
    BY <1>2
  <2>2. QED
    BY <2>1
<1> HIDE DEF s, h
<1>5. Threads(s, m0, m1)
  BY <1>2, <1>3, <1>4 DEF Threads
<1>6. QED
  BY <1>5 DEF s

LEMMA Threads2 ==
    ASSUME NEW a, NEW b, NEW m0, NEW m1, NEW m2,
           Fits(a, m0, m1), Fits(b, m1, m2)
    PROVE  Threads(<<a, b>>, m0, m2)
<1> DEFINE s == <<a, b>>
           h == <<m0, m1, m2>>
<1>1. m0 \in Heights /\ m1 \in Heights /\ m2 \in Heights
  BY DEF Fits, Heights
<1>2. s \in Seq({a, b}) /\ Len(s) = 2
  OBVIOUS
<1>3. h \in [1 .. Len(s) + 1 -> Heights] /\ h[1] = m0 /\ h[Len(s) + 1] = m2
  BY <1>1, <1>2
<1>4. \A i \in 1 .. Len(s) : Fits(s[i], h[i], h[i + 1])
  <2> TAKE i \in 1 .. Len(s)
  <2>1. i = 1 \/ i = 2
    BY <1>2
  <2>2. QED
    BY <2>1
<1> HIDE DEF s, h
<1>5. Threads(s, m0, m2)
  BY <1>2, <1>3, <1>4 DEF Threads
<1>6. QED
  BY <1>5 DEF s

LEMMA Threads3 ==
    ASSUME NEW a, NEW b, NEW c, NEW m0, NEW m1, NEW m2, NEW m3,
           Fits(a, m0, m1), Fits(b, m1, m2), Fits(c, m2, m3)
    PROVE  Threads(<<a, b, c>>, m0, m3)
<1> DEFINE s == <<a, b, c>>
           h == <<m0, m1, m2, m3>>
<1>1. m0 \in Heights /\ m1 \in Heights /\ m2 \in Heights /\ m3 \in Heights
  BY DEF Fits, Heights
<1>2. s \in Seq({a, b, c}) /\ Len(s) = 3
  OBVIOUS
<1>3. h \in [1 .. Len(s) + 1 -> Heights] /\ h[1] = m0 /\ h[Len(s) + 1] = m3
  BY <1>1, <1>2
<1>4. \A i \in 1 .. Len(s) : Fits(s[i], h[i], h[i + 1])
  <2> TAKE i \in 1 .. Len(s)
  <2>1. i = 1 \/ i = 2 \/ i = 3
    BY <1>2
  <2>2. QED
    BY <2>1
<1> HIDE DEF s, h
<1>5. Threads(s, m0, m3)
  BY <1>2, <1>3, <1>4 DEF Threads
<1>6. QED
  BY <1>5 DEF s

LEMMA Threads4 ==
    ASSUME NEW a, NEW b, NEW c, NEW d, NEW m0, NEW m1, NEW m2, NEW m3, NEW m4,
           Fits(a, m0, m1), Fits(b, m1, m2), Fits(c, m2, m3), Fits(d, m3, m4)
    PROVE  Threads(<<a, b, c, d>>, m0, m4)
<1> DEFINE s == <<a, b, c, d>>
           h == <<m0, m1, m2, m3, m4>>
<1>1. m0 \in Heights /\ m1 \in Heights /\ m2 \in Heights /\ m3 \in Heights /\ m4 \in Heights
  BY DEF Fits, Heights
<1>2. s \in Seq({a, b, c, d}) /\ Len(s) = 4
  OBVIOUS
<1>3. h \in [1 .. Len(s) + 1 -> Heights] /\ h[1] = m0 /\ h[Len(s) + 1] = m4
  BY <1>1, <1>2
<1>4. \A i \in 1 .. Len(s) : Fits(s[i], h[i], h[i + 1])
  <2> TAKE i \in 1 .. Len(s)
  <2>1. i = 1 \/ i = 2 \/ i = 3 \/ i = 4
    BY <1>2
  <2>2. QED
    BY <2>1
<1> HIDE DEF s, h
<1>5. Threads(s, m0, m4)
  BY <1>2, <1>3, <1>4 DEF Threads
<1>6. QED
  BY <1>5 DEF s

LEMMA Threads6 ==
    ASSUME NEW a, NEW b, NEW c, NEW d, NEW e, NEW f, NEW m0, NEW m1, NEW m2, NEW m3, NEW m4, NEW m5, NEW m6,
           Fits(a, m0, m1), Fits(b, m1, m2), Fits(c, m2, m3), Fits(d, m3, m4), Fits(e, m4, m5), Fits(f, m5, m6)
    PROVE  Threads(<<a, b, c, d, e, f>>, m0, m6)
<1> DEFINE s == <<a, b, c, d, e, f>>
           h == <<m0, m1, m2, m3, m4, m5, m6>>
<1>1. m0 \in Heights /\ m1 \in Heights /\ m2 \in Heights /\ m3 \in Heights /\ m4 \in Heights /\ m5 \in Heights /\ m6 \in Heights
  BY DEF Fits, Heights
<1>2. s \in Seq({a, b, c, d, e, f}) /\ Len(s) = 6
  OBVIOUS
<1>3. h \in [1 .. Len(s) + 1 -> Heights] /\ h[1] = m0 /\ h[Len(s) + 1] = m6
  BY <1>1, <1>2
<1>4. \A i \in 1 .. Len(s) : Fits(s[i], h[i], h[i + 1])
  <2> TAKE i \in 1 .. Len(s)
  <2>1. i = 1 \/ i = 2 \/ i = 3 \/ i = 4 \/ i = 5 \/ i = 6
    BY <1>2
  <2>2. QED
    BY <2>1
<1> HIDE DEF s, h
<1>5. Threads(s, m0, m6)
  BY <1>2, <1>3, <1>4 DEF Threads
<1>6. QED
  BY <1>5 DEF s

-----------------------------------------------------------------------------
(* The rules of the grammar.                                               *)

LEMMA ItemFits ==
    ASSUME NEW m \in Nat
    PROVE  /\ Fits(Discard, m, m)
           /\ \A ty : Fits(Expect(ty), m, m)
           /\ \A ty, v : Fits(ExpectOne(ty, v), m, m)
           /\ \A lo, hi : Fits(Number(lo, hi), m, m + 1)
           /\ Fits(parse_identifier, m, m + 1)
           /\ \A x : Fits(Push(x), m, m + 1)
           /\ \A n \in Heights : Fits(Fail, m, n)
<1>1. m \in Heights /\ m + 1 \in Heights
  BY DEF Heights
<1>2. QED
  BY <1>1 DEF Fits, Discard, Expect, ExpectOne, Number, parse_identifier, Push, Fail, Item

\* What the calls of the rules and the makings need, and lead to.
LEMMA CallFits ==
    ASSUME NEW m \in Nat
    PROVE  /\ \A r \in {"block", "constants", "braces", "code", "op"} : Fits(Call(r), m, m)
           /\ m >= 1 => \A r \in {"args", "more_args", "vars", "var_names"} : Fits(Call(r), m, m)
           /\ \A r \in {"value", "immediate"} : Fits(Call(r), m, m + 1)
           /\ m = 0 => Fits(Call("toplevel"), m, -1)
<1>1. m \in Heights /\ m + 1 \in Heights /\ -1 \in Heights
  BY DEF Heights
<1>2. QED
  BY <1>1 DEF Fits, Call, Item

LEMMA MakeFits ==
    ASSUME NEW m \in Nat
    PROVE  /\ m >= 1 => \A what \in {"negative", "method"} : Fits(Make(what), m, m)
           /\ m >= 2 => \A what \in {"name", "immediate", "arg", "var"} : Fits(Make(what), m, m - 1)
           /\ m >= 1 => \A what \in {"call", "label"} : Fits(Make(what), m, m - 1)
           /\ m >= 2 => Fits(Make("constant"), m, m - 2)
           /\ m = 0 => Fits(Make("end"), m, -1)
<1>1. /\ m \in Heights /\ -1 \in Heights
      /\ m >= 1 => m - 1 \in Heights
      /\ m >= 2 => m - 2 \in Heights
  BY DEF Heights
<1>2. QED
  BY <1>1 DEF Fits, Make, Item

LEMMA CallFitsOnly ==
    ASSUME NEW r, NEW m, NEW n, Fits(Call(r), m, n)
    PROVE  /\ m \in Nat /\ n \in Heights
           /\ \/ r = "toplevel" /\ m = 0 /\ n = -1
              \/ r \in {"block", "constants", "braces", "code", "op"} /\ n = m
              \/ r \in {"args", "more_args", "vars", "var_names"} /\ m >= 1 /\ n = m
              \/ r \in {"value", "immediate"} /\ n = m + 1
  BY DEF Fits, Call, Item

LEMMA ParseValueThreads ==
    ASSUME NEW t, NEW lo, NEW hi, NEW m \in Nat
    PROVE  Threads(parse_value(t, lo, hi), m, m + 1)
<1>1. CASE is_next(t, "Operator", {"-"})
  <2>1. Fits(Discard, m, m) /\ Fits(Number(lo, hi), m, m + 1)
    BY ItemFits
  <2>2. Fits(Make("negative"), m + 1, m + 1)
    BY MakeFits
  <2>3. Threads(<<Discard, Number(lo, hi), Make("negative")>>, m, m + 1)
    BY <2>1, <2>2, Threads3
  <2>4. QED
    BY <1>1, <2>3 DEF parse_value
<1>2. CASE ~ is_next(t, "Operator", {"-"})
  <2>1. Threads(<<Number(lo, hi)>>, m, m + 1)
    BY ItemFits, Threads1
  <2>2. QED
    BY <1>2, <2>1 DEF parse_value
<1>3. QED
  BY <1>1, <1>2

LEMMA ParseEndThreads ==
    ASSUME NEW w, NEW m \in Nat
    PROVE  Threads(parse_end(w), m, m)
<1>1. /\ Fits(Expect("Period"), m, m)
      /\ Fits(ExpectOne("Keyword", "end"), m, m)
      /\ Fits(ExpectOne("Operator", "-"), m, m)
      /\ Fits(ExpectOne("Keyword", w), m, m)
  BY ItemFits
<1>2. QED
  BY <1>1, Threads4 DEF parse_end

LEMMA ParseOpThreads ==
    ASSUME NEW t, NEW m \in Nat
    PROVE  Threads(parse_jas_op(t), m, m)
<1> DEFINE call == PlainOf(IF t.value = "IF_ICMPEQ" THEN "ICMPEQ" ELSE t.value)
           known == t.value \in ReadableOps \cup NameOps \cup ImmOps \cup {"IF_ICMPEQ"}
           begin == <<Discard, Push(call)>>
           named == IF t.value \in NameOps \cup {"IF_ICMPEQ"}
                    THEN <<parse_identifier, Make("name")>> ELSE << >>
           number == IF t.value \in ImmOps THEN <<Call("immediate"), Make("immediate")>> ELSE << >>
<1> DEFINE n == m + 1
<1>1. n \in Nat /\ n \in Heights /\ n >= 1 /\ n + 1 \in Nat /\ n + 1 >= 2 /\ (n + 1) - 1 = n
  BY DEF Heights
<1>2. Threads(begin, m, n)
  BY ItemFits, Threads2
<1>3. Threads(named, n, n)
  <2>1. Fits(parse_identifier, n, n + 1) /\ Fits(Make("name"), n + 1, n)
    BY <1>1, ItemFits, MakeFits
  <2> HIDE DEF n
  <2>2. Threads(<<parse_identifier, Make("name")>>, n, n)
    BY <2>1, Threads2
  <2>3. QED
    BY <1>1, <2>2, ThreadsEmpty
<1>4. Threads(number, n, n)
  <2>1. Fits(Call("immediate"), n, n + 1) /\ Fits(Make("immediate"), n + 1, n)
    BY <1>1, CallFits, MakeFits
  <2> HIDE DEF n
  <2>2. Threads(<<Call("immediate"), Make("immediate")>>, n, n)
    BY <2>1, Threads2
  <2>3. QED
    BY <1>1, <2>2, ThreadsEmpty
<1>5. Threads(<<Make("call")>>, n, m)
  <2>1. Fits(Make("call"), n, m)
    BY <1>1, MakeFits
  <2>2. QED
    BY <2>1, Threads1
<1>6. Threads(<<Fail>>, m, m)
  BY ItemFits, Threads1 DEF Heights
<1>7. parse_jas_op(t) = IF known THEN begin \o named \o number \o <<Make("call")>> ELSE <<Fail>>
  BY DEF parse_jas_op
<1> HIDE DEF begin, named, number, n, known
<1>8. Threads(begin \o named, m, n)
  BY <1>2, <1>3, ThreadsConcat
<1>9. Threads(begin \o named \o number, m, n)
  BY <1>4, <1>8, ThreadsConcat
<1>10. Threads(begin \o named \o number \o <<Make("call")>>, m, m)
  BY <1>5, <1>9, ThreadsConcat
<1>11. QED
  BY <1>6, <1>7, <1>10

LEMMA ParseMethodThreads ==
    ASSUME NEW t, NEW m \in Nat
    PROVE  Threads(parse_method(t), m, m)
<1> DEFINE n == m + 1
           body == <<Call("vars"), Make("call"), Call("code")>>
           name == IF t.value = "main" THEN "main" ELSE "method"
<1>1. n \in Nat /\ n >= 1 /\ n + 1 \in Nat /\ n + 1 >= 2 /\ (n + 1) - 1 = n /\ n - 1 = m
  OBVIOUS
<1>2. Threads(parse_main, m, n)
  <2>1. /\ Fits(Discard, m, m)
        /\ Fits(Push(FunctionOf("main", << >>, << >>)), m, n)
        /\ Fits(Call("braces"), n, n)
    BY <1>1, ItemFits, CallFits
  <2> HIDE DEF n
  <2>2. QED
    BY <2>1, Threads3 DEF parse_main
<1>3. Threads(parse_named, m, n)
  <2>1. /\ Fits(Discard, m, m)
        /\ Fits(parse_identifier, m, n)
        /\ Fits(Make("method"), n, n)
        /\ Fits(Expect("BracesOpen"), n, n)
        /\ Fits(Call("args"), n, n)
        /\ Fits(Expect("BracesClose"), n, n)
    BY <1>1, ItemFits, CallFits, MakeFits
  <2> HIDE DEF n
  <2>2. QED
    BY <2>1, Threads6 DEF parse_named
<1>4. Threads(body, n, m)
  <2>1. /\ Fits(Call("vars"), n, n)
        /\ Fits(Make("call"), n, m)
        /\ Fits(Call("code"), m, m)
    BY <1>1, CallFits, MakeFits
  <2> HIDE DEF n
  <2>2. QED
    BY <2>1, Threads3
<1>5. Threads(parse_end(name), m, m)
  BY ParseEndThreads
<1>6. parse_method(t) = (IF t.value = "main" THEN parse_main ELSE parse_named)
                           \o body \o parse_end(name)
  BY DEF parse_method
<1> HIDE DEF n, body, name
<1>7. Threads((IF t.value = "main" THEN parse_main ELSE parse_named) \o body, m, m)
  BY <1>2, <1>3, <1>4, ThreadsConcat
<1>8. QED
  BY <1>5, <1>6, <1>7, ThreadsConcat

LEMMA RuleThreads ==
    ASSUME NEW r, NEW t, NEW m, NEW n, Fits(Call(r), m, n)
    PROVE  Threads(Rule(r, t), m, n)
<1>1. /\ m \in Nat /\ n \in Heights
      /\ \/ r = "toplevel" /\ m = 0 /\ n = -1
         \/ r \in {"block", "constants", "braces", "code", "op"} /\ n = m
         \/ r \in {"args", "more_args", "vars", "var_names"} /\ m >= 1 /\ n = m
         \/ r \in {"value", "immediate"} /\ n = m + 1
  BY CallFitsOnly
<1>e. m \in Heights /\ Threads(<< >>, m, m)
  BY <1>1, ThreadsEmpty DEF Heights
<1>2. CASE r = "toplevel"
  <2>1. m = 0 /\ n = -1 /\ Rule(r, t) = parse_toplevel(t)
    BY <1>1, <1>2 DEF Rule
  <2>2. Threads(<<Discard, Call("block"), Call("toplevel")>>, m, n)
    BY <2>1, ItemFits, CallFits, Threads3
  <2>3. Threads(<<Make("end")>>, m, n)
    BY <2>1, MakeFits, Threads1
  <2>4. QED
    BY <2>1, <2>2, <2>3 DEF parse_toplevel
<1>3. CASE r = "block"
  <2>1. n = m /\ Rule(r, t) = parse_block(t)
    BY <1>1, <1>3 DEF Rule
  <2>2. Threads(<<Discard, Call("constants")>>, m, m)
    BY <1>1, ItemFits, CallFits, Threads2
  <2>3. Threads(<<Fail>>, m, m)
    BY <1>1, <1>e, ItemFits, Threads1
  <2>4. Threads(parse_method(t), m, m)
    BY <1>1, ParseMethodThreads
  <2>5. QED
    BY <2>1, <2>2, <2>3, <2>4 DEF parse_block
<1>4. CASE r = "constants"
  <2>1. n = m /\ Rule(r, t) = parse_constant_block(t)
    BY <1>1, <1>4 DEF Rule
  <2>2. /\ Fits(parse_identifier, m, m + 1)
        /\ Fits(Call("value"), m + 1, m + 2)
        /\ Fits(Make("constant"), m + 2, m)
        /\ Fits(Call("constants"), m, m)
    <3>1. m + 1 \in Nat /\ m + 2 \in Nat /\ m + 2 >= 2 /\ (m + 1) + 1 = m + 2 /\ (m + 2) - 2 = m
      BY <1>1
    <3>2. QED
      BY <1>1, <3>1, ItemFits, CallFits, MakeFits
  <2>3. Threads(<<parse_identifier, Call("value"), Make("constant"), Call("constants")>>, m, m)
    BY <2>2, Threads4
  <2>4. Threads(parse_end("constant"), m, m)
    BY <1>1, ParseEndThreads
  <2>5. QED
    BY <2>1, <2>3, <2>4 DEF parse_constant_block
<1>5. CASE r = "value"
  <2>1. n = m + 1 /\ Rule(r, t) = parse_value(t, INT32_MIN, INT32_MAX)
    BY <1>1, <1>5 DEF Rule
  <2>2. QED
    BY <1>1, <2>1, ParseValueThreads
<1>6. CASE r = "immediate"
  <2>1. n = m + 1 /\ Rule(r, t) = parse_value(t, I8_MIN, I8_MAX)
    BY <1>1, <1>6 DEF Rule
  <2>2. QED
    BY <1>1, <2>1, ParseValueThreads
<1>7. CASE r = "braces"
  <2>1. n = m /\ Rule(r, t) = parse_braces(t)
    BY <1>1, <1>7 DEF Rule
  <2>2. Threads(<<Discard, Expect("BracesClose")>>, m, m)
    BY <1>1, ItemFits, Threads2
  <2>3. QED
    BY <1>e, <2>1, <2>2 DEF parse_braces
<1>8. CASE r = "args"
  <2>1. n = m /\ m >= 1 /\ Rule(r, t) = parse_args(t)
    BY <1>1, <1>8 DEF Rule
  <2>2. /\ Fits(parse_identifier, m, m + 1)
        /\ Fits(Make("arg"), m + 1, m)
        /\ Fits(Call("more_args"), m, m)
    <3>1. m + 1 \in Nat /\ m + 1 >= 2 /\ (m + 1) - 1 = m
      BY <1>1, <2>1
    <3>2. QED
      BY <1>1, <2>1, <3>1, ItemFits, CallFits, MakeFits
  <2>3. Threads(<<parse_identifier, Make("arg"), Call("more_args")>>, m, m)
    BY <2>2, Threads3
  <2>4. QED
    BY <1>e, <2>1, <2>3 DEF parse_args
<1>9. CASE r = "more_args"
  <2>1. n = m /\ m >= 1 /\ Rule(r, t) = more_args(t)
    BY <1>1, <1>9 DEF Rule
  <2>2. /\ Fits(Discard, m, m)
        /\ Fits(parse_identifier, m, m + 1)
        /\ Fits(Make("arg"), m + 1, m)
        /\ Fits(Call("more_args"), m, m)
    <3>1. m + 1 \in Nat /\ m + 1 >= 2 /\ (m + 1) - 1 = m
      BY <1>1, <2>1
    <3>2. QED
      BY <1>1, <2>1, <3>1, ItemFits, CallFits, MakeFits
  <2>3. Threads(<<Discard, parse_identifier, Make("arg"), Call("more_args")>>, m, m)
    BY <2>2, Threads4
  <2>4. QED
    BY <1>e, <2>1, <2>3 DEF more_args
<1>10. CASE r = "vars"
  <2>1. n = m /\ m >= 1 /\ Rule(r, t) = parse_optional_vars(t)
    BY <1>1, <1>10 DEF Rule
  <2>2. Threads(<<Discard, ExpectOne("Keyword", "var"), Call("var_names")>>, m, m)
    BY <1>1, <2>1, ItemFits, CallFits, Threads3
  <2>3. QED
    BY <1>e, <2>1, <2>2 DEF parse_optional_vars
<1>11. CASE r = "var_names"
  <2>1. n = m /\ m >= 1 /\ Rule(r, t) = parse_vars(t)
    BY <1>1, <1>11 DEF Rule
  <2>2. /\ Fits(parse_identifier, m, m + 1)
        /\ Fits(Make("var"), m + 1, m)
        /\ Fits(Call("var_names"), m, m)
    <3>1. m + 1 \in Nat /\ m + 1 >= 2 /\ (m + 1) - 1 = m
      BY <1>1, <2>1
    <3>2. QED
      BY <1>1, <2>1, <3>1, ItemFits, CallFits, MakeFits
  <2>3. Threads(<<parse_identifier, Make("var"), Call("var_names")>>, m, m)
    BY <2>2, Threads3
  <2>4. Threads(parse_end("var"), m, m)
    BY <1>1, ParseEndThreads
  <2>5. QED
    BY <2>1, <2>3, <2>4 DEF parse_vars
<1>12. CASE r = "code"
  <2>1. n = m /\ Rule(r, t) = parse_code(t)
    BY <1>1, <1>12 DEF Rule
  <2>2. /\ Fits(parse_identifier, m, m + 1)
        /\ Fits(Expect("Colon"), m + 1, m + 1)
        /\ Fits(Make("label"), m + 1, m)
        /\ Fits(Call("code"), m, m)
        /\ Fits(Call("op"), m, m)
    <3>1. m + 1 \in Nat /\ m + 1 >= 1 /\ (m + 1) - 1 = m
      BY <1>1
    <3>2. QED
      BY <1>1, <3>1, ItemFits, CallFits, MakeFits
  <2>3. Threads(<<parse_identifier, Expect("Colon"), Make("label"), Call("code")>>, m, m)
    BY <2>2, Threads4
  <2>4. Threads(<<Call("op"), Call("code")>>, m, m)
    BY <2>2, Threads2
  <2>5. QED
    BY <1>e, <2>1, <2>3, <2>4 DEF parse_code
<1>13. CASE r = "op"
  <2>1. n = m /\ Rule(r, t) = parse_jas_op(t)
    BY <1>1, <1>13 DEF Rule
  <2>2. QED
    BY <1>1, <2>1, ParseOpThreads
<1>14. QED
  BY <1>1, <1>2, <1>3, <1>4, <1>5, <1>6, <1>7, <1>8, <1>9, <1>10, <1>11, <1>12, <1>13

-----------------------------------------------------------------------------
(* The steps.                                                              *)

\* How a step shortens what has been built.
LEMMA BuiltShorter ==
    ASSUME NEW S, NEW b \in Seq(S), NEW k \in 0 .. Len(b)
    PROVE  SubSeq(b, 1, Len(b) - k) \in Seq(S) /\ Len(SubSeq(b, 1, Len(b) - k)) = Len(b) - k
<1>1. Len(b) - k \in Nat /\ \A i \in 1 .. Len(b) - k : b[i] \in S
  OBVIOUS
<1>2. QED
  BY <1>1

LEMMA NextThing ==
    ASSUME IInv
    PROVE  /\ Len(built) \in Nat /\ todo # << >>
           /\ \E k \in Heights : Fits(Head(todo), Len(built), k) /\ Threads(Tail(todo), k, -1)
<1>1. PICK S : built \in Seq(S)
  BY DEF IInv
<1>2. Len(built) \in Nat
  BY <1>1
<1>3. QED
  BY <1>2, ThreadsHead DEF IInv

LEMMA InitIInv == Init => IInv
<1> SUFFICES ASSUME Init
             PROVE  IInv
  OBVIOUS
<1>1. built \in Seq({}) /\ Len(built) = 0
  BY DEF Init
<1>2. Threads(todo, Len(built), -1)
  <2>1. Fits(Call("toplevel"), 0, -1)
    BY CallFits
  <2>2. QED
    BY <1>1, <2>1, Threads1 DEF Init
<1>3. script \in Seq(JasCalls) /\ said \in 0 .. Len(script)
  <2>1. script \in Seq(JasCalls) /\ said = 0
    BY ScriptsAssumption DEF Init
  <2>2. QED
    BY <2>1
<1>4. constant_order \in Seq({}) /\ ToSet(constant_order) = {} /\ DOMAIN constant_map = {}
  BY DEF Init, ToSet
<1>5. Len(cache) <= 1 /\ accessible_vars = {} /\ phase = "writing"
  BY DEF Init
<1>6. QED
  BY <1>1, <1>2, <1>3, <1>4, <1>5 DEF IInv

-----------------------------------------------------------------------------
(* The writer.                                                             *)

\* What was said before is still the last that was said of a variable.
LEMMA SameFunction ==
    ASSUME IInv, script' = script, said' = said + 1, said < Len(script),
           script[said + 1].op # "function", accessible_vars' = accessible_vars
    PROVE  \A v \in accessible_vars' :
              LET begun == {i \in 1 .. said' : script'[i].op = "function"}
              IN  v \in ToSet(script'[Max(begun)].args) \cup ToSet(script'[Max(begun)].vars)
<1>1. said \in Nat /\ \A i : i \in 1 .. said + 1 <=> i \in 1 .. said \/ i = said + 1
  BY DEF IInv
<1>2. {i \in 1 .. said' : script'[i].op = "function"} = {i \in 1 .. said : script[i].op = "function"}
  BY <1>1
<1>3. QED
  BY <1>2 DEF IInv

LEMMA WriteKeepsIInv ==
    ASSUME IInv, constant \/ function \/ label \/ Instruction
    PROVE  IInv'
<1>1. /\ phase' = phase /\ cache' = cache /\ built' = built /\ todo' = todo
      /\ script' = script /\ said' = said + 1 /\ said < Len(script)
      /\ said + 1 \in 1 .. Len(script) /\ said' \in 0 .. Len(script')
  <2>1. /\ phase' = phase /\ cache' = cache /\ built' = built /\ todo' = todo
        /\ script' = script /\ said' = said + 1 /\ said < Len(script)
    BY DEF constant, function, label, Instruction, Said, Make1, readVars
  <2>2. Len(script) \in Nat /\ said \in 0 .. Len(script)
    BY DEF IInv
  <2>3. QED
    BY <2>1, <2>2
<1>2. /\ phase' \in {"writing", "parsing", "done", "error"}
      /\ script' \in Seq(JasCalls)
      /\ Len(cache') <= 1
      /\ \E S : built' \in Seq(S)
      /\ Threads(todo', Len(built'), -1)
  BY <1>1 DEF IInv
<1>3. (\E S : constant_order' \in Seq(S)) /\ ToSet(constant_order') = DOMAIN constant_map'
  <2>1. CASE constant
    <3> DEFINE nm == next_call.name
    <3>1. PICK S : constant_order \in Seq(S)
      BY DEF IInv
    <3>2. DOMAIN constant_map' = DOMAIN constant_map \cup {nm}
      BY <2>1 DEF constant
    <3>3. constant_order' = IF nm \in DOMAIN constant_map THEN constant_order
                            ELSE Append(constant_order, nm)
      BY <2>1 DEF constant
    <3>4. ToSet(constant_order) = DOMAIN constant_map
      BY DEF IInv
    <3> HIDE DEF nm
    <3>5. CASE nm \in DOMAIN constant_map
      BY <3>1, <3>2, <3>3, <3>4, <3>5
    <3>6. CASE nm \notin DOMAIN constant_map
      <4>1. constant_order' = Append(constant_order, nm)
        BY <3>3, <3>6
      <4>2. QED
        <5> DEFINE T == S \cup {nm}
        <5>1. constant_order \in Seq(T) /\ nm \in T
          BY <3>1
        <5> HIDE DEF T
        <5>2. /\ Append(constant_order, nm) \in Seq(T)
              /\ ToSet(Append(constant_order, nm)) = ToSet(constant_order) \cup {nm}
          BY <5>1, AppendToSet
        <5>3. QED
          BY <3>2, <3>4, <4>1, <5>2
    <3>7. QED
      BY <3>5, <3>6
  <2>2. CASE ~ constant
    <3>1. constant_order' = constant_order /\ constant_map' = constant_map
      BY <2>2 DEF function, label, Instruction
    <3>2. QED
      BY <3>1 DEF IInv
  <2>3. QED
    BY <2>1, <2>2
<1>4. \A v \in accessible_vars' :
         LET begun == {i \in 1 .. said' : script'[i].op = "function"}
         IN  v \in ToSet(script'[Max(begun)].args) \cup ToSet(script'[Max(begun)].vars)
  <2>1. CASE function
    <3> DEFINE begun == {i \in 1 .. said' : script'[i].op = "function"}
    <3>1. script'[said + 1].op = "function"
      BY <1>1, <2>1 DEF function, Make1
    <3>2. said + 1 \in begun /\ \A i \in begun : i <= said + 1
      BY <1>1, <3>1
    <3>3. begun \subseteq Int
      BY <1>1
    <3> HIDE DEF begun
    <3>4. Max(begun) = said + 1
      <4>1. said + 1 \in Int /\ \A x \in begun : (\A y \in begun : x >= y) => x = said + 1
        BY <1>1, <3>2, <3>3
      <4>2. \A y \in begun : said + 1 >= y
        BY <3>2, <3>3
      <4>3. QED
        BY <3>2, <4>1, <4>2 DEF Max
    <3>5. accessible_vars' = ToSet(script[said + 1].args) \cup ToSet(script[said + 1].vars)
      BY <2>1 DEF function, variables, next_call
    <3>6. \A v \in accessible_vars' :
             v \in ToSet(script'[Max(begun)].args) \cup ToSet(script'[Max(begun)].vars)
      BY <1>1, <3>4, <3>5
    <3>7. QED
      BY <3>6 DEF begun
  <2>2. CASE ~ function
    <3>1. accessible_vars' = accessible_vars
      BY <2>2 DEF constant, label, Instruction
    <3>2. script[said + 1].op # "function"
      BY <2>2 DEF constant, label, Instruction, Make1, PlainOps, ReadableOps, NameOps, ImmOps
    <3>3. QED
      BY <1>1, <3>1, <3>2, SameFunction
  <2>3. QED
    BY <2>1, <2>2
<1>5. QED
  BY <1>1, <1>2, <1>3, <1>4 DEF IInv

-----------------------------------------------------------------------------
(* The reader.                                                             *)

\* What the reader does to the invariant is in its own variables.
LEMMA ReadKeepsIInv ==
    ASSUME IInv, UNCHANGED written,
           phase' \in {"writing", "parsing", "done", "error"}, Len(cache') <= 1,
           \E S : built' \in Seq(S), Threads(todo', Len(built'), -1)
    PROVE  IInv'
<1>1. /\ script' = script /\ said' = said /\ constant_order' = constant_order
      /\ constant_map' = constant_map /\ accessible_vars' = accessible_vars
  BY DEF written
<1>2. QED
  BY <1>1 DEF IInv

LEMMA BecomesKeeps ==
    ASSUME IInv, NEW k \in {1, 2}, NEW x, Becomes(k, x), Len(built) >= k,
           Threads(Tail(todo), Len(built) - k + 1, -1)
    PROVE  /\ phase' = phase /\ cache' = cache
           /\ \E S : built' \in Seq(S)
           /\ Threads(todo', Len(built'), -1)
<1>1. PICK S : built \in Seq(S)
  BY DEF IInv
<1> DEFINE rest == SubSeq(built, 1, Len(built) - k)
           T == S \cup {x}
<1>2. rest \in Seq(S) /\ Len(rest) = Len(built) - k
  <2>1. k \in 0 .. Len(built)
    BY <1>1
  <2>2. QED
    BY <1>1, <2>1, BuiltShorter
<1>3. todo' = Tail(todo) /\ built' = Append(rest, x) /\ phase' = phase /\ cache' = cache
  BY DEF Becomes
<1> HIDE DEF rest
<1>4. Append(rest, x) \in Seq(T) /\ Len(Append(rest, x)) = Len(rest) + 1
  <2>1. rest \in Seq(T) /\ x \in T
    BY <1>2
  <2> HIDE DEF T
  <2>2. QED
    BY <2>1
<1>5. QED
  BY <1>2, <1>3, <1>4

LEMMA ComposeKeepsIInv == IInv /\ Compose => IInv'
<1> SUFFICES ASSUME IInv, Compose
             PROVE  IInv'
  OBVIOUS
<1> DEFINE what == Head(todo).a
<1>1. /\ Head(todo).do = "make" /\ UNCHANGED written /\ phase = "parsing"
      /\ \/ what \in {"negative", "method"} /\ \E x : Becomes(1, x)
         \/ what \in {"name", "immediate", "arg", "var"} /\ \E x : Becomes(2, x)
  BY DEF Compose
<1>2. PICK k \in Heights : Fits(Head(todo), Len(built), k) /\ Threads(Tail(todo), k, -1)
  BY NextThing
<1>3. Len(built) \in Nat
  BY NextThing
<1>4. /\ phase' = phase /\ cache' = cache
      /\ \E S : built' \in Seq(S)
      /\ Threads(todo', Len(built'), -1)
  <2>1. CASE what \in {"negative", "method"} /\ \E x : Becomes(1, x)
    <3>1. Len(built) >= 1 /\ k = Len(built) - 1 + 1
      BY <1>1, <1>2, <1>3, <2>1 DEF Fits
    <3>2. QED
      BY <1>2, <2>1, <3>1, BecomesKeeps
  <2>2. CASE what \in {"name", "immediate", "arg", "var"} /\ \E x : Becomes(2, x)
    <3>1. Len(built) >= 2 /\ k = Len(built) - 2 + 1
      BY <1>1, <1>2, <1>3, <2>2 DEF Fits
    <3>2. QED
      BY <1>2, <2>2, <3>1, BecomesKeeps
  <2>3. QED
    BY <1>1, <2>1, <2>2
<1>5. Len(cache') <= 1 /\ phase' = "parsing"
  BY <1>1, <1>4 DEF IInv
<1>6. QED
  BY <1>1, <1>4, <1>5, ReadKeepsIInv

LEMMA CallsKeeps ==
    ASSUME IInv, NEW k \in {1, 2}, NEW call, Calls(k, call), Len(built) >= k,
           Threads(Tail(todo), Len(built) - k, -1)
    PROVE  IInv'
<1>1. PICK S : built \in Seq(S)
  BY DEF IInv
<1> DEFINE rest == SubSeq(built, 1, Len(built) - k)
<1>2. rest \in Seq(S) /\ Len(rest) = Len(built) - k
  <2>1. k \in 0 .. Len(built)
    BY <1>1
  <2>2. QED
    BY <1>1, <2>1, BuiltShorter
<1>3. todo' = Tail(todo) /\ built' = rest /\ phase' = phase /\ cache' = cache /\ UNCHANGED written
  BY DEF Calls
<1> HIDE DEF rest
<1>4. (\E S1 : built' \in Seq(S1)) /\ Threads(todo', Len(built'), -1)
  BY <1>2, <1>3
<1>5. phase' \in {"writing", "parsing", "done", "error"} /\ Len(cache') <= 1
  BY <1>3 DEF IInv
<1>6. QED
  BY <1>3, <1>4, <1>5, ReadKeepsIInv

LEMMA SpeakKeepsIInv == IInv /\ Speak => IInv'
<1> SUFFICES ASSUME IInv, Speak
             PROVE  IInv'
  OBVIOUS
<1> DEFINE what == Head(todo).a
<1>1. /\ Head(todo).do = "make"
      /\ \/ what \in {"call", "label"} /\ \E call : Calls(1, call)
         \/ what = "constant" /\ \E call : Calls(2, call)
  BY DEF Speak, making
<1>2. PICK k \in Heights : Fits(Head(todo), Len(built), k) /\ Threads(Tail(todo), k, -1)
  BY NextThing
<1>3. Len(built) \in Nat
  BY NextThing
<1>4. CASE what \in {"call", "label"} /\ \E call : Calls(1, call)
  <2>1. Len(built) >= 1 /\ k = Len(built) - 1
    BY <1>1, <1>2, <1>3, <1>4 DEF Fits
  <2>2. QED
    BY <1>2, <1>4, <2>1, CallsKeeps
<1>5. CASE what = "constant" /\ \E call : Calls(2, call)
  <2>1. Len(built) >= 2 /\ k = Len(built) - 2
    BY <1>1, <1>2, <1>3, <1>5 DEF Fits
  <2>2. QED
    BY <1>2, <1>5, <2>1, CallsKeeps
<1>6. QED
  BY <1>1, <1>4, <1>5

LEMMA DescendKeepsIInv == IInv /\ Descend(Rule) /\ UNCHANGED written => IInv'
<1> SUFFICES ASSUME IInv, Descend(Rule), UNCHANGED written
             PROVE  IInv'
  OBVIOUS
<1> DEFINE r == Head(todo).a
           t == cache[1]
<1>1. /\ phase' = phase /\ cache' = cache /\ built' = built
      /\ todo' = Rule(r, t) \o Tail(todo)
      /\ Head(todo).do = "call"
  BY DEF Descend
<1>2. PICK k \in Heights : Fits(Head(todo), Len(built), k) /\ Threads(Tail(todo), k, -1)
  BY NextThing
<1>3. Fits(Call(r), Len(built), k)
  BY <1>1, <1>2 DEF Fits, Call, Item
<1> HIDE DEF r, t
<1>4. Threads(Rule(r, t), Len(built), k)
  BY <1>3, RuleThreads
<1>5. Threads(todo', Len(built'), -1)
  BY <1>1, <1>2, <1>4, ThreadsConcat
<1>6. /\ phase' \in {"writing", "parsing", "done", "error"} /\ Len(cache') <= 1
      /\ \E S : built' \in Seq(S)
  BY <1>1 DEF IInv
<1>7. QED
  BY <1>5, <1>6, ReadKeepsIInv

LEMMA ThrowKeepsIInv == IInv /\ Throw /\ UNCHANGED written => IInv'
<1> SUFFICES ASSUME IInv, Throw, UNCHANGED written
             PROVE  IInv'
  OBVIOUS
<1>1. phase' = "error" /\ cache' = cache /\ built' = built /\ todo' = todo
  BY DEF Throw
<1>2. /\ Len(cache') <= 1
      /\ \E S : built' \in Seq(S)
      /\ Threads(todo', Len(built'), -1)
  BY <1>1 DEF IInv
<1>3. QED
  BY <1>1, <1>2, ReadKeepsIInv

\* One more thing is built.
LEMMA BuiltLonger ==
    ASSUME IInv, NEW x, built' = Append(built, x), todo' = Tail(todo),
           Threads(Tail(todo), Len(built) + 1, -1)
    PROVE  (\E S : built' \in Seq(S)) /\ Threads(todo', Len(built'), -1)
<1>1. PICK S : built \in Seq(S)
  BY DEF IInv
<1> DEFINE T == S \cup {x}
<1>2. built \in Seq(T) /\ x \in T
  BY <1>1
<1> HIDE DEF T
<1>3. Append(built, x) \in Seq(T) /\ Len(Append(built, x)) = Len(built) + 1
  BY <1>2
<1>4. QED
  BY <1>3

LEMMA ConsumeKeepsIInv == IInv /\ Consume /\ UNCHANGED written => IInv'
<1> SUFFICES ASSUME IInv, Consume, UNCHANGED written
             PROVE  IInv'
  OBVIOUS
<1> DEFINE t == cache[1]
           item == Head(todo)
<1>1. /\ phase = "parsing" /\ item.do \in {"discard", "take", "expect", "number", "identifier"}
      /\ \/ Throw
         \/ /\ cache' = << >> /\ todo' = Tail(todo) /\ phase' = phase
            /\ built' = built \o kept(item, t)
  BY DEF Consume, Peeking
<1>2. CASE Throw
  BY <1>2, ThrowKeepsIInv
<1>3. CASE /\ cache' = << >> /\ todo' = Tail(todo) /\ phase' = phase
           /\ built' = built \o kept(item, t)
  <2>1. PICK k \in Heights : Fits(item, Len(built), k) /\ Threads(Tail(todo), k, -1)
    BY NextThing
  <2>2. PICK S : built \in Seq(S)
    BY DEF IInv
  <2>3. (\E S1 : built' \in Seq(S1)) /\ Threads(todo', Len(built'), -1)
    <3>1. CASE item.do \in {"discard", "expect"}
      <4>1. k = Len(built)
        BY <2>1, <3>1 DEF Fits
      <4>2. kept(item, t) = << >>
        BY <3>1 DEF kept
      <4>3. built' = built
        BY <1>3, <2>2, <4>2
      <4>4. QED
        BY <1>3, <2>1, <2>2, <4>1, <4>3
    <3>2. CASE item.do \in {"number", "identifier"}
      <4>1. k = Len(built) + 1
        BY <2>1, <3>2 DEF Fits
      <4>2. \E x : kept(item, t) = <<x>>
        BY <3>2 DEF kept
      <4>3. \E x : built' = Append(built, x)
        <5>1. PICK x : kept(item, t) = <<x>>
          BY <4>2
        <5>2. built' = Append(built, x)
          BY <1>3, <2>2, <5>1, AppendIsConcat
        <5>3. QED
          BY <5>2
      <4>4. QED
        BY <1>3, <2>1, <4>1, <4>3, BuiltLonger
    <3>3. item.do # "take"
      BY <2>1 DEF Fits
    <3>4. QED
      BY <1>1, <3>1, <3>2, <3>3
  <2>4. phase' = "parsing" /\ Len(cache') <= 1
    BY <1>1, <1>3
  <2>5. QED
    BY <2>3, <2>4, ReadKeepsIInv
<1>4. QED
  BY <1>1, <1>2, <1>3

LEMMA KeepKeepsIInv == IInv /\ Keep /\ UNCHANGED written => IInv'
<1> SUFFICES ASSUME IInv, Keep, UNCHANGED written
             PROVE  IInv'
  OBVIOUS
<1>1. /\ phase' = phase /\ cache' = cache /\ todo' = Tail(todo)
      /\ built' = Append(built, Head(todo).b) /\ Head(todo).do = "push"
  BY DEF Keep
<1>2. PICK k \in Heights : Fits(Head(todo), Len(built), k) /\ Threads(Tail(todo), k, -1)
  BY NextThing
<1>3. k = Len(built) + 1
  BY <1>1, <1>2 DEF Fits
<1>4. (\E S : built' \in Seq(S)) /\ Threads(todo', Len(built'), -1)
  BY <1>1, <1>2, <1>3, BuiltLonger
<1>5. phase' \in {"writing", "parsing", "done", "error"} /\ Len(cache') <= 1
  BY <1>1 DEF IInv
<1>6. QED
  BY <1>4, <1>5, ReadKeepsIInv

-----------------------------------------------------------------------------
(* The theorem.                                                            *)

LEMMA NextIInv == IInv /\ [Next]_vars => IInv'
<1> SUFFICES ASSUME IInv, [Next]_vars
             PROVE  IInv'
  OBVIOUS
<1>k. /\ phase \in {"writing", "parsing", "done", "error"} /\ Len(cache) <= 1
      /\ \E S : built \in Seq(S)
      /\ Threads(todo, Len(built), -1)
  BY DEF IInv
<1>1. CASE constant \/ function \/ label \/ Instruction
  BY <1>1, WriteKeepsIInv
<1>2. CASE compile
  <2>1. phase' = "parsing" /\ cache' = cache /\ built' = built /\ todo' = todo /\ UNCHANGED written
    BY <1>2 DEF compile
  <2>2. QED
    BY <1>k, <2>1, ReadKeepsIInv
<1>3. CASE Read
  <2>1. UNCHANGED written
    BY <1>3 DEF Read
  <2>2. CASE ReadToken
    <3>1. phase' = phase /\ built' = built /\ todo' = todo /\ Len(cache') <= 1
      BY <2>2 DEF ReadToken
    <3>2. QED
      BY <1>k, <2>1, <3>1, ReadKeepsIInv
  <2>3. CASE OutOfTokens
    <3>1. phase' \in {"done", "error"} /\ built' = built /\ todo' = todo /\ cache' = cache
      BY <2>3 DEF OutOfTokens
    <3>2. QED
      BY <1>k, <2>1, <3>1, ReadKeepsIInv
  <2>4. CASE Descend(Rule)
    BY <2>1, <2>4, DescendKeepsIInv
  <2>5. CASE Consume
    BY <2>1, <2>5, ConsumeKeepsIInv
  <2>6. CASE Refuse
    <3>1. Throw
      BY <2>6 DEF Refuse
    <3>2. QED
      BY <2>1, <3>1, ThrowKeepsIInv
  <2>7. CASE Keep
    BY <2>1, <2>7, KeepKeepsIInv
  <2>8. QED
    BY <1>3, <2>2, <2>3, <2>4, <2>5, <2>6, <2>7 DEF Read
<1>4. CASE Compose
  BY <1>4, ComposeKeepsIInv
<1>5. CASE Speak
  BY <1>5, SpeakKeepsIInv
<1>6. CASE EndOfProgram
  <2>1. phase' = "done" /\ cache' = cache /\ built' = built /\ todo' = todo /\ UNCHANGED written
    BY <1>6 DEF EndOfProgram
  <2>2. QED
    BY <1>k, <2>1, ReadKeepsIInv
<1>7. CASE UNCHANGED vars
  <2>1. phase' = phase /\ cache' = cache /\ built' = built /\ todo' = todo /\ UNCHANGED written
    BY <1>7 DEF vars, readVars
  <2>2. QED
    BY <1>k, <2>1, ReadKeepsIInv
<1>8. QED
  BY <1>1, <1>2, <1>3, <1>4, <1>5, <1>6, <1>7 DEF Next, Write

LEMMA IInvSettled == IInv => Settled
<1> SUFFICES ASSUME IInv,
                    Head(todo).do \in {"call", "make"}, Head(todo).a \in {"toplevel", "end"}
             PROVE  Len(todo) = 1 /\ built = << >>
  BY DEF Settled
<1>1. PICK S : built \in Seq(S)
  BY DEF IInv
<1>2. PICK k \in Heights : Fits(Head(todo), Len(built), k) /\ Threads(Tail(todo), k, -1)
  BY NextThing
<1>3. Len(built) = 0 /\ k = -1
  BY <1>2 DEF Fits
<1>4. PICK S1 : todo \in Seq(S1)
  BY DEF IInv, Threads
<1>5. todo # << >>
  BY NextThing
<1>6. Len(Tail(todo)) = Len(todo) - 1 /\ Len(todo) \in Nat \ {0} /\ Tail(todo) \in Seq(S1)
  BY <1>4, <1>5
<1>7. Len(Tail(todo)) = 0
  <2>1. PICK h \in [1 .. Len(Tail(todo)) + 1 -> Heights] :
          /\ h[1] = -1
          /\ \A i \in 1 .. Len(Tail(todo)) : Fits(Tail(todo)[i], h[i], h[i + 1])
    BY <1>2, <1>3 DEF Threads
  <2>2. 1 \in 1 .. Len(Tail(todo)) => h[1] \in Nat
    BY <2>1 DEF Fits
  <2>3. QED
    BY <1>6, <2>1, <2>2
<1>8. built = << >>
  BY <1>1, <1>3
<1>9. Len(todo) = 1
  <2> DEFINE l == Len(todo)
             rest == Len(Tail(todo))
  <2>1. rest = l - 1 /\ l \in Nat /\ rest = 0
    BY <1>6, <1>7
  <2> HIDE DEF l, rest
  <2>2. l = 1
    BY <2>1
  <2>3. QED
    BY <2>2 DEF l
<1>10. QED
  BY <1>8, <1>9

LEMMA IInvTypeOK == IInv => TypeOK
  BY IInvSettled DEF IInv, TypeOK

(***************************************************************************)
(* is_var of the JAS assembler (src/src/backends/jas_assembler.cpp) knows  *)
(* the arguments and variables of the function that was begun last and no  *)
(* others, its constants are listed once each, and jas_compile             *)
(* (src/src/frontends/jas/compile.cpp) comes to the end of a block, and of *)
(* the text, with nothing half-read: whatever is written and whatever is   *)
(* read.                                                                   *)
(***************************************************************************)
THEOREM TypeAlwaysOK == Spec => []TypeOK
<1>1. Init => IInv
  BY InitIInv
<1>2. IInv /\ [Next]_vars => IInv'
  BY NextIInv
<1>3. IInv => TypeOK
  BY IInvTypeOK
<1>4. QED
  BY <1>1, <1>2, <1>3, PTL DEF Spec

-----------------------------------------------------------------------------
(* What was said, in the order in which the text has it.                   *)

\* The calls at the positions in S, in their order, become one more.
LEMMA RankedGrows ==
    ASSUME NEW n \in Nat, NEW S \in SUBSET (1 .. n)
    PROVE  /\ Cardinality(S) \in Nat /\ Cardinality(S \cup {n + 1}) = Cardinality(S) + 1
           /\ \A i \in 1 .. Cardinality(S) : ranked(S \cup {n + 1}, i) = ranked(S, i)
           /\ ranked(S \cup {n + 1}, Cardinality(S) + 1) = {n + 1}
<1> DEFINE T == S \cup {n + 1}
           upto(U, s) == {t \in U : t <= s}
<1>1. IsFiniteSet(1 .. n)
  BY FS_Interval
<1>2. IsFiniteSet(S) /\ Cardinality(S) \in Nat
  BY <1>1, FS_Subset, FS_CardinalityType
<1>3. n + 1 \notin S
  OBVIOUS
<1>4. Cardinality(T) = Cardinality(S) + 1
  BY <1>2, <1>3, FS_AddElement
<1>5. \A s \in S : upto(T, s) = upto(S, s) /\ Cardinality(upto(S, s)) <= Cardinality(S)
  <2> TAKE s \in S
  <2>1. upto(T, s) = upto(S, s)
    OBVIOUS
  <2>2. upto(S, s) \in SUBSET S
    OBVIOUS
  <2>3. QED
    BY <1>2, <2>1, <2>2, FS_Subset
<1>6. upto(T, n + 1) = T
  <2>1. \A t \in T : t \in Int /\ t <= n + 1
    OBVIOUS
  <2>2. QED
    BY <2>1
<1>7. \A s \in S : Cardinality(upto(S, s)) \in Nat
  <2> TAKE s \in S
  <2>1. upto(S, s) \in SUBSET S
    OBVIOUS
  <2>2. QED
    BY <1>2, <2>1, FS_Subset, FS_CardinalityType
<1>8. \A i : ranked(T, i) = {s \in T : Cardinality(upto(T, s)) = i}
             /\ ranked(S, i) = {s \in S : Cardinality(upto(S, s)) = i}
  BY DEF ranked
<1>9. \A s \in T : s \in S \/ s = n + 1
  OBVIOUS
<1>10. S \subseteq T /\ n + 1 \in T
  OBVIOUS
<1> HIDE DEF T, upto
<1>11. ASSUME NEW i \in 1 .. Cardinality(S)
       PROVE  ranked(T, i) = ranked(S, i)
  <2>1. i # Cardinality(T)
    BY <1>2, <1>4
  <2>2. Cardinality(upto(T, n + 1)) # i
    BY <1>6, <2>1
  <2>3. \A s \in S : s \in ranked(T, i) <=> s \in ranked(S, i)
    BY <1>5, <1>8, <1>10
  <2>4. n + 1 \notin ranked(T, i) /\ ranked(S, i) \subseteq S /\ ranked(T, i) \subseteq T
    BY <1>8, <2>2
  <2>5. QED
    BY <1>9, <2>3, <2>4
<1>12. ranked(T, Cardinality(S) + 1) = {n + 1}
  <2>1. \A s \in S : Cardinality(upto(T, s)) # Cardinality(S) + 1
    BY <1>2, <1>5, <1>7
  <2>2. \A s \in S : s \notin ranked(T, Cardinality(S) + 1)
    BY <1>5, <1>8, <2>1
  <2>3. n + 1 \in ranked(T, Cardinality(S) + 1)
    BY <1>4, <1>6, <1>8, <1>10
  <2>4. ranked(T, Cardinality(S) + 1) \subseteq T
    BY <1>8
  <2>5. QED
    BY <1>9, <2>2, <2>3, <2>4
<1>13. QED
  BY <1>2, <1>4, <1>11, <1>12 DEF T

\* What Append does.
LEMMA AppendFacts ==
    ASSUME NEW S, NEW s \in Seq(S), NEW x \in S
    PROVE  /\ Append(s, x) \in Seq(S) /\ Len(s) \in Nat /\ Len(Append(s, x)) = Len(s) + 1
           /\ Append(s, x)[Len(s) + 1] = x
           /\ \A i \in 1 .. Len(s) : Append(s, x)[i] = s[i]
OBVIOUS

\* One more position, behind the others.
LEMMA InOrderGrows ==
    ASSUME NEW z, NEW n \in Nat, NEW S \in SUBSET (1 .. n), NEW C, InOrder(z, S) \in Seq(C), z[n + 1] \in C
    PROVE  /\ InOrder(z, S \cup {n + 1}) = Append(InOrder(z, S), z[n + 1])
           /\ InOrder(z, S \cup {n + 1}) \in Seq(C)
<1> DEFINE T == S \cup {n + 1}
           k == Cardinality(S)
           s == InOrder(z, S)
           x == z[n + 1]
<1>1. /\ k \in Nat /\ Cardinality(T) = k + 1
      /\ \A i \in 1 .. k : ranked(T, i) = ranked(S, i)
      /\ ranked(T, k + 1) = {n + 1}
  BY RankedGrows
<1>2. s = [i \in 1 .. k |-> z[CHOOSE q \in ranked(S, i) : TRUE]]
  BY DEF InOrder
<1>3. Len(s) = k
  BY <1>1, <1>2
<1>4. InOrder(z, T) = [i \in 1 .. k + 1 |-> z[CHOOSE q \in ranked(T, i) : TRUE]]
  BY <1>1 DEF InOrder
<1>5. (CHOOSE q \in {n + 1} : TRUE) = n + 1
  OBVIOUS
<1>6. s \in Seq(C) /\ x \in C
  OBVIOUS
<1> HIDE DEF s, T, k, x
<1>7. /\ Append(s, x) \in Seq(C) /\ Len(Append(s, x)) = k + 1 
      /\ \A i \in 1 .. k + 1 : Append(s, x)[i] = IF i <= k THEN s[i] ELSE x
  BY <1>1, <1>3, <1>6
<1> DEFINE a == Append(s, x)
<1> HIDE DEF a
<1>8. a = [i \in 1 .. k + 1 |-> a[i]]
  <2>1. a \in Seq(C) /\ Len(a) = k + 1
    BY <1>7 DEF a
  <2>2. a = [i \in 1 .. Len(a) |-> a[i]]
    BY <2>1
  <2>3. QED
    BY <2>1, <2>2
<1>9. \A i \in 1 .. k + 1 : a[i] = InOrder(z, T)[i]
  <2> TAKE i \in 1 .. k + 1
  <2>0. InOrder(z, T)[i] = z[CHOOSE q \in ranked(T, i) : TRUE]
    BY <1>4
  <2>1. CASE i \in 1 .. k
    <3>1. a[i] = s[i]
      BY <1>1, <1>7, <2>1 DEF a
    <3>2. ranked(T, i) = ranked(S, i)
      BY <1>1, <2>1
    <3>3. s[i] = z[CHOOSE q \in ranked(S, i) : TRUE]
      BY <1>2, <2>1
    <3>4. QED
      BY <2>0, <3>1, <3>2, <3>3
  <2>2. CASE i = k + 1
    <3>1. a[i] = x
      BY <1>1, <1>7, <2>2 DEF a
    <3>2. ranked(T, i) = {n + 1}
      BY <1>1, <2>2
    <3>3. QED
      BY <1>5, <2>0, <3>1, <3>2 DEF x
  <2>3. QED
    BY <1>1, <2>1, <2>2
<1>10. a = InOrder(z, T)
  <2>1. InOrder(z, T) = [i \in 1 .. k + 1 |-> InOrder(z, T)[i]]
    BY <1>4
  <2>2. QED
    BY <1>8, <1>9, <2>1
<1>11. QED
  BY <1>7, <1>10 DEF T, s, x, a

\* Of no positions.
LEMMA InOrderEmpty == \A z : InOrder(z, {}) = << >>
<1>1. Cardinality({}) = 0
  BY FS_EmptySet
<1>2. QED
  BY <1>1 DEF InOrder

-----------------------------------------------------------------------------
(* The text.                                                               *)

\* The tokens that the writer writes.
TokenValues == STRING \cup keywords \cup {"", "-"}

TokenTypes == {"Keyword", "Identifier", "Operator", "Decimal", "Hexadecimal",
               "BracesOpen", "BracesClose", "Comma", "Period", "Colon"}

JasTokens == [type : TokenTypes, value : TokenValues, n : Int, chars : {<< >>}]

\* c is in the text t, behind its first p tokens.
At(t, p, c) ==
    /\ p \in Nat /\ p + Len(c) <= Len(t)
    /\ \A j \in 1 .. Len(c) : t[p + j] = c[j]

\* A text stays where it is when something is put behind it or in front.
LEMMA AtProperties ==
    ASSUME NEW S, NEW s \in Seq(S), NEW t \in Seq(S), NEW c \in Seq(S), NEW p
    PROVE  /\ At(s, p, c) => At(s \o t, p, c)
           /\ At(s \o t, Len(s), t)
           /\ At(s, p, c) => At(t \o s, Len(t) + p, c)
<1>1. /\ Len(s) \in Nat /\ Len(t) \in Nat /\ Len(c) \in Nat
      /\ s \o t \in Seq(S) /\ t \o s \in Seq(S)
      /\ Len(s \o t) = Len(s) + Len(t) /\ Len(t \o s) = Len(t) + Len(s)
      /\ \A i \in 1 .. Len(s) + Len(t) : (s \o t)[i] = IF i <= Len(s) THEN s[i] ELSE t[i - Len(s)]
      /\ \A i \in 1 .. Len(t) + Len(s) : (t \o s)[i] = IF i <= Len(t) THEN t[i] ELSE s[i - Len(t)]
  BY ConcatProperties
<1> DEFINE st == s \o t
           ts == t \o s
<1> HIDE DEF st, ts
<1>2. ASSUME At(s, p, c)
      PROVE  At(st, p, c)
  <2>1. p \in Nat /\ p + Len(c) <= Len(s) /\ p + Len(c) <= Len(st)
    BY <1>1, <1>2 DEF At, st
  <2>2. ASSUME NEW j \in 1 .. Len(c)
        PROVE  st[p + j] = c[j]
    <3>1. p + j \in 1 .. Len(s) + Len(t) /\ p + j <= Len(s)
      BY <1>1, <2>1
    <3>2. st[p + j] = s[p + j]
      BY <1>1, <3>1 DEF st
    <3>3. QED
      BY <1>2, <3>2 DEF At
  <2>3. QED
    BY <2>1, <2>2 DEF At
<1>3. At(st, Len(s), t)
  <2>1. Len(s) \in Nat /\ Len(s) + Len(t) <= Len(st)
    BY <1>1 DEF st
  <2>2. ASSUME NEW j \in 1 .. Len(t)
        PROVE  st[Len(s) + j] = t[j]
    <3>1. Len(s) + j \in 1 .. Len(s) + Len(t) /\ ~(Len(s) + j <= Len(s)) /\ (Len(s) + j) - Len(s) = j
      BY <1>1
    <3>2. QED
      BY <1>1, <3>1 DEF st
  <2>3. QED
    BY <2>1, <2>2 DEF At
<1>4. ASSUME At(s, p, c)
      PROVE  At(ts, Len(t) + p, c)
  <2>1. p \in Nat /\ p + Len(c) <= Len(s) /\ Len(t) + p \in Nat /\ (Len(t) + p) + Len(c) <= Len(ts)
    BY <1>1, <1>4 DEF At, ts
  <2>2. ASSUME NEW j \in 1 .. Len(c)
        PROVE  ts[(Len(t) + p) + j] = c[j]
    <3> DEFINE q == (Len(t) + p) + j
    <3>1. q \in 1 .. Len(t) + Len(s) /\ ~(q <= Len(t)) /\ q - Len(t) = p + j
      BY <1>1, <2>1
    <3> HIDE DEF q
    <3>2. ts[q] = s[p + j]
      BY <1>1, <3>1 DEF ts
    <3>3. QED
      BY <1>4, <3>2 DEF At, q
  <2>3. QED
    BY <2>1, <2>2 DEF At
<1>5. QED
  BY <1>2, <1>3, <1>4 DEF st, ts

\* The two parts of a text.
LEMMA AtSplit ==
    ASSUME NEW S, NEW t \in Seq(S), NEW c \in Seq(S), NEW d \in Seq(S), NEW p, At(t, p, c \o d)
    PROVE  At(t, p, c) /\ At(t, p + Len(c), d)
<1> DEFINE e == c \o d
<1>1. /\ Len(c) \in Nat /\ Len(d) \in Nat /\ Len(t) \in Nat
      /\ Len(e) = Len(c) + Len(d)
      /\ \A i \in 1 .. Len(c) + Len(d) : e[i] = IF i <= Len(c) THEN c[i] ELSE d[i - Len(c)]
  BY ConcatProperties
<1>2. At(t, p, e)
  OBVIOUS
<1> HIDE DEF e
<1>3. p \in Nat /\ p + Len(c) + Len(d) <= Len(t) /\ \A j \in 1 .. Len(c) + Len(d) : t[p + j] = e[j]
  BY <1>1, <1>2 DEF At
<1>4. At(t, p, c)
  <2>1. p + Len(c) <= Len(t)
    BY <1>1, <1>3
  <2>2. ASSUME NEW j \in 1 .. Len(c)
        PROVE  t[p + j] = c[j]
    BY <1>1, <1>3
  <2>3. QED
    BY <1>3, <2>1, <2>2 DEF At
<1>5. At(t, p + Len(c), d)
  <2>1. p + Len(c) \in Nat /\ (p + Len(c)) + Len(d) <= Len(t)
    BY <1>1, <1>3
  <2>2. ASSUME NEW j \in 1 .. Len(d)
        PROVE  t[(p + Len(c)) + j] = d[j]
    <3> DEFINE q == Len(c) + j
    <3>1. q \in 1 .. Len(c) + Len(d) /\ ~(q <= Len(c)) /\ q - Len(c) = j /\ (p + Len(c)) + j = p + q
      BY <1>1, <1>3
    <3> HIDE DEF q
    <3>2. t[p + q] = d[j]
      BY <1>1, <1>3, <3>1
    <3>3. QED
      BY <3>1, <3>2
  <2>3. QED
    BY <2>1, <2>2 DEF At
<1>6. QED
  BY <1>4, <1>5

\* The tokens of a short text.
LEMMA AtTuples ==
    ASSUME NEW t, NEW p, NEW a, NEW b, NEW c, NEW d
    PROVE  /\ At(t, p, <<a>>) => p + 1 <= Len(t) /\ t[p + 1] = a
           /\ At(t, p, <<a, b>>) => p + 2 <= Len(t) /\ t[p + 1] = a /\ t[p + 2] = b
           /\ At(t, p, <<a, b, c>>) => p + 3 <= Len(t) /\ t[p + 1] = a /\ t[p + 2] = b /\ t[p + 3] = c
           /\ At(t, p, <<a, b, c, d>>) =>
                 p + 4 <= Len(t) /\ t[p + 1] = a /\ t[p + 2] = b /\ t[p + 3] = c /\ t[p + 4] = d
<1>1. ASSUME At(t, p, <<a>>)
      PROVE  p + 1 <= Len(t) /\ t[p + 1] = a
  BY <1>1 DEF At
<1>2. ASSUME At(t, p, <<a, b>>)
      PROVE  p + 2 <= Len(t) /\ t[p + 1] = a /\ t[p + 2] = b
  BY <1>2 DEF At
<1>3. ASSUME At(t, p, <<a, b, c>>)
      PROVE  p + 3 <= Len(t) /\ t[p + 1] = a /\ t[p + 2] = b /\ t[p + 3] = c
  BY <1>3 DEF At
<1>4. ASSUME At(t, p, <<a, b, c, d>>)
      PROVE  p + 4 <= Len(t) /\ t[p + 1] = a /\ t[p + 2] = b /\ t[p + 3] = c /\ t[p + 4] = d
  BY <1>4 DEF At
<1>5. QED
  BY <1>1, <1>2, <1>3, <1>4

\* The bounds of the numbers.
LEMMA Widths ==
    /\ I8_MAX \in Nat /\ INT32_MAX \in Nat /\ I8_MAX < INT32_MAX
    /\ I8_MIN \in Int /\ I8_MIN = -I8_MAX - 1 /\ INT32_MIN \in Int /\ INT32_MIN = -INT32_MAX - 1
  BY WidthAssumption DEF I8_MIN, INT32_MIN

\* A word is a keyword or an identifier.
LEMMA WordType ==
    ASSUME NEW w
    PROVE  /\ Word(w).value = w
           /\ w \in keywords => Word(w) = Keyword(w) /\ Word(w).type = "Keyword"
           /\ w \notin keywords => Word(w).type = "Identifier"
           /\ w \in TokenValues => Word(w) \in JasTokens
<1>1. Keyword(w).value = w /\ Keyword(w).type = "Keyword" /\ Identifier(w).value = w /\ Identifier(w).type = "Identifier"
  BY DEF Keyword, Identifier, Token
<1>2. w \in TokenValues => Keyword(w) \in JasTokens /\ Identifier(w) \in JasTokens
  BY DEF Keyword, Identifier, Token, JasTokens, TokenTypes
<1>3. QED
  BY <1>1, <1>2 DEF Word

\* What may be the value of a token.
LEMMA KeywordValues ==
    /\ \A w \in STRING \cup keywords : w \in TokenValues
    /\ "" \in TokenValues /\ "-" \in TokenValues
    /\ {"constant", "main", "method", "var", "end", "IF_ICMPEQ"} \subseteq keywords
    /\ PlainOps \cup NameOps \cup ImmOps \subseteq keywords
  BY DEF TokenValues, keywords

\* The tokens that are written.
LEMMA MarkTypes ==
    /\ \A ty \in {"BracesOpen", "BracesClose", "Comma", "Period", "Colon"} :
          Mark(ty) \in JasTokens /\ Mark(ty).type = ty
    /\ \A w \in TokenValues : Keyword(w) \in JasTokens /\ Operator(w) \in JasTokens
    /\ \A k \in Int : Decimal(k) \in JasTokens /\ Hexadecimal(k) \in JasTokens
<1>1. "" \in TokenValues
  BY KeywordValues
<1>2. \A ty \in {"BracesOpen", "BracesClose", "Comma", "Period", "Colon"} :
          Mark(ty) \in JasTokens /\ Mark(ty).type = ty
  <2>1. \A ty : Mark(ty).type = ty
    BY DEF Mark, Token
  <2>2. \A ty \in TokenTypes : Mark(ty) \in JasTokens
    <3> TAKE ty \in TokenTypes
    <3>1. \A v \in TokenValues, k \in Int, cs1 \in {<< >>} : [type |-> ty, value |-> v, n |-> k, chars |-> cs1] \in JasTokens
      BY DEF JasTokens
    <3>2. Mark(ty) = [type |-> ty, value |-> "", n |-> 0, chars |-> << >>]
      BY DEF Mark, Token
    <3>3. 0 \in Int /\ << >> \in {<< >>}
      OBVIOUS
    <3>4. QED
      BY <1>1, <3>1, <3>2, <3>3, Zenon
  <2>3. {"BracesOpen", "BracesClose", "Comma", "Period", "Colon"} \subseteq TokenTypes
    BY DEF TokenTypes
  <2>4. QED
    BY <2>1, <2>2, <2>3
<1>3. \A w \in TokenValues : Keyword(w) \in JasTokens /\ Operator(w) \in JasTokens
  BY DEF Keyword, Operator, Token, JasTokens, TokenTypes
<1>4. \A k \in Int : Decimal(k) \in JasTokens /\ Hexadecimal(k) \in JasTokens
  BY <1>1 DEF Decimal, Hexadecimal, Token, JasTokens, TokenTypes
<1>5. QED
  BY <1>2, <1>3, <1>4

LEMMA Marks ==
    BracesOpen \in JasTokens /\ BracesClose \in JasTokens /\ Comma \in JasTokens
      /\ Period \in JasTokens /\ Colon \in JasTokens
  BY MarkTypes DEF BracesOpen, BracesClose, Comma, Period, Colon

\* What is written of a call.
written_for(c, i) ==
    IF \E j \in 1 .. i - 1 : c[j].op = "function" /\ c[j].name # "main" THEN "method" ELSE "main"

Chunk(c, i) ==
    CASE c[i].op = "function" -> header(c[i], Ending(written_for(c, i))) \o declared(c[i])
      [] c[i].op = "label"    -> <<Word(c[i].name), Colon>>
      [] OTHER                -> instruction(c[i])

\* What is written are tokens: the end of a block,
LEMMA EndingType ==
    ASSUME NEW w \in keywords
    PROVE  Ending(w) \in Seq(JasTokens) /\ Len(Ending(w)) = 4
<1>1. Period \in JasTokens /\ Keyword("end") \in JasTokens /\ Operator("-") \in JasTokens /\ Keyword(w) \in JasTokens
  BY Marks, MarkTypes, KeywordValues
<1>2. QED
  BY <1>1 DEF Ending

\* names with commas,
LEMMA ListedType ==
    ASSUME NEW ws \in Seq(STRING)
    PROVE  /\ Listed(ws) \in Seq(JasTokens)
           /\ Len(Listed(ws)) = IF ws = << >> THEN 0 ELSE 2 * Len(ws) - 1
           /\ \A i \in 1 .. Len(ws) : 2 * i - 1 \in 1 .. Len(Listed(ws)) /\ Listed(ws)[2 * i - 1] = Word(ws[i])
           /\ \A i \in 1 .. Len(ws) - 1 : 2 * i \in 1 .. Len(Listed(ws)) /\ Listed(ws)[2 * i] = Comma
<1> DEFINE n == Len(ws)
<1>1. n \in Nat /\ (ws = << >> <=> n = 0) /\ \A i \in 1 .. n : ws[i] \in TokenValues
  <2>1. n \in Nat /\ (ws = << >> <=> n = 0) /\ \A i \in 1 .. n : ws[i] \in STRING
    OBVIOUS
  <2>2. QED
    BY <2>1, KeywordValues
<1> DEFINE e == [i \in 1 .. 2 * n - 1 |-> IF i % 2 = 0 THEN Comma ELSE Word(ws[(i + 1) \div 2])]
<1>2. Listed(ws) = e
  BY DEF Listed
<1>3. ASSUME NEW i \in 1 .. 2 * n - 1
      PROVE  (IF i % 2 = 0 THEN Comma ELSE Word(ws[(i + 1) \div 2])) \in JasTokens
  <2>1. CASE i % 2 = 0
    BY <2>1, Marks
  <2>2. CASE i % 2 # 0
    <3>1. (i + 1) \div 2 \in 1 .. n
      BY <1>1, <2>2
    <3>2. Word(ws[(i + 1) \div 2]) \in JasTokens
      BY <1>1, <3>1, WordType
    <3>3. QED
      BY <2>2, <3>2
  <2>3. QED
    BY <2>1, <2>2
<1> HIDE DEF n
<1>4. CASE n = 0
  <2>1. e = << >>
    BY <1>4
  <2>2. QED
    BY <1>1, <1>2, <1>4, <2>1 DEF n
<1>5. CASE n > 0
  <2>1. 2 * n - 1 \in Nat
    BY <1>1, <1>5
  <2>2. e \in Seq(JasTokens) /\ Len(e) = 2 * n - 1
    BY <1>3, <2>1
  <2>3. ASSUME NEW i \in 1 .. n
        PROVE  2 * i - 1 \in 1 .. 2 * n - 1 /\ e[2 * i - 1] = Word(ws[i])
    <3>1. 2 * i - 1 \in 1 .. 2 * n - 1 /\ (2 * i - 1) % 2 # 0 /\ ((2 * i - 1) + 1) \div 2 = i
      BY <1>1
    <3>2. QED
      BY <3>1
  <2>4. ASSUME NEW i \in 1 .. n - 1
        PROVE  2 * i \in 1 .. 2 * n - 1 /\ e[2 * i] = Comma
    <3>1. 2 * i \in 1 .. 2 * n - 1 /\ (2 * i) % 2 = 0
      BY <1>1
    <3>2. QED
      BY <3>1
  <2> HIDE DEF e
  <2>5. ws # << >>
    BY <1>1, <1>5
  <2>6. QED
    BY <1>2, <2>2, <2>3, <2>4, <2>5 DEF n
<1>6. QED
  BY <1>1, <1>4, <1>5

\* names without,
LEMMA WordsType ==
    ASSUME NEW ws \in Seq(STRING)
    PROVE  /\ Words(ws) \in Seq(JasTokens) /\ Len(Words(ws)) = Len(ws)
           /\ \A i \in 1 .. Len(ws) : Words(ws)[i] = Word(ws[i])
<1>1. Len(ws) \in Nat /\ DOMAIN ws = 1 .. Len(ws) /\ \A i \in 1 .. Len(ws) : ws[i] \in TokenValues
  <2>1. Len(ws) \in Nat /\ DOMAIN ws = 1 .. Len(ws) /\ \A i \in 1 .. Len(ws) : ws[i] \in STRING
    OBVIOUS
  <2>2. QED
    BY <2>1, KeywordValues
<1>2. Words(ws) = [i \in 1 .. Len(ws) |-> Word(ws[i])]
  BY <1>1 DEF Words
<1>3. \A i \in 1 .. Len(ws) : Word(ws[i]) \in JasTokens
  BY <1>1, WordType
<1>4. QED
  BY <1>1, <1>2, <1>3

\* what begins a function,
LEMMA HeaderType ==
    ASSUME NEW f \in JasCalls, NEW w \in keywords
    PROVE  header(f, Ending(w)) \in Seq(JasTokens)
<1> DEFINE front == <<Period, Keyword("method"), Word(f.name), BracesOpen>>
           behind == <<BracesClose>>
<1>1. f.name \in STRING /\ f.args \in Seq(STRING)
  BY DEF JasCalls
<1>2. front \in Seq(JasTokens) /\ behind \in Seq(JasTokens) /\ Ending(w) \in Seq(JasTokens)
      /\ Listed(f.args) \in Seq(JasTokens) /\ <<Period, Keyword("main")>> \in Seq(JasTokens)
  <2>1. Keyword("method") \in JasTokens /\ Keyword("main") \in JasTokens /\ Word(f.name) \in JasTokens
    BY <1>1, MarkTypes, WordType, KeywordValues
  <2>2. QED
    BY <1>1, <2>1, Marks, EndingType, ListedType
<1>3. header(f, Ending(w)) = IF f.name = "main" THEN <<Period, Keyword("main")>>
                             ELSE Ending(w) \o front \o Listed(f.args) \o behind
  BY DEF header
<1> HIDE DEF front, behind
<1>4. Ending(w) \o front \o Listed(f.args) \o behind \in Seq(JasTokens)
  BY <1>2
<1>5. QED
  BY <1>2, <1>3, <1>4

\* its variables,
LEMMA DeclaredType ==
    ASSUME NEW f \in JasCalls
    PROVE  declared(f) \in Seq(JasTokens)
<1> DEFINE front == <<Period, Keyword("var")>>
<1>1. f.vars \in Seq(STRING)
  BY DEF JasCalls
<1>2. front \in Seq(JasTokens) /\ Words(f.vars) \in Seq(JasTokens) /\ Ending("var") \in Seq(JasTokens)
  <2>1. "var" \in keywords /\ Keyword("var") \in JasTokens
    BY MarkTypes, KeywordValues
  <2>2. QED
    BY <1>1, <2>1, Marks, WordsType, EndingType
<1>3. declared(f) = IF f.vars = << >> THEN << >> ELSE front \o Words(f.vars) \o Ending("var")
  BY DEF declared
<1> HIDE DEF front
<1>4. front \o Words(f.vars) \o Ending("var") \in Seq(JasTokens) /\ << >> \in Seq(JasTokens)
  BY <1>2
<1>5. QED
  BY <1>3, <1>4

\* a number with its sign,
LEMMA SignedType ==
    ASSUME NEW k \in Int
    PROVE  Signed(k) \in Seq(JasTokens)
<1>1. -k \in Int
  OBVIOUS
<1>2. Operator("-") \in JasTokens /\ Decimal(k) \in JasTokens /\ Decimal(-k) \in JasTokens
  BY <1>1, MarkTypes, KeywordValues
<1>3. QED
  BY <1>2 DEF Signed

\* an instruction,
LEMMA InstructionType ==
    ASSUME NEW call \in JasCalls
    PROVE  instruction(call) \in Seq(JasTokens)
<1> DEFINE op == IF call.op = "ICMPEQ" THEN "IF_ICMPEQ" ELSE call.op
           named == IF call.op \in NameOps THEN <<Word(call.name)>> ELSE << >>
           number == IF call.op \in ImmOps THEN Signed(call.n) ELSE << >>
<1>1. call.name \in TokenValues /\ op \in TokenValues /\ call.n \in Int
  <2>1. call.name \in STRING /\ call.op \in STRING /\ call.n \in INT32_MIN .. INT32_MAX
    BY DEF JasCalls
  <2>2. call.n \in Int
    BY <2>1, Widths
  <2>3. op \in TokenValues
    <3>1. "IF_ICMPEQ" \in TokenValues /\ call.op \in TokenValues
      BY <2>1, KeywordValues
    <3>2. QED
      BY <3>1
  <2>4. QED
    BY <2>1, <2>2, <2>3, KeywordValues
<1>2. <<Word(op)>> \in Seq(JasTokens) /\ named \in Seq(JasTokens)
  BY <1>1, WordType
<1>3. number \in Seq(JasTokens)
  BY <1>1, SignedType
<1>4. instruction(call) = <<Word(op)>> \o named \o number
  BY DEF instruction
<1> HIDE DEF named, number, op
<1>5. <<Word(op)>> \o named \o number \in Seq(JasTokens)
  BY <1>2, <1>3
<1>6. QED
  BY <1>4, <1>5

\* a call.
LEMMA ChunkType ==
    ASSUME NEW c \in Seq(JasCalls), NEW i \in 1 .. Len(c)
    PROVE  Chunk(c, i) \in Seq(JasTokens)
<1>1. c[i] \in JasCalls /\ c[i].name \in TokenValues
  <2>1. c[i] \in JasCalls
    OBVIOUS
  <2>2. QED
    BY <2>1, KeywordValues DEF JasCalls
<1>2. written_for(c, i) \in keywords
  BY KeywordValues DEF written_for
<1>3. CASE c[i].op = "function"
  <2>1. /\ header(c[i], Ending(written_for(c, i))) \in Seq(JasTokens)
        /\ declared(c[i]) \in Seq(JasTokens)
    BY <1>1, <1>2, HeaderType, DeclaredType
  <2>2. Chunk(c, i) = header(c[i], Ending(written_for(c, i))) \o declared(c[i])
    BY <1>3 DEF Chunk
  <2>3. QED
    BY <2>1, <2>2
<1>4. CASE c[i].op = "label"
  <2>1. <<Word(c[i].name), Colon>> \in Seq(JasTokens)
    BY <1>1, WordType, Marks
  <2>2. QED
    BY <1>4, <2>1 DEF Chunk
<1>5. CASE c[i].op # "function" /\ c[i].op # "label"
  <2>1. Chunk(c, i) = instruction(c[i])
    BY <1>5 DEF Chunk
  <2>2. QED
    BY <1>1, <2>1, InstructionType
<1>6. QED
  BY <1>3, <1>4, <1>5

-----------------------------------------------------------------------------
(* What the writer has written.                                            *)

\* What one more call adds to those that are no constants,
LEMMA CodeGrows ==
    ASSUME NEW z, NEW n \in Nat
    PROVE  /\ CodeIn(z, 0) = {} /\ CodeIn(z, n) \in SUBSET (1 .. n)
           /\ z[n + 1].op # "constant" => CodeIn(z, n + 1) = CodeIn(z, n) \cup {n + 1}
           /\ z[n + 1].op = "constant" => CodeIn(z, n + 1) = CodeIn(z, n)
<1>1. \A i : i \in 1 .. n + 1 <=> i \in 1 .. n \/ i = n + 1
  OBVIOUS
<1>2. CodeIn(z, 0) = {} /\ CodeIn(z, n) \in SUBSET (1 .. n)
  BY DEF CodeIn
<1>3. \A i : i \in CodeIn(z, n + 1) <=> i \in CodeIn(z, n) \/ (i = n + 1 /\ z[n + 1].op # "constant")
  BY <1>1 DEF CodeIn
<1>4. QED
  BY <1>2, <1>3

\* to the constants of a name,
LEMMA ConstantsGrow ==
    ASSUME NEW z, NEW n \in Nat
    PROVE  /\ \A nm : ConstantIn(z, nm, 0) = {} /\ ConstantIn(z, nm, n) \in SUBSET (1 .. n)
           /\ \A nm : z[n + 1].op = "constant" /\ z[n + 1].name = nm =>
                         ConstantIn(z, nm, n + 1) = ConstantIn(z, nm, n) \cup {n + 1}
           /\ \A nm : ~(z[n + 1].op = "constant" /\ z[n + 1].name = nm) =>
                         ConstantIn(z, nm, n + 1) = ConstantIn(z, nm, n)
<1>1. \A i : i \in 1 .. n + 1 <=> i \in 1 .. n \/ i = n + 1
  OBVIOUS
<1>2. \A nm : ConstantIn(z, nm, 0) = {} /\ ConstantIn(z, nm, n) \in SUBSET (1 .. n)
  BY DEF ConstantIn
<1>3. \A nm, i : i \in ConstantIn(z, nm, n + 1)
                    <=> i \in ConstantIn(z, nm, n) \/ (i = n + 1 /\ z[n + 1].op = "constant" /\ z[n + 1].name = nm)
  BY <1>1 DEF ConstantIn
<1>4. ASSUME NEW nm, z[n + 1].op = "constant" /\ z[n + 1].name = nm
      PROVE  ConstantIn(z, nm, n + 1) = ConstantIn(z, nm, n) \cup {n + 1}
  BY <1>3, <1>4
<1>5. ASSUME NEW nm, ~(z[n + 1].op = "constant" /\ z[n + 1].name = nm)
      PROVE  ConstantIn(z, nm, n + 1) = ConstantIn(z, nm, n)
  <2>1. \A i : i \in ConstantIn(z, nm, n + 1) <=> i \in ConstantIn(z, nm, n)
    BY <1>3, <1>5
  <2>2. QED
    BY <2>1 DEF ConstantIn
<1>6. QED
  BY <1>2, <1>4, <1>5

\* and to the first ones of their names.
LEMMA FirstGrows ==
    ASSUME NEW z, NEW n \in Nat
    PROVE  /\ FirstIn(z, 0) = {} /\ FirstIn(z, n) \in SUBSET (1 .. n)
           /\ z[n + 1].op = "constant" /\ ConstantIn(z, z[n + 1].name, n) = {} =>
                 FirstIn(z, n + 1) = FirstIn(z, n) \cup {n + 1}
           /\ ~(z[n + 1].op = "constant" /\ ConstantIn(z, z[n + 1].name, n) = {}) =>
                 FirstIn(z, n + 1) = FirstIn(z, n)
<1>1. (\A i : i \in 1 .. n + 1 <=> i \in 1 .. n \/ i = n + 1) /\ (n + 1) - 1 = n
  OBVIOUS
<1>2. FirstIn(z, 0) = {} /\ FirstIn(z, n) \in SUBSET (1 .. n)
  BY DEF FirstIn
<1>3. \A i : i \in FirstIn(z, n + 1)
                <=> i \in FirstIn(z, n)
                      \/ (i = n + 1 /\ z[n + 1].op = "constant" /\ ConstantIn(z, z[n + 1].name, n) = {})
  BY <1>1 DEF FirstIn
<1>4. QED
  BY <1>2, <1>3

\* The last position of a set that the next one was added to.
LEMMA MaxGrows ==
    ASSUME NEW n \in Nat, NEW S \in SUBSET (1 .. n)
    PROVE  Max(S \cup {n + 1}) = n + 1
<1> DEFINE T == S \cup {n + 1}
<1>1. n + 1 \in T /\ \A i \in T : i \in Int /\ i <= n + 1
  OBVIOUS
<1> HIDE DEF T
<1>2. \A x \in T : (\A y \in T : x >= y) => x = n + 1
  <2>1. \A x \in T : x >= n + 1 /\ x <= n + 1 /\ x \in Int => x = n + 1
    OBVIOUS
  <2>2. QED
    BY <1>1, <2>1
<1>3. \A y \in T : n + 1 >= y
  BY <1>1
<1>4. Max(T) = n + 1
  BY <1>1, <1>2, <1>3 DEF Max
<1>5. QED
  BY <1>4 DEF T

\* t is what is written of the calls c.
Laid(t, c) ==
    /\ t \in Seq(JasTokens) /\ c \in Seq(JasCalls)
    /\ \E at \in [1 .. Len(c) + 1 -> Nat] :
          /\ at[1] = 0 /\ at[Len(c) + 1] = Len(t)
          /\ \A i \in 1 .. Len(c) : /\ At(t, at[i], Chunk(c, i))
                                    /\ at[i + 1] = at[i] + Len(Chunk(c, i))

\* A call more changes nothing in what was written of the others.
LEMMA ChunkSame ==
    ASSUME NEW c \in Seq(JasCalls), NEW x \in JasCalls
    PROVE  /\ \A i \in 1 .. Len(c) : Chunk(Append(c, x), i) = Chunk(c, i)
           /\ \A i \in 1 .. Len(c) + 1 : written_for(Append(c, x), i) = written_for(c, i)
           /\ written_for(Append(c, x), Len(c) + 2) =
                 IF x.op = "function" /\ x.name # "main" THEN "method" ELSE written_for(c, Len(c) + 1)
<1> DEFINE d == Append(c, x)
           n == Len(c)
<1>1. n \in Nat /\ (\A i \in 1 .. n : d[i] = c[i]) /\ d[n + 1] = x
  OBVIOUS
<1> HIDE DEF d, n
<1>2. \A i \in 1 .. n + 1 : \A j \in 1 .. i - 1 : d[j] = c[j]
  BY <1>1
<1>3. \A i \in 1 .. n + 1 : written_for(d, i) = written_for(c, i)
  BY <1>2 DEF written_for
<1>4. \A i \in 1 .. n : Chunk(d, i) = Chunk(c, i)
  <2> TAKE i \in 1 .. n
  <2>1. d[i] = c[i] /\ written_for(d, i) = written_for(c, i)
    BY <1>1, <1>3
  <2>2. QED
    BY <2>1 DEF Chunk
<1>5. written_for(d, n + 2) = IF x.op = "function" /\ x.name # "main" THEN "method" ELSE written_for(c, n + 1)
  <2>1. (n + 2) - 1 = n + 1 /\ (n + 1) - 1 = n /\ \A j : j \in 1 .. n + 1 <=> j \in 1 .. n \/ j = n + 1
    BY <1>1
  <2>2. (\E j \in 1 .. n + 1 : d[j].op = "function" /\ d[j].name # "main")
          <=> (\E j \in 1 .. n : c[j].op = "function" /\ c[j].name # "main")
                \/ (x.op = "function" /\ x.name # "main")
    BY <1>1, <2>1
  <2>3. QED
    BY <2>1, <2>2 DEF written_for
<1>6. QED
  BY <1>3, <1>4, <1>5 DEF d, n

\* The text of one more call, behind the others.
LEMMA LaidGrows ==
    ASSUME NEW t, NEW c, Laid(t, c), NEW x \in JasCalls
    PROVE  Laid(t \o Chunk(Append(c, x), Len(c) + 1), Append(c, x))
<1> DEFINE d == Append(c, x)
           n == Len(c)
           k == Chunk(d, n + 1)
           u == t \o k
<1>1. t \in Seq(JasTokens) /\ c \in Seq(JasCalls)
  BY DEF Laid
<1>2. PICK at \in [1 .. n + 1 -> Nat] :
        /\ at[1] = 0 /\ at[n + 1] = Len(t)
        /\ \A i \in 1 .. n : At(t, at[i], Chunk(c, i)) /\ at[i + 1] = at[i] + Len(Chunk(c, i))
  BY DEF Laid
<1>3. n \in Nat /\ d \in Seq(JasCalls) /\ Len(d) = n + 1
  BY <1>1
<1>4. \A i \in 1 .. n : Chunk(d, i) = Chunk(c, i)
  BY <1>1, ChunkSame
<1> HIDE DEF d, n
<1>5. k \in Seq(JasTokens) /\ \A i \in 1 .. n + 1 : Chunk(d, i) \in Seq(JasTokens)
  BY <1>3, ChunkType
<1> HIDE DEF k
<1>6. u \in Seq(JasTokens) /\ Len(u) = Len(t) + Len(k) /\ Len(t) \in Nat /\ Len(k) \in Nat
  BY <1>1, <1>5
<1>7. At(u, Len(t), k) /\ \A i \in 1 .. n : At(u, at[i], Chunk(d, i))
  BY <1>1, <1>2, <1>3, <1>4, <1>5, AtProperties
<1> HIDE DEF u
<1> DEFINE bt == [i \in 1 .. n + 2 |-> IF i <= n + 1 THEN at[i] ELSE Len(u)]
<1>8. \A i \in 1 .. n + 1 : i <= n + 1 /\ at[i] \in Nat /\ i \in 1 .. n + 2
  BY <1>2, <1>3
<1>9. /\ bt \in [1 .. n + 2 -> Nat] /\ (\A i \in 1 .. n + 1 : bt[i] = at[i]) /\ bt[n + 2] = Len(u)
  BY <1>2, <1>3, <1>6, <1>8
<1> HIDE DEF bt
<1>10. bt[1] = 0 /\ bt[Len(d) + 1] = Len(u) /\ bt \in [1 .. Len(d) + 1 -> Nat]
  BY <1>2, <1>3, <1>9
<1>11. ASSUME NEW i \in 1 .. Len(d)
       PROVE  At(u, bt[i], Chunk(d, i)) /\ bt[i + 1] = bt[i] + Len(Chunk(d, i))
  <2>1. CASE i \in 1 .. n
    <3>1. bt[i] = at[i] /\ bt[i + 1] = at[i + 1]
      BY <1>3, <1>9, <2>1
    <3>2. QED
      BY <1>2, <1>4, <1>7, <2>1, <3>1
  <2>2. CASE i = n + 1
    <3>1. bt[i] = Len(t) /\ bt[i + 1] = Len(u) /\ Chunk(d, i) = k
      BY <1>2, <1>3, <1>9, <2>2 DEF k
    <3>2. QED
      BY <1>6, <1>7, <3>1
  <2>3. QED
    BY <1>3, <2>1, <2>2
<1>12. Laid(u, d)
  BY <1>3, <1>6, <1>10, <1>11 DEF Laid
<1>13. QED
  BY <1>12 DEF u, d, n, k

\* The constants are listed in the order of their first calls, with the values
\* of their last ones.
ConstantsKept(z, n, order, map) ==
    LET first == InOrder(z, FirstIn(z, n))
    IN  /\ first \in Seq(JasCalls)
        /\ order \in Seq(STRING) /\ Len(order) = Len(first)
        /\ \A i \in 1 .. Len(order) : order[i] = first[i].name /\ order[i] \in DOMAIN map
        /\ \A nm : nm \in DOMAIN map <=> ConstantIn(z, nm, n) # {}
        /\ \A nm \in DOMAIN map : /\ map[nm] = z[Max(ConstantIn(z, nm, n))].n
                                  /\ map[nm] \in INT32_MIN .. INT32_MAX

\* A constant is noted, whether its name was there or not.
LEMMA ConstantKept ==
    ASSUME NEW z \in Seq(JasCalls), NEW n \in 0 .. Len(z) - 1, NEW order, NEW map,
           ConstantsKept(z, n, order, map), z[n + 1].op = "constant",
           NEW order1, NEW map1,
           order1 = IF z[n + 1].name \in DOMAIN map THEN order ELSE Append(order, z[n + 1].name),
           map1 = [c \in DOMAIN map \cup {z[n + 1].name} |->
                      IF c = z[n + 1].name THEN z[n + 1].n ELSE map[c]]
    PROVE  ConstantsKept(z, n + 1, order1, map1)
<1> DEFINE x == z[n + 1]
           first == InOrder(z, FirstIn(z, n))
           first1 == InOrder(z, FirstIn(z, n + 1))
<1>1. n \in Nat /\ x \in JasCalls
  BY Widths
<1>2. x.name \in STRING /\ x.n \in INT32_MIN .. INT32_MAX
  BY <1>1 DEF JasCalls
<1>3. /\ first \in Seq(JasCalls)
      /\ order \in Seq(STRING) /\ Len(order) = Len(first)
      /\ \A i \in 1 .. Len(order) : order[i] = first[i].name /\ order[i] \in DOMAIN map
      /\ \A nm : nm \in DOMAIN map <=> ConstantIn(z, nm, n) # {}
      /\ \A nm \in DOMAIN map : /\ map[nm] = z[Max(ConstantIn(z, nm, n))].n
                                /\ map[nm] \in INT32_MIN .. INT32_MAX
  BY DEF ConstantsKept
<1>4. /\ DOMAIN map1 = DOMAIN map \cup {x.name}
      /\ map1[x.name] = x.n
      /\ \A nm \in DOMAIN map : nm # x.name => map1[nm] = map[nm]
  OBVIOUS
<1>5. /\ ConstantIn(z, x.name, n + 1) = ConstantIn(z, x.name, n) \cup {n + 1}
      /\ ConstantIn(z, x.name, n) \in SUBSET (1 .. n)
      /\ \A nm : nm # x.name => ConstantIn(z, nm, n + 1) = ConstantIn(z, nm, n)
  BY <1>1, ConstantsGrow
<1>6. Max(ConstantIn(z, x.name, n + 1)) = n + 1
  BY <1>1, <1>5, MaxGrows
<1>7. \A nm : nm \in DOMAIN map1 <=> ConstantIn(z, nm, n + 1) # {}
  <2> TAKE nm
  <2>1. CASE nm = x.name
    <3>1. nm \in DOMAIN map1 /\ n + 1 \in ConstantIn(z, nm, n + 1)
      BY <1>4, <1>5, <2>1
    <3>2. QED
      BY <3>1
  <2>2. CASE nm # x.name
    BY <1>3, <1>4, <1>5, <2>2
  <2>3. QED
    BY <2>1, <2>2
<1>8. \A nm \in DOMAIN map1 : /\ map1[nm] = z[Max(ConstantIn(z, nm, n + 1))].n
                              /\ map1[nm] \in INT32_MIN .. INT32_MAX
  <2> TAKE nm \in DOMAIN map1
  <2>1. CASE nm = x.name
    <3>1. map1[nm] = x.n
      BY <1>4, <2>1
    <3>2. Max(ConstantIn(z, nm, n + 1)) = n + 1
      BY <1>6, <2>1
    <3>3. QED
      BY <1>2, <3>1, <3>2
  <2>2. CASE nm # x.name
    <3>1. nm \in DOMAIN map /\ map1[nm] = map[nm] /\ ConstantIn(z, nm, n + 1) = ConstantIn(z, nm, n)
      BY <1>4, <1>5, <2>2
    <3>2. QED
      BY <1>3, <3>1
  <2>3. QED
    BY <2>1, <2>2
<1>9. /\ first1 \in Seq(JasCalls)
      /\ order1 \in Seq(STRING) /\ Len(order1) = Len(first1)
      /\ \A i \in 1 .. Len(order1) : order1[i] = first1[i].name /\ order1[i] \in DOMAIN map1
  <2>1. CASE x.name \in DOMAIN map
    <3>1. ConstantIn(z, x.name, n) # {}
      BY <1>3, <2>1
    <3>2. FirstIn(z, n + 1) = FirstIn(z, n)
      BY <1>1, <3>1, FirstGrows
    <3>3. order1 = order /\ first1 = first
      BY <2>1, <3>2
    <3>4. QED
      BY <1>3, <1>4, <3>3
  <2>2. CASE x.name \notin DOMAIN map
    <3>1. ConstantIn(z, x.name, n) = {}
      BY <1>3, <2>2
    <3>2. FirstIn(z, n + 1) = FirstIn(z, n) \cup {n + 1} /\ FirstIn(z, n) \in SUBSET (1 .. n)
      BY <1>1, <3>1, FirstGrows
    <3>3. first1 = Append(first, x) /\ first1 \in Seq(JasCalls)
      BY <1>1, <1>3, <3>2, InOrderGrows
    <3>4. order1 = Append(order, x.name)
      BY <2>2
    <3> HIDE DEF x, first, first1
    <3>5. /\ order1 \in Seq(STRING) /\ Len(order1) = Len(order) + 1 /\ Len(first1) = Len(first) + 1
          /\ Len(order) \in Nat
          /\ \A i \in 1 .. Len(order) : order1[i] = order[i] /\ first1[i] = first[i]
          /\ order1[Len(order) + 1] = x.name /\ first1[Len(order) + 1] = x
      <4>1. /\ Append(order, x.name) \in Seq(STRING) /\ Len(Append(order, x.name)) = Len(order) + 1
            /\ Append(order, x.name)[Len(order) + 1] = x.name
            /\ \A i \in 1 .. Len(order) : Append(order, x.name)[i] = order[i]
        BY <1>2, <1>3, AppendFacts
      <4>2. /\ Len(Append(first, x)) = Len(first) + 1 /\ Len(first) \in Nat
            /\ Append(first, x)[Len(first) + 1] = x
            /\ \A i \in 1 .. Len(first) : Append(first, x)[i] = first[i]
        BY <1>1, <1>3, AppendFacts
      <4>3. Len(order) = Len(first)
        BY <1>3
      <4>4. QED
        BY <3>3, <3>4, <4>1, <4>2, <4>3
    <3>6. \A i \in 1 .. Len(order1) : i \in 1 .. Len(order) \/ i = Len(order) + 1
      BY <3>5
    <3>7. QED
      BY <1>3, <1>4, <3>3, <3>5, <3>6
  <2>3. QED
    BY <2>1, <2>2
<1>10. QED
  BY <1>7, <1>8, <1>9 DEF ConstantsKept

\* Other calls leave the constants alone,
LEMMA ConstantsKeptByOthers ==
    ASSUME NEW z, NEW n \in Nat, NEW order, NEW map,
           ConstantsKept(z, n, order, map), z[n + 1].op # "constant"
    PROVE  ConstantsKept(z, n + 1, order, map)
<1>1. FirstIn(z, n + 1) = FirstIn(z, n)
  BY FirstGrows
<1>2. \A nm : ConstantIn(z, nm, n + 1) = ConstantIn(z, nm, n)
  BY ConstantsGrow
<1>3. QED
  BY <1>1, <1>2 DEF ConstantsKept

\* The rest of the calls is laid out in their order.
CodeKept(z, n, t, end) ==
    LET c == InOrder(z, CodeIn(z, n))
    IN  /\ Laid(t, c)
        /\ \A i \in 1 .. Len(c) : c[i].op # "constant"
        /\ end = Ending(written_for(c, Len(c) + 1))

\* a constant leaves the code alone,
LEMMA CodeKeptByConstant ==
    ASSUME NEW z, NEW n \in Nat, NEW t, NEW end,
           CodeKept(z, n, t, end), z[n + 1].op = "constant"
    PROVE  CodeKept(z, n + 1, t, end)
<1>1. CodeIn(z, n + 1) = CodeIn(z, n)
  BY CodeGrows
<1>2. QED
  BY <1>1 DEF CodeKept

\* and the other calls are written behind it.
LEMMA CodeKeptByOthers ==
    ASSUME NEW z \in Seq(JasCalls), NEW n \in 0 .. Len(z) - 1, NEW t, NEW end,
           CodeKept(z, n, t, end), z[n + 1].op # "constant", NEW t1, NEW end1,
           t1 = t \o (CASE z[n + 1].op = "function" -> header(z[n + 1], end) \o declared(z[n + 1])
                        [] z[n + 1].op = "label"    -> <<Word(z[n + 1].name), Colon>>
                        [] OTHER                    -> instruction(z[n + 1])),
           end1 = IF z[n + 1].op = "function" /\ z[n + 1].name # "main" THEN Ending("method") ELSE end
    PROVE  CodeKept(z, n + 1, t1, end1)
<1> DEFINE x == z[n + 1]
           c == InOrder(z, CodeIn(z, n))
           d == InOrder(z, CodeIn(z, n + 1))
<1>1. n \in Nat /\ x \in JasCalls
  OBVIOUS
<1>2. /\ Laid(t, c) /\ c \in Seq(JasCalls)
      /\ \A i \in 1 .. Len(c) : c[i].op # "constant"
      /\ end = Ending(written_for(c, Len(c) + 1))
  BY DEF CodeKept, Laid
<1>3. CodeIn(z, n + 1) = CodeIn(z, n) \cup {n + 1} /\ CodeIn(z, n) \in SUBSET (1 .. n)
  BY <1>1, CodeGrows
<1>4. d = Append(c, x)
  BY <1>1, <1>2, <1>3, InOrderGrows
<1> HIDE DEF c, d, x
<1>5. /\ Len(d) = Len(c) + 1 /\ Len(c) \in Nat /\ d[Len(c) + 1] = x
      /\ \A i \in 1 .. Len(c) : d[i] = c[i]
  BY <1>1, <1>2, <1>4
<1>6. t1 = t \o Chunk(d, Len(c) + 1)
  <2>1. written_for(d, Len(c) + 1) = written_for(c, Len(c) + 1)
    BY <1>1, <1>2, <1>4, <1>5, ChunkSame
  <2>2. Chunk(d, Len(c) + 1) =
          (CASE x.op = "function" -> header(x, end) \o declared(x)
             [] x.op = "label"    -> <<Word(x.name), Colon>>
             [] OTHER             -> instruction(x))
    BY <1>2, <1>5, <2>1 DEF Chunk
  <2>3. QED
    BY <2>2 DEF x
<1>7. Laid(t1, d)
  BY <1>1, <1>2, <1>4, <1>6, LaidGrows
<1>8. \A i \in 1 .. Len(d) : d[i].op # "constant"
  <2>1. \A i \in 1 .. Len(d) : i \in 1 .. Len(c) \/ i = Len(c) + 1
    BY <1>5
  <2>2. x.op # "constant"
    BY DEF x
  <2>3. QED
    BY <1>2, <1>5, <2>1, <2>2
<1>9. end1 = Ending(written_for(d, Len(d) + 1))
  <2>1. Len(d) + 1 = Len(c) + 2
    BY <1>5
  <2>2. written_for(d, Len(c) + 2) =
          IF x.op = "function" /\ x.name # "main" THEN "method" ELSE written_for(c, Len(c) + 1)
    BY <1>1, <1>2, <1>4, ChunkSame
  <2>3. end1 = IF x.op = "function" /\ x.name # "main" THEN Ending("method") ELSE end
    BY DEF x
  <2>4. QED
    BY <1>2, <2>1, <2>2, <2>3
<1>10. QED
  BY <1>7, <1>8, <1>9 DEF CodeKept, d

-----------------------------------------------------------------------------
(* The whole text.  X has the text, the calls it was made of (consts and   *)
(* code) and where each of the latter begins.                              *)

ConstantsLaid(X) ==
    LET m == Len(X.consts)
    IN  /\ \E S : X.consts \in Seq(S)
        /\ \A i \in 1 .. m : /\ X.consts[i] = ConstantOf(X.consts[i].name, X.consts[i].n)
                             /\ X.consts[i].n \in INT32_MIN .. INT32_MAX
        /\ m = 0 => X.pos[1] = 0
        /\ m > 0 => /\ X.pos[1] = 2 * m + 6
                    /\ At(X.text, 0, <<Period, Keyword("constant")>>)
                    /\ \A i \in 1 .. m : /\ X.text[2 * i + 1] = Word(X.consts[i].name)
                                         /\ X.text[2 * i + 2] = Hex(X.consts[i].n)
                    /\ At(X.text, 2 * m + 2, Ending("constant"))

CodeLaid(X) ==
    LET n == Len(X.code)
    IN  /\ X.code \in Seq(JasCalls)
        /\ \A i \in 1 .. n : X.code[i].op # "constant"
        /\ X.pos \in [1 .. n + 1 -> Nat]
        /\ \A i \in 1 .. n : /\ At(X.text, X.pos[i], Chunk(X.code, i))
                             /\ X.pos[i + 1] = X.pos[i] + Len(Chunk(X.code, i))
        /\ At(X.text, X.pos[n + 1], Ending(written_for(X.code, n + 1)))
        /\ Len(X.text) = X.pos[n + 1] + 4

\* The frontends keep to the protocol.
Orderly(X) ==
    /\ X.code # << >> => X.code[1].op = "function"
    /\ \A i \in 1 .. Len(X.code) : X.code[i].name = "main" => X.code[i].args = << >>

Layout(X) == X.text \in Seq(JasTokens) /\ ConstantsLaid(X) /\ CodeLaid(X) /\ Orderly(X)

\* A number of a constant is a token.
LEMMA HexType ==
    ASSUME NEW k \in INT32_MIN .. INT32_MAX
    PROVE  Hex(k) \in JasTokens
<1>1. (IF k < 0 THEN k + 2 * (INT32_MAX + 1) ELSE k) \in Int
  BY Widths
<1>2. QED
  BY <1>1, MarkTypes DEF Hex

\* The names and the numbers of the constants, in turn.
LEMMA PairsText ==
    ASSUME NEW order \in Seq(STRING), NEW map,
           \A i \in 1 .. Len(order) : map[order[i]] \in INT32_MIN .. INT32_MAX
    PROVE  LET t == [i \in 1 .. 2 * Len(order) |->
                        IF i % 2 = 1 THEN Word(order[(i + 1) \div 2]) ELSE Hex(map[order[i \div 2]])]
           IN  /\ t \in Seq(JasTokens) /\ Len(t) = 2 * Len(order)
               /\ \A i \in 1 .. Len(order) :
                     /\ 2 * i - 1 \in 1 .. 2 * Len(order) /\ 2 * i \in 1 .. 2 * Len(order)
                     /\ t[2 * i - 1] = Word(order[i]) /\ t[2 * i] = Hex(map[order[i]])
<1> DEFINE n == Len(order)
           v(i) == IF i % 2 = 1 THEN Word(order[(i + 1) \div 2]) ELSE Hex(map[order[i \div 2]])
           t == [i \in 1 .. 2 * n |-> v(i)]
<1>1. n \in Nat /\ 2 * n \in Nat /\ \A i \in 1 .. n : order[i] \in STRING
  OBVIOUS
<1>2. \A i \in 1 .. n : order[i] \in TokenValues
  BY <1>1, KeywordValues
<1> HIDE DEF n
<1>3. ASSUME NEW i \in 1 .. 2 * n
      PROVE  v(i) \in JasTokens
  <2>1. CASE i % 2 = 1
    <3>1. (i + 1) \div 2 \in 1 .. n
      BY <1>1, <2>1
    <3>2. Word(order[(i + 1) \div 2]) \in JasTokens
      BY <1>2, <3>1, WordType
    <3>3. QED
      BY <2>1, <3>2
  <2>2. CASE i % 2 # 1
    <3>1. i \div 2 \in 1 .. n
      BY <1>1, <2>2
    <3>2. Hex(map[order[i \div 2]]) \in JasTokens
      BY <3>1, HexType DEF n
    <3>3. QED
      BY <2>2, <3>2
  <2>3. QED
    BY <2>1, <2>2
<1>4. ASSUME NEW i \in 1 .. n
      PROVE  /\ 2 * i - 1 \in 1 .. 2 * n /\ 2 * i \in 1 .. 2 * n
             /\ v(2 * i - 1) = Word(order[i]) /\ v(2 * i) = Hex(map[order[i]])
  <2>1. /\ 2 * i - 1 \in 1 .. 2 * n /\ 2 * i \in 1 .. 2 * n
        /\ (2 * i - 1) % 2 = 1 /\ ((2 * i - 1) + 1) \div 2 = i
        /\ (2 * i) % 2 # 1 /\ (2 * i) \div 2 = i
    BY <1>1
  <2>2. QED
    BY <2>1
<1>5. t = [i \in 1 .. 2 * n |->
              IF i % 2 = 1 THEN Word(order[(i + 1) \div 2]) ELSE Hex(map[order[i \div 2]])]
  OBVIOUS
<1> HIDE DEF v
<1>6. t \in Seq(JasTokens) /\ Len(t) = 2 * n
  BY <1>1, <1>3
<1>7. \A i \in 1 .. n : /\ 2 * i - 1 \in 1 .. 2 * n /\ 2 * i \in 1 .. 2 * n
                        /\ t[2 * i - 1] = Word(order[i]) /\ t[2 * i] = Hex(map[order[i]])
  BY <1>4
<1> HIDE DEF t
<1>8. QED
  BY <1>5, <1>6, <1>7 DEF n

\* The constants' part of the text.
LEMMA ConstantsText ==
    ASSUME NEW order \in Seq(STRING), constant_order = order,
           \A i \in 1 .. Len(order) : constant_map[order[i]] \in INT32_MIN .. INT32_MAX
    PROVE  LET m == Len(order)
           IN  /\ constants_text \in Seq(JasTokens)
               /\ m = 0 => constants_text = << >>
               /\ m > 0 => /\ Len(constants_text) = 2 * m + 6
                           /\ At(constants_text, 0, <<Period, Keyword("constant")>>)
                           /\ \A i \in 1 .. m : /\ constants_text[2 * i + 1] = Word(order[i])
                                                /\ constants_text[2 * i + 2] = Hex(constant_map[order[i]])
                           /\ At(constants_text, 2 * m + 2, Ending("constant"))
<1> DEFINE m == Len(order)
           front == <<Period, Keyword("constant")>>
           mid == [i \in 1 .. 2 * Len(order) |->
                      IF i % 2 = 1 THEN Word(order[(i + 1) \div 2]) ELSE Hex(constant_map[order[i \div 2]])]
           end == Ending("constant")
           fm == front \o mid
           t == fm \o end
<1>1. m \in Nat /\ (m = 0 <=> order = << >>)
  OBVIOUS
<1>2. constants_text = IF order = << >> THEN << >> ELSE t
  BY DEF constants_text
<1>3. /\ mid \in Seq(JasTokens) /\ Len(mid) = 2 * m
      /\ \A i \in 1 .. m : /\ 2 * i - 1 \in 1 .. 2 * m /\ 2 * i \in 1 .. 2 * m
                           /\ mid[2 * i - 1] = Word(order[i]) /\ mid[2 * i] = Hex(constant_map[order[i]])
  BY PairsText
<1>4. front \in Seq(JasTokens) /\ Len(front) = 2
  <2>1. Keyword("constant") \in JasTokens
    BY KeywordValues, MarkTypes
  <2>2. QED
    BY <2>1, Marks
<1>5. end \in Seq(JasTokens) /\ Len(end) = 4
  BY EndingType, KeywordValues
<1> HIDE DEF front, mid, end, m
<1>6. fm \in Seq(JasTokens) /\ Len(fm) = 2 + 2 * m
  <2>1. fm \in Seq(JasTokens) /\ Len(fm) = Len(front) + Len(mid)
    BY <1>3, <1>4, ConcatProperties
  <2>2. QED
    BY <1>3, <1>4, <2>1
<1>7. At(fm, 0, front) /\ At(fm, 2, mid)
  <2>1. At(front, 0, front)
    BY <1>4 DEF At
  <2>2. QED
    BY <1>3, <1>4, <2>1, AtProperties
<1> HIDE DEF fm
<1>8. t \in Seq(JasTokens) /\ Len(t) = 2 * m + 6
  <2>1. t \in Seq(JasTokens) /\ Len(t) = Len(fm) + Len(end)
    BY <1>5, <1>6, ConcatProperties
  <2>2. Len(t) = (2 + 2 * m) + 4
    BY <1>5, <1>6, <2>1
  <2>3. QED
    BY <1>1, <2>1, <2>2
<1>9. At(t, 0, front) /\ At(t, 2, mid) /\ At(t, 2 * m + 2, end)
  <2>1. 2 * m + 2 = Len(fm)
    BY <1>1, <1>6
  <2>2. QED
    BY <1>3, <1>4, <1>5, <1>6, <1>7, <2>1, AtProperties
<1> HIDE DEF t
<1>10. ASSUME NEW i \in 1 .. m
       PROVE  t[2 * i + 1] = Word(order[i]) /\ t[2 * i + 2] = Hex(constant_map[order[i]])
  <2>1. /\ 2 * i - 1 \in 1 .. Len(mid) /\ 2 * i \in 1 .. Len(mid)
        /\ 2 + (2 * i - 1) = 2 * i + 1 /\ 2 + 2 * i = 2 * i + 2
    BY <1>1, <1>3
  <2>2. \A j \in 1 .. Len(mid) : t[2 + j] = mid[j]
    BY <1>9 DEF At
  <2>3. t[2 * i + 1] = mid[2 * i - 1] /\ t[2 * i + 2] = mid[2 * i]
    BY <2>1, <2>2
  <2>4. QED
    BY <1>3, <2>3
<1>11. << >> \in Seq(JasTokens)
  OBVIOUS
<1> DEFINE ct == constants_text
<1> HIDE DEF ct
<1>12. CASE m = 0
  <2>1. ct = << >>
    BY <1>1, <1>2, <1>12 DEF ct
  <2>2. QED
    BY <1>11, <1>12, <2>1 DEF m, ct
<1>13. CASE m > 0
  <2>1. ct = t
    BY <1>1, <1>2, <1>13 DEF ct
  <2>2. /\ ct \in Seq(JasTokens)
        /\ Len(ct) = 2 * m + 6
        /\ At(ct, 0, <<Period, Keyword("constant")>>)
        /\ \A i \in 1 .. m : /\ ct[2 * i + 1] = Word(order[i])
                             /\ ct[2 * i + 2] = Hex(constant_map[order[i]])
        /\ At(ct, 2 * m + 2, Ending("constant"))
    BY <1>8, <1>9, <1>10, <2>1 DEF front, end
  <2>3. m # 0
    BY <1>13
  <2>4. QED
    BY <2>2, <2>3 DEF m, ct
<1>14. QED
  BY <1>1, <1>12, <1>13

FunctionAt(X, i) == i > Len(X.code) \/ X.code[i].op = "function"

\* What makes a text readable.
Fine(X) ==
    /\ X.code # << >>
    /\ \A i \in 1 .. Len(X.code) :
          LET c == X.code[i]
          IN  /\ (c.op = "function" /\ c.name = "main") <=> i = 1
              /\ c.op # "GC"
              /\ c.op \in ImmOps => c.n # I8_MIN
              /\ FunctionAt(X, i) => c.vars # << >> \/ ~ FunctionAt(X, i + 1)
              /\ ToSet(c.args) \cap keywords = {} /\ ToSet(c.vars) \cap keywords = {}
              /\ c.name \in keywords => c.op = "function" /\ c.name = "main"
    /\ \A i \in 1 .. Len(X.consts) : X.consts[i].name \notin keywords

Texts(X) ==
    /\ Layout(X)
    /\ X.consts \o X.code = Announced
    /\ Readable => Fine(X)

\* What was said is what the writer has noted.
LEMMA AnnouncedCalls ==
    ASSUME NEW order, NEW map, ConstantsKept(script, Len(script), order, map)
    PROVE  Announced = [i \in 1 .. Len(order) |-> ConstantOf(order[i], map[order[i]])] \o code
<1> DEFINE first == InOrder(script, FirstIn(script, Len(script)))
           value(nm) == script[Max(ConstantIn(script, nm, Len(script)))].n
<1>1. /\ first \in Seq(JasCalls)
      /\ order \in Seq(STRING) /\ Len(order) = Len(first)
      /\ \A i \in 1 .. Len(order) : order[i] = first[i].name /\ order[i] \in DOMAIN map
      /\ \A nm \in DOMAIN map : map[nm] = value(nm)
  BY DEF ConstantsKept
<1>2. Announced = [i \in DOMAIN first |-> ConstantOf(first[i].name, value(first[i].name))] \o code
  BY DEF Announced
<1> HIDE DEF first, value
<1>3. DOMAIN first = 1 .. Len(order)
  BY <1>1
<1>4. \A i \in 1 .. Len(order) :
         ConstantOf(first[i].name, value(first[i].name)) = ConstantOf(order[i], map[order[i]])
  BY <1>1
<1>5. [i \in DOMAIN first |-> ConstantOf(first[i].name, value(first[i].name))]
        = [i \in 1 .. Len(order) |-> ConstantOf(order[i], map[order[i]])]
  BY <1>3, <1>4
<1>6. QED
  BY <1>2, <1>5

\* What is readable has a text that is.
LEMMA ReadableIsFine ==
    ASSUME NEW X, X.code = code, X.code \in Seq(JasCalls), NEW S, X.consts \in Seq(S),
           \A i \in 1 .. Len(X.consts) : X.consts[i] = ConstantOf(X.consts[i].name, X.consts[i].n),
           X.consts \o X.code = Announced, Readable
    PROVE  Fine(X)
<1> DEFINE m == Len(X.consts)
           n == Len(X.code)
           T == S \cup JasCalls
           names(call) == ToSet(call.args) \cup ToSet(call.vars)
                            \cup (IF call.op = "function" THEN {call.name} \ {"main"} ELSE {call.name})
           a == X.consts \o X.code
<1>1. X.consts \in Seq(T) /\ X.code \in Seq(T) /\ m \in Nat /\ n \in Nat
  OBVIOUS
<1>2. /\ Len(a) = m + n /\ a \in Seq(T)
      /\ \A i \in 1 .. m + n : a[i] = IF i <= m THEN X.consts[i] ELSE X.code[i - m]
  BY <1>1, ConcatProperties
<1>3. DOMAIN code = 1 .. n /\ DOMAIN Announced = 1 .. m + n
  <2>1. DOMAIN a = 1 .. m + n
    BY <1>1, <1>2
  <2>2. QED
    BY <2>1
<1> HIDE DEF a
<1>4. /\ X.code # << >>
      /\ \A i \in 1 .. n :
            LET c == X.code[i]
            IN  /\ (c.op = "function" /\ c.name = "main") <=> i = 1
                /\ c.op # "GC"
                /\ c.op \in ImmOps => c.n # I8_MIN
                /\ FunctionAt(X, i) => c.vars # << >> \/ ~ FunctionAt(X, i + 1)
  BY <1>3 DEF Readable, FunctionAt
<1>5. \A i \in 1 .. m + n : names(a[i]) \cap keywords = {}
  BY <1>3 DEF Readable, a
<1> HIDE DEF names
<1>6. ASSUME NEW i \in 1 .. n
      PROVE  names(X.code[i]) \cap keywords = {}
  <2>1. m + i \in 1 .. m + n /\ ~(m + i <= m) /\ (m + i) - m = i
    BY <1>1
  <2>2. a[m + i] = X.code[i]
    BY <1>2, <2>1
  <2>3. QED
    BY <1>5, <2>1, <2>2
<1>7. ASSUME NEW i \in 1 .. n
      PROVE  /\ ToSet(X.code[i].args) \cap keywords = {} /\ ToSet(X.code[i].vars) \cap keywords = {}
             /\ X.code[i].name \in keywords => X.code[i].op = "function" /\ X.code[i].name = "main"
  <2> DEFINE c == X.code[i]
  <2> HIDE DEF c
  <2>1. names(c) \cap keywords = {}
    BY <1>6 DEF c
  <2>2. /\ ToSet(c.args) \cap keywords = {} /\ ToSet(c.vars) \cap keywords = {}
        /\ c.name \in keywords => c.op = "function" /\ c.name = "main"
    BY <2>1 DEF names
  <2>3. QED
    BY <2>2 DEF c
<1>8. ASSUME NEW i \in 1 .. m
      PROVE  X.consts[i].name \notin keywords
  <2>1. i \in 1 .. m + n /\ i <= m
    BY <1>1
  <2>2. a[i] = X.consts[i]
    BY <1>2, <2>1
  <2>3. X.consts[i].op = "constant"
    <3>1. X.consts[i] = ConstantOf(X.consts[i].name, X.consts[i].n)
      OBVIOUS
    <3>2. QED
      BY <3>1 DEF ConstantOf, CallOf
  <2>4. names(X.consts[i]) \cap keywords = {}
    BY <1>5, <2>1, <2>2
  <2>5. QED
    BY <2>3, <2>4 DEF names
<1>9. QED
  BY <1>4, <1>7, <1>8 DEF Fine

\* The complete text is laid out as it was said.
LEMMA TextLaid ==
    ASSUME script \in Seq(JasCalls), Protocol,
           ConstantsKept(script, Len(script), constant_order, constant_map),
           CodeKept(script, Len(script), cs, closing)
    PROVE  \E X : Texts(X) /\ X.text = constants_text \o cs \o closing
<1> DEFINE order == constant_order
           m == Len(order)
           c == code
           n == Len(c)
           consts == [i \in 1 .. m |-> ConstantOf(order[i], constant_map[order[i]])]
           ct == constants_text
           front == ct \o cs
           text == front \o closing
<1>1. /\ order \in Seq(STRING)
      /\ \A i \in 1 .. m : constant_map[order[i]] \in INT32_MIN .. INT32_MAX
  BY DEF ConstantsKept
<1>2. /\ Laid(cs, c) /\ c \in Seq(JasCalls) /\ cs \in Seq(JasTokens)
      /\ \A i \in 1 .. n : c[i].op # "constant"
      /\ closing = Ending(written_for(c, n + 1))
  BY DEF CodeKept, Laid, code
<1>3. PICK at \in [1 .. n + 1 -> Nat] :
        /\ at[1] = 0 /\ at[n + 1] = Len(cs)
        /\ \A i \in 1 .. n : At(cs, at[i], Chunk(c, i)) /\ at[i + 1] = at[i] + Len(Chunk(c, i))
  BY <1>2 DEF Laid
<1>4. m \in Nat /\ n \in Nat
  BY <1>1, <1>2
<1>5. /\ ct \in Seq(JasTokens)
      /\ m = 0 => ct = << >>
      /\ m > 0 => /\ Len(ct) = 2 * m + 6
                  /\ At(ct, 0, <<Period, Keyword("constant")>>)
                  /\ \A i \in 1 .. m : /\ ct[2 * i + 1] = Word(order[i])
                                       /\ ct[2 * i + 2] = Hex(constant_map[order[i]])
                  /\ At(ct, 2 * m + 2, Ending("constant"))
  BY <1>1, ConstantsText
<1>6. closing \in Seq(JasTokens) /\ Len(closing) = 4
  <2>1. written_for(c, n + 1) \in keywords
    BY KeywordValues DEF written_for
  <2>2. QED
    BY <1>2, <2>1, EndingType
<1>7. Announced = consts \o c
  BY AnnouncedCalls
<1>8. /\ consts \in Seq({ConstantOf(order[i], constant_map[order[i]]) : i \in 1 .. m})
      /\ Len(consts) = m
      /\ \A i \in 1 .. m : consts[i] = ConstantOf(order[i], constant_map[order[i]])
  BY <1>4
<1> HIDE DEF order, m, c, n, consts, ct
<1>9. \A i \in 1 .. m : /\ consts[i].name = order[i] /\ consts[i].n = constant_map[order[i]]
                        /\ consts[i] = ConstantOf(consts[i].name, consts[i].n)
  BY <1>8 DEF ConstantOf, CallOf
<1>10. /\ front \in Seq(JasTokens) /\ Len(front) = Len(ct) + Len(cs)
       /\ text \in Seq(JasTokens) /\ Len(text) = (Len(ct) + Len(cs)) + 4
       /\ Len(ct) \in Nat /\ Len(cs) \in Nat
  <2>1. front \in Seq(JasTokens) /\ Len(front) = Len(ct) + Len(cs)
    BY <1>2, <1>5, ConcatProperties
  <2> HIDE DEF front
  <2>2. text \in Seq(JasTokens) /\ Len(text) = Len(front) + Len(closing)
    BY <1>6, <2>1, ConcatProperties
  <2>3. Len(ct) \in Nat /\ Len(cs) \in Nat
    <3>1. ct \in Seq(JasTokens) /\ cs \in Seq(JasTokens)
      BY <1>2, <1>5
    <3>2. QED
      BY <3>1
  <2>4. text \in Seq(JasTokens) /\ Len(text) = (Len(ct) + Len(cs)) + 4
    BY <1>6, <2>1, <2>2
  <2>5. QED
    BY <2>1, <2>3, <2>4 DEF front
<1>11. text = constants_text \o cs \o closing
  BY DEF ct
<1>12. \A d \in Seq(JasTokens) : \A p : At(ct, p, d) => At(text, p, d)
  BY <1>2, <1>5, <1>6, <1>10, AtProperties
<1>13. \A d \in Seq(JasTokens) : \A p : At(cs, p, d) => At(text, Len(ct) + p, d)
  BY <1>2, <1>5, <1>6, <1>10, AtProperties
<1>14. At(text, Len(ct) + Len(cs), closing)
  BY <1>6, <1>10, AtProperties
<1> DEFINE pos == [i \in 1 .. n + 1 |-> Len(ct) + at[i]]
<1>15. /\ pos \in [1 .. n + 1 -> Nat]
       /\ \A i \in 1 .. n + 1 : pos[i] = Len(ct) + at[i] /\ at[i] \in Nat
  BY <1>3, <1>4, <1>10
<1> DEFINE X == [text |-> text, consts |-> consts, code |-> c, pos |-> pos]
<1>16. X.text = text /\ X.consts = consts /\ X.code = c /\ X.pos = pos
  OBVIOUS
<1> HIDE DEF X, pos, text, front
<1>17. CodeLaid(X)
  <2>1. \A i \in 1 .. n : At(text, pos[i], Chunk(c, i)) /\ pos[i + 1] = pos[i] + Len(Chunk(c, i))
    <3> TAKE i \in 1 .. n
    <3>1. i \in 1 .. n + 1 /\ i + 1 \in 1 .. n + 1
      BY <1>4
    <3>2. Chunk(c, i) \in Seq(JasTokens)
      BY <1>2, ChunkType DEF n
    <3>3. Len(Chunk(c, i)) \in Nat
      BY <3>2
    <3>4. At(text, pos[i], Chunk(c, i))
      BY <1>3, <1>13, <1>15, <3>1, <3>2
    <3>5. pos[i + 1] = pos[i] + Len(Chunk(c, i))
      BY <1>3, <1>10, <1>15, <3>1, <3>3
    <3>6. QED
      BY <3>4, <3>5
  <2>2. n + 1 \in 1 .. n + 1
    BY <1>4
  <2>3. pos[n + 1] = Len(ct) + Len(cs)
    BY <1>3, <1>15, <2>2
  <2>4. At(text, pos[n + 1], Ending(written_for(c, n + 1))) /\ Len(text) = pos[n + 1] + 4
    BY <1>2, <1>10, <1>14, <2>3
  <2>5. QED
    BY <1>2, <1>15, <1>16, <2>1, <2>4 DEF CodeLaid, n
<1>18. ConstantsLaid(X)
  <2>1. 1 \in 1 .. n + 1
    BY <1>4
  <2>2. pos[1] = Len(ct)
    BY <1>3, <1>10, <1>15, <2>1
  <2>3. m = 0 => pos[1] = 0
    <3>1. Len(<< >>) = 0
      OBVIOUS
    <3>2. QED
      BY <1>5, <2>2, <3>1
  <2>4. ASSUME m > 0
        PROVE  /\ pos[1] = 2 * m + 6
               /\ At(text, 0, <<Period, Keyword("constant")>>)
               /\ \A i \in 1 .. m : /\ text[2 * i + 1] = Word(consts[i].name)
                                    /\ text[2 * i + 2] = Hex(consts[i].n)
               /\ At(text, 2 * m + 2, Ending("constant"))
    <3>1. <<Period, Keyword("constant")>> \in Seq(JasTokens) /\ Ending("constant") \in Seq(JasTokens)
      <4>1. Keyword("constant") \in JasTokens
        BY KeywordValues, MarkTypes
      <4>2. Ending("constant") \in Seq(JasTokens)
        BY EndingType, KeywordValues
      <4>3. QED
        BY <4>1, <4>2, Marks
    <3>2. At(text, 0, <<Period, Keyword("constant")>>) /\ At(text, 2 * m + 2, Ending("constant"))
      BY <1>5, <1>12, <2>4, <3>1
    <3>3. At(ct, 0, ct)
      BY <1>5, <1>10 DEF At
    <3>4. At(text, 0, ct)
      BY <1>5, <1>12, <3>3
    <3>5. \A j \in 1 .. Len(ct) : text[j] = ct[j]
      <4> TAKE j \in 1 .. Len(ct)
      <4>1. 0 + j = j
        BY <1>10
      <4>2. QED
        BY <3>4, <4>1 DEF At
    <3>6. ASSUME NEW i \in 1 .. m
          PROVE  text[2 * i + 1] = Word(consts[i].name) /\ text[2 * i + 2] = Hex(consts[i].n)
      <4>1. 2 * i + 1 \in 1 .. 2 * m + 6 /\ 2 * i + 2 \in 1 .. 2 * m + 6
        BY <1>4
      <4>2. text[2 * i + 1] = ct[2 * i + 1] /\ text[2 * i + 2] = ct[2 * i + 2]
        BY <1>5, <2>4, <3>5, <4>1
      <4>3. QED
        BY <1>5, <1>9, <2>4, <4>2
    <3>7. pos[1] = 2 * m + 6
      BY <1>5, <2>2, <2>4
    <3>8. QED
      BY <3>2, <3>6, <3>7
  <2>5. \A i \in 1 .. m : /\ consts[i] = ConstantOf(consts[i].name, consts[i].n)
                          /\ consts[i].n \in INT32_MIN .. INT32_MAX
    BY <1>1, <1>9 DEF m
  <2>6. QED
    BY <1>8, <1>16, <2>3, <2>4, <2>5 DEF ConstantsLaid
<1>19. Orderly(X)
  <2>1. DOMAIN c = 1 .. n
    BY <1>2 DEF n
  <2>2. QED
    BY <1>16, <2>1 DEF Orderly, Protocol, c, n
<1>20. X.consts \o X.code = Announced
  BY <1>7, <1>16
<1>21. Layout(X)
  BY <1>10, <1>16, <1>17, <1>18, <1>19 DEF Layout
<1>22. Readable => Fine(X)
  <2>1. /\ X.code = code /\ X.code \in Seq(JasCalls)
        /\ \E S : X.consts \in Seq(S)
        /\ \A i \in 1 .. Len(X.consts) : X.consts[i] = ConstantOf(X.consts[i].name, X.consts[i].n)
    BY <1>2, <1>8, <1>9, <1>16 DEF c
  <2>2. QED
    BY <1>20, <2>1, ReadableIsFine
<1>23. QED
  BY <1>11, <1>16, <1>20, <1>21, <1>22 DEF Texts

-----------------------------------------------------------------------------
(* The reader on a text of the writer.  A state is how far it has read     *)
(* (p), what it has built (b) and how many calls it has made (k), -1 when  *)
(* those are not the ones that were written down.                          *)

State(p, b, k) == [p |-> p, b |-> b, k |-> k]

\* Behind an error; nothing happens there.
Dead == State(-1, << >>, -1)

Named(X, i)    == X.code[i].op = "function" /\ X.code[i].name # "main"
BadLabel(X, i) == i <= Len(X.code) /\ X.code[i].op = "label" /\ X.code[i].name \in keywords
Instr(X, i)    == X.code[i].op \in PlainOps \cup NameOps \cup ImmOps

\* The function in front of position i ends as it should.
Resumes(X, i) == i = Len(X.code) + 1 \/ Named(X, i)

\* Where parse_code stops that begins at position i.
Stop(X, i) == FunctionAt(X, i) \/ BadLabel(X, i)

FirstStop(X, i, j) == j \in i .. Len(X.code) + 1 /\ Stop(X, j) /\ \A q \in i .. j - 1 : ~ Stop(X, q)

\* Position i of the code is next.
Before(X, i) == State(X.pos[i], << >>, Len(X.consts) + i - 1)

Stopped(X, j) == IF FunctionAt(X, j) THEN Before(X, j) ELSE State(X.pos[j] + 1, << >>, -1)

\* Behind the end of the function in front of position j.
Ended(X, j) == IF Resumes(X, j) THEN State(X.pos[j] + 4, << >>, Len(X.consts) + j - 1) ELSE Dead

\* Where the variables of function i begin.
VarStart(X, i) ==
    IF X.code[i].name = "main" THEN X.pos[i] + 2 ELSE X.pos[i] + 9 + Len(Listed(X.code[i].args))

\* Function i with the first j of its arguments, and with its variables up to j.
WithArgs(X, i, j) == FunctionOf(X.code[i].name, SubSeq(X.code[i].args, 1, j), << >>)
WithVars(X, i, j) == FunctionOf(X.code[i].name, X.code[i].args, SubSeq(X.code[i].vars, 1, j))

SignedLen(k) == IF k < 0 THEN 2 ELSE 1

\* What a function of the reader does.
RuledToplevel(X, a) ==
    \/ Len(X.consts) > 0 /\ a = State(0, << >>, 0)
    \/ a = Before(X, 1)
    \/ \E j \in 2 .. Len(X.code) + 1 : Resumes(X, j) /\ a = Ended(X, j)

Behind(X, i, z) == \E j : FirstStop(X, i + 1, j) /\ z = Ended(X, j)

RuledBlock(X, a, z) ==
    \/ Len(X.consts) > 0 /\ a = State(1, << >>, 0) /\ z = Before(X, 1)
    \/ /\ a = State(X.pos[1] + 1, << >>, Len(X.consts))
       /\ IF X.code # << >> /\ X.code[1].name = "main" THEN Behind(X, 1, z) ELSE z = Dead
    \/ \E j \in 2 .. Len(X.code) :
          Named(X, j) /\ a = State(X.pos[j] + 5, << >>, Len(X.consts) + j - 1) /\ Behind(X, j, z)

RuledConstants(X, a, z) ==
    \E i \in 1 .. Len(X.consts) + 1 :
       Len(X.consts) > 0 /\ a = State(2 * i, << >>, i - 1) /\ z = Before(X, 1)

RuledValue(X, a, z) ==
    \E p \in Nat, n \in INT32_MIN .. INT32_MAX : \E c, k :
       /\ a = State(p, <<c>>, k) /\ X.text[p + 1] = Hex(n)
       /\ z = State(p + 1, <<c, Val(n)>>, k)

RuledImmediate(X, a, z) ==
    \E p \in Nat : \E c, k :
       /\ a = State(p, <<c>>, k)
       /\ \/ \E n \in I8_MIN .. I8_MAX :
                /\ At(X.text, p, Signed(n)) /\ (n = I8_MIN => ~ Fine(X))
                /\ z = State(p + SignedLen(n), <<c, Val(n)>>, k)
          \/ X.text[p + 1] = Colon /\ ~ Fine(X)

RuledBraces(X, a, z) == X.text[a.p + 1].type # "BracesOpen" /\ z = a

RuledArgs(X, a, z) ==
    \/ \E i \in 1 .. Len(X.code) :
          /\ Named(X, i) /\ X.code[i].args # << >> /\ X.code[i].args[1] \notin keywords
          /\ a = State(X.pos[i] + 8, <<WithArgs(X, i, 0)>>, Len(X.consts) + i - 1)
          /\ z = State(X.pos[i] + 8 + Len(Listed(X.code[i].args)), <<WithVars(X, i, 0)>>, Len(X.consts) + i - 1)
    \/ X.text[a.p + 1].type # "Identifier" /\ z = a

RuledMoreArgs(X, a, z) ==
    \E i \in 1 .. Len(X.code) : \E j \in 1 .. Len(X.code[i].args) :
       /\ Named(X, i)
       /\ a = State(X.pos[i] + 8 + 2 * j - 1, <<WithArgs(X, i, j)>>, Len(X.consts) + i - 1)
       /\ z = State(X.pos[i] + 8 + Len(Listed(X.code[i].args)), <<WithVars(X, i, 0)>>, Len(X.consts) + i - 1)

RuledVars(X, a, z) ==
    \E i \in 1 .. Len(X.code) :
       /\ X.code[i].op = "function"
       /\ a = State(VarStart(X, i), <<WithVars(X, i, 0)>>, Len(X.consts) + i - 1)
       /\ z = State(X.pos[i + 1], <<X.code[i]>>, Len(X.consts) + i - 1)

RuledVarNames(X, a, z) ==
    \E i \in 1 .. Len(X.code) : \E j \in 0 .. Len(X.code[i].vars) :
       /\ X.code[i].op = "function" /\ X.code[i].vars # << >>
       /\ a = State(VarStart(X, i) + 2 + j, <<WithVars(X, i, j)>>, Len(X.consts) + i - 1)
       /\ z = State(X.pos[i + 1], <<X.code[i]>>, Len(X.consts) + i - 1)

RuledCode(X, a, z) ==
    \/ \E i \in 1 .. Len(X.code) + 1 : \E j : FirstStop(X, i, j) /\ a = Before(X, i) /\ z = Stopped(X, j)
    \/ X.text[a.p + 1] = Colon /\ z = a

RuledOp(X, a, z) ==
    \E i \in 1 .. Len(X.code) :
       /\ a = Before(X, i)
       /\ \/ Instr(X, i) /\ z = Before(X, i + 1)
          \/ BadLabel(X, i) /\ z = State(X.pos[i] + 1, << >>, -1)

Ruled(X, r, a, z) ==
    \/ r = "toplevel"  /\ RuledToplevel(X, a)
    \/ r = "block"     /\ RuledBlock(X, a, z)
    \/ r = "constants" /\ RuledConstants(X, a, z)
    \/ r = "value"     /\ RuledValue(X, a, z)
    \/ r = "immediate" /\ RuledImmediate(X, a, z)
    \/ r = "braces"    /\ RuledBraces(X, a, z)
    \/ r = "args"      /\ RuledArgs(X, a, z)
    \/ r = "more_args" /\ RuledMoreArgs(X, a, z)
    \/ r = "vars"      /\ RuledVars(X, a, z)
    \/ r = "var_names" /\ RuledVarNames(X, a, z)
    \/ r = "code"      /\ RuledCode(X, a, z)
    \/ r = "op"        /\ RuledOp(X, a, z)

\* A token is taken, or it is the wrong one.
Takes(X, x, a, z) ==
    /\ a.p \in Nat
    /\ IF a.p < Len(X.text) /\ accepts(x, X.text[a.p + 1])
       THEN z = State(a.p + 1, a.b \o kept(x, X.text[a.p + 1]), a.k)
       ELSE ~ Fine(X)

\* The k calls made so far, and c, are the ones that were written down.
Heard(X, c, k, k2) ==
    \/ k2 = -1
    \/ /\ k \in Nat /\ k2 = k + 1 /\ k < Len(X.consts) + Len(X.code)
       /\ (X.consts \o X.code)[k + 1] = c

Made(X, what, a, z) ==
    \/ \E c, n : /\ what = "negative" /\ a.b = <<c, Val(n)>> /\ z = State(a.p, <<c, Val(i32(-n))>>, a.k)
    \/ \E c, n : /\ what = "immediate" /\ a.b = <<c, Val(n)>>
                 /\ z = State(a.p, <<[c EXCEPT !.n = n]>>, a.k)
    \/ \E c, w : /\ what = "name" /\ a.b = <<c, Ident(w)>>
                 /\ z = State(a.p, <<[c EXCEPT !.name = w]>>, a.k)
    \/ \E c, w : /\ what = "arg" /\ a.b = <<c, Ident(w)>>
                 /\ z = State(a.p, <<[c EXCEPT !.args = Append(c.args, w)]>>, a.k)
    \/ \E c, w : /\ what = "var" /\ a.b = <<c, Ident(w)>>
                 /\ z = State(a.p, <<[c EXCEPT !.vars = Append(c.vars, w)]>>, a.k)
    \/ \E w : /\ what = "method" /\ a.b = <<Ident(w)>>
              /\ z = State(a.p, <<FunctionOf(w, << >>, << >>)>>, a.k)
    \/ \E c, k : /\ what = "call" /\ a.b = <<c>> /\ Heard(X, c, a.k, k) /\ z = State(a.p, << >>, k)
    \/ \E w, k : /\ what = "label" /\ a.b = <<Ident(w)>>
                 /\ Heard(X, NamedOf("label", w), a.k, k) /\ z = State(a.p, << >>, k)
    \/ \E w, n, k : /\ what = "constant" /\ a.b = <<Ident(w), Val(n)>>
                    /\ Heard(X, ConstantOf(w, n), a.k, k) /\ z = State(a.p, << >>, k)

\* x leads from state a to state z.
Does(X, x, a, z) ==
    \/ a = Dead
    \/ x.do = "call" /\ Ruled(X, x.a, a, z) /\ (x.a # "toplevel" => a.p < Len(X.text))
    \/ x.do \in {"discard", "expect", "number", "identifier"} /\ x.a # "toplevel" /\ Takes(X, x, a, z)
    \/ x.do = "fail" /\ ~ Fine(X)
    \/ x.do = "push" /\ z = State(a.p, Append(a.b, x.b), a.k)
    \/ x.do = "make" /\ Made(X, x.a, a, z)

\* The things in s, one after the other, lead from state a to state z.
Path(X, s, a, z) ==
    /\ \E S : s \in Seq(S)
    /\ \E h : /\ h[1] = a /\ h[Len(s) + 1] = z
              /\ \A i \in 1 .. Len(s) : Does(X, s[i], h[i], h[i + 1])

\* One path behind the other.
LEMMA PathConcat ==
    ASSUME NEW X, NEW s, NEW t, NEW m, NEW k, NEW n, Path(X, s, m, k), Path(X, t, k, n)
    PROVE  Path(X, s \o t, m, n)
<1>1. PICK S1 : s \in Seq(S1)
  BY DEF Path
<1>2. PICK S2 : t \in Seq(S2)
  BY DEF Path
<1>3. PICK h1 :
        /\ h1[1] = m /\ h1[Len(s) + 1] = k
        /\ \A i \in 1 .. Len(s) : Does(X, s[i], h1[i], h1[i + 1])
  BY DEF Path
<1>4. PICK h2 :
        /\ h2[1] = k /\ h2[Len(t) + 1] = n
        /\ \A i \in 1 .. Len(t) : Does(X, t[i], h2[i], h2[i + 1])
  BY DEF Path
<1> DEFINE S == S1 \cup S2
<1>5. s \in Seq(S) /\ t \in Seq(S)
  BY <1>1, <1>2
<1> HIDE DEF S
<1> DEFINE st == s \o t
<1>6. /\ st \in Seq(S)
      /\ Len(s) \in Nat /\ Len(t) \in Nat
      /\ Len(st) = Len(s) + Len(t)
      /\ \A i \in 1 .. Len(s) + Len(t) : st[i] = IF i <= Len(s) THEN s[i] ELSE t[i - Len(s)]
  BY <1>5, ConcatProperties
<1> HIDE DEF st
<1> DEFINE h == [i \in 1 .. Len(s) + Len(t) + 1 |-> IF i <= Len(s) THEN h1[i] ELSE h2[i - Len(s)]]
<1>7. \A i \in 1 .. Len(s) + Len(t) + 1 : h[i] = IF i <= Len(s) THEN h1[i] ELSE h2[i - Len(s)]
  OBVIOUS
<1> HIDE DEF h
<1>8. h[1] = m /\ h[Len(st) + 1] = n
  <2>1. 1 \in 1 .. Len(s) + Len(t) + 1 /\ Len(st) + 1 \in 1 .. Len(s) + Len(t) + 1
        /\ ~(Len(st) + 1 <= Len(s)) /\ (Len(st) + 1) - Len(s) = Len(t) + 1
    BY <1>6
  <2>2. h[Len(st) + 1] = n
    BY <1>4, <1>7, <2>1
  <2>3. CASE 1 <= Len(s)
    BY <1>3, <1>7, <2>1, <2>2, <2>3
  <2>4. CASE Len(s) = 0
    <3>1. ~(1 <= Len(s)) /\ 1 - Len(s) = 1 /\ Len(s) + 1 = 1
      BY <2>4
    <3>2. h[1] = h2[1] /\ m = k
      BY <1>3, <1>7, <2>1, <3>1
    <3>3. QED
      BY <1>4, <2>2, <3>2
  <2>5. QED
    BY <1>6, <2>3, <2>4
<1>9. ASSUME NEW i \in 1 .. Len(st)
      PROVE  Does(X, st[i], h[i], h[i + 1])
  <2>1. i \in 1 .. Len(s) + Len(t) /\ i + 1 \in 1 .. Len(s) + Len(t) + 1 /\ i \in 1 .. Len(s) + Len(t) + 1
    BY <1>6
  <2>2. CASE i < Len(s)
    <3>1. i \in 1 .. Len(s) /\ i <= Len(s) /\ i + 1 <= Len(s)
      BY <1>6, <2>1, <2>2
    <3>2. st[i] = s[i] /\ h[i] = h1[i] /\ h[i + 1] = h1[i + 1]
      BY <1>6, <1>7, <2>1, <3>1
    <3>3. QED
      BY <1>3, <3>1, <3>2
  <2>3. CASE i = Len(s)
    <3>1. i \in 1 .. Len(s) /\ i <= Len(s) /\ ~(i + 1 <= Len(s)) /\ (i + 1) - Len(s) = 1
      BY <1>6, <2>1, <2>3
    <3>2. st[i] = s[i] /\ h[i] = h1[i] /\ h[i + 1] = h2[1]
      BY <1>6, <1>7, <2>1, <3>1
    <3>3. h1[i + 1] = h2[1]
      BY <1>3, <1>4, <2>3
    <3>4. QED
      BY <1>3, <3>1, <3>2, <3>3
  <2>4. CASE i > Len(s)
    <3> DEFINE j == i - Len(s)
    <3>1. j \in 1 .. Len(t) /\ (i + 1) - Len(s) = j + 1 /\ ~(i <= Len(s)) /\ ~(i + 1 <= Len(s))
      BY <1>6, <2>1, <2>4
    <3>2. st[i] = t[j] /\ h[i] = h2[j] /\ h[i + 1] = h2[j + 1]
      BY <1>6, <1>7, <2>1, <3>1
    <3>3. QED
      BY <1>4, <3>1, <3>2
  <2>5. QED
    BY <1>6, <2>1, <2>2, <2>3, <2>4
<1>10. Path(X, st, m, n)
  BY <1>6, <1>8, <1>9 DEF Path
<1>11. QED
  BY <1>10 DEF st

\* The first step of a path.
LEMMA PathHead ==
    ASSUME NEW X, NEW s, NEW a, NEW z, Path(X, s, a, z), s # << >>
    PROVE  \E k : Does(X, Head(s), a, k) /\ Path(X, Tail(s), k, z)
<1>1. PICK S : s \in Seq(S)
  BY DEF Path
<1>2. PICK h :
        /\ h[1] = a /\ h[Len(s) + 1] = z
        /\ \A i \in 1 .. Len(s) : Does(X, s[i], h[i], h[i + 1])
  BY DEF Path
<1>4. Len(s) \in Nat \ {0}
  BY <1>1
<1>5. /\ Tail(s) \in Seq(S)
      /\ Len(Tail(s)) = Len(s) - 1
      /\ \A i \in 1 .. Len(s) - 1 : Tail(s)[i] = s[i + 1]
  BY <1>1, <1>4
<1>6. Does(X, Head(s), a, h[2])
  <2>1. 1 \in 1 .. Len(s) /\ Head(s) = s[1] /\ 1 + 1 = 2
    BY <1>1, <1>4
  <2>2. QED
    BY <1>2, <2>1
<1> DEFINE g == [i \in 1 .. Len(s) |-> h[i + 1]]
<1>8. g[1] = h[2] /\ g[Len(Tail(s)) + 1] = z
  BY <1>2, <1>4, <1>5
<1>9. \A i \in 1 .. Len(Tail(s)) : Does(X, Tail(s)[i], g[i], g[i + 1])
  <2> TAKE i \in 1 .. Len(Tail(s))
  <2>1. /\ i + 1 \in 1 .. Len(s) /\ i \in 1 .. Len(s) - 1
        /\ g[i] = h[i + 1] /\ g[i + 1] = h[(i + 1) + 1]
    BY <1>4, <1>5
  <2>2. Tail(s)[i] = s[i + 1]
    BY <1>5, <2>1
  <2>3. QED
    BY <1>2, <2>1, <2>2
<1> HIDE DEF g
<1>10. Path(X, Tail(s), h[2], z)
  BY <1>5, <1>8, <1>9 DEF Path
<1>11. QED
  BY <1>6, <1>10

\* The shortest paths.
LEMMA PathEmpty ==
    ASSUME NEW X, NEW a
    PROVE  Path(X, << >>, a, a)
<1> DEFINE s == << >>
           h == <<a>>
<1>1. s \in Seq({}) /\ Len(s) = 0 /\ h[1] = a
  OBVIOUS
<1>2. h[Len(s) + 1] = a /\ \A i \in 1 .. Len(s) : Does(X, s[i], h[i], h[i + 1])
  BY <1>1
<1> HIDE DEF s, h
<1>3. Path(X, s, a, a)
  BY <1>1, <1>2 DEF Path
<1>4. QED
  BY <1>3 DEF s

LEMMA Path1 ==
    ASSUME NEW X, NEW a, NEW m0, NEW m1,
           Does(X, a, m0, m1)
    PROVE  Path(X, <<a>>, m0, m1)
<1> DEFINE s == <<a>>
           h == <<m0, m1>>
<1>1. s \in Seq({a}) /\ Len(s) = 1
  OBVIOUS
<1>2. h[1] = m0 /\ h[Len(s) + 1] = m1
  BY <1>1
<1>3. \A i \in 1 .. Len(s) : Does(X, s[i], h[i], h[i + 1])
  <2> TAKE i \in 1 .. Len(s)
  <2>1. i = 1
    BY <1>1
  <2>2. QED
    BY <2>1
<1> HIDE DEF s, h
<1>4. Path(X, s, m0, m1)
  BY <1>1, <1>2, <1>3 DEF Path
<1>5. QED
  BY <1>4 DEF s

LEMMA Path2 ==
    ASSUME NEW X, NEW a, NEW b, NEW m0, NEW m1, NEW m2,
           Does(X, a, m0, m1), Does(X, b, m1, m2)
    PROVE  Path(X, <<a, b>>, m0, m2)
<1> DEFINE s == <<a, b>>
           h == <<m0, m1, m2>>
<1>1. s \in Seq({a, b}) /\ Len(s) = 2
  OBVIOUS
<1>2. h[1] = m0 /\ h[Len(s) + 1] = m2
  BY <1>1
<1>3. \A i \in 1 .. Len(s) : Does(X, s[i], h[i], h[i + 1])
  <2> TAKE i \in 1 .. Len(s)
  <2>1. i = 1 \/ i = 2
    BY <1>1
  <2>2. QED
    BY <2>1
<1> HIDE DEF s, h
<1>4. Path(X, s, m0, m2)
  BY <1>1, <1>2, <1>3 DEF Path
<1>5. QED
  BY <1>4 DEF s

LEMMA Path3 ==
    ASSUME NEW X, NEW a, NEW b, NEW c, NEW m0, NEW m1, NEW m2, NEW m3,
           Does(X, a, m0, m1), Does(X, b, m1, m2), Does(X, c, m2, m3)
    PROVE  Path(X, <<a, b, c>>, m0, m3)
<1> DEFINE s == <<a, b, c>>
           h == <<m0, m1, m2, m3>>
<1>1. s \in Seq({a, b, c}) /\ Len(s) = 3
  OBVIOUS
<1>2. h[1] = m0 /\ h[Len(s) + 1] = m3
  BY <1>1
<1>3. \A i \in 1 .. Len(s) : Does(X, s[i], h[i], h[i + 1])
  <2> TAKE i \in 1 .. Len(s)
  <2>1. i = 1 \/ i = 2 \/ i = 3
    BY <1>1
  <2>2. QED
    BY <2>1
<1> HIDE DEF s, h
<1>4. Path(X, s, m0, m3)
  BY <1>1, <1>2, <1>3 DEF Path
<1>5. QED
  BY <1>4 DEF s

LEMMA Path4 ==
    ASSUME NEW X, NEW a, NEW b, NEW c, NEW d, NEW m0, NEW m1, NEW m2, NEW m3, NEW m4,
           Does(X, a, m0, m1), Does(X, b, m1, m2), Does(X, c, m2, m3), Does(X, d, m3, m4)
    PROVE  Path(X, <<a, b, c, d>>, m0, m4)
<1> DEFINE s == <<a, b, c, d>>
           h == <<m0, m1, m2, m3, m4>>
<1>1. s \in Seq({a, b, c, d}) /\ Len(s) = 4
  OBVIOUS
<1>2. h[1] = m0 /\ h[Len(s) + 1] = m4
  BY <1>1
<1>3. \A i \in 1 .. Len(s) : Does(X, s[i], h[i], h[i + 1])
  <2> TAKE i \in 1 .. Len(s)
  <2>1. i = 1 \/ i = 2 \/ i = 3 \/ i = 4
    BY <1>1
  <2>2. QED
    BY <2>1
<1> HIDE DEF s, h
<1>4. Path(X, s, m0, m4)
  BY <1>1, <1>2, <1>3 DEF Path
<1>5. QED
  BY <1>4 DEF s

\* From behind an error anything leads anywhere.
LEMMA DeadSteps ==
    ASSUME NEW X
    PROVE  \A x, z : Does(X, x, Dead, z)
  BY DEF Does

-----------------------------------------------------------------------------
(* Single steps of the reader.                                             *)

\* The token that is looked for is taken.
LEMMA TakeStep ==
    ASSUME NEW X, NEW x, NEW p \in Nat, NEW b, NEW k, p < Len(X.text), accepts(x, X.text[p + 1]),
           x.do \in {"discard", "expect", "number", "identifier"}, x.a # "toplevel"
    PROVE  Does(X, x, State(p, b, k), State(p + 1, b \o kept(x, X.text[p + 1]), k))
<1> DEFINE a == State(p, b, k)
<1>1. a.p = p /\ a.b = b /\ a.k = k
  BY DEF State
<1> HIDE DEF a
<1>2. Takes(X, x, a, State(p + 1, b \o kept(x, X.text[p + 1]), k))
  BY <1>1 DEF Takes
<1>3. QED
  BY <1>2 DEF Does, a

\* Another one is an error.
LEMMA RefuseStep ==
    ASSUME NEW X, NEW x, NEW p \in Nat, NEW b, NEW k, ~ accepts(x, X.text[p + 1]), ~ Fine(X),
           x.do \in {"discard", "expect", "number", "identifier"}, x.a # "toplevel"
    PROVE  \A z : Does(X, x, State(p, b, k), z)
<1> TAKE z
<1> DEFINE a == State(p, b, k)
<1>1. a.p = p
  BY DEF State
<1> HIDE DEF a
<1>2. Takes(X, x, a, z)
  BY <1>1 DEF Takes
<1>3. QED
  BY <1>2 DEF Does, a

\* What the things to do are.
LEMMA Items ==
    /\ Discard.do = "discard" /\ Discard.a = "any"
    /\ \A ty : Expect(ty).do = "expect" /\ Expect(ty).a = ty /\ Expect(ty).b = {}
    /\ \A ty, v : ExpectOne(ty, v).do = "expect" /\ ExpectOne(ty, v).a = ty /\ ExpectOne(ty, v).b = {v}
    /\ parse_identifier.do = "identifier" /\ parse_identifier.a = "any"
    /\ \A lo, hi : /\ Number(lo, hi).do = "number" /\ Number(lo, hi).a = "range"
                   /\ Number(lo, hi).b = <<lo, hi>>
    /\ \A r : Call(r).do = "call" /\ Call(r).a = r
    /\ \A r : Make(r).do = "make" /\ Make(r).a = r
    /\ \A x : Push(x).do = "push" /\ Push(x).a = "value" /\ Push(x).b = x
    /\ Fail.do = "fail"
  BY DEF Discard, Expect, ExpectOne, parse_identifier, Number, Call, Make, Push, Fail, Item

\* The marks that the reader looks for.
LEMMA TokenSteps ==
    ASSUME NEW X, NEW p \in Nat, p < Len(X.text), NEW S, NEW b \in Seq(S), NEW k
    PROVE  /\ Does(X, Discard, State(p, b, k), State(p + 1, b, k))
           /\ \A ty : ty # "toplevel" /\ X.text[p + 1].type = ty =>
                         Does(X, Expect(ty), State(p, b, k), State(p + 1, b, k))
           /\ \A ty, v : ty # "toplevel" /\ X.text[p + 1].type = ty /\ X.text[p + 1].value = v =>
                            Does(X, ExpectOne(ty, v), State(p, b, k), State(p + 1, b, k))
<1> DEFINE t == X.text[p + 1]
<1>1. b \o << >> = b
  OBVIOUS
<1> HIDE DEF t
<1>2. ASSUME NEW x, accepts(x, t), kept(x, t) = << >>,
             x.do \in {"discard", "expect", "number", "identifier"}, x.a # "toplevel"
      PROVE  Does(X, x, State(p, b, k), State(p + 1, b, k))
  <2>1. Does(X, x, State(p, b, k), State(p + 1, b \o kept(x, t), k))
    BY <1>2, TakeStep DEF t
  <2>2. QED
    BY <1>1, <1>2, <2>1
<1>3. Does(X, Discard, State(p, b, k), State(p + 1, b, k))
  <2>1. accepts(Discard, t) /\ kept(Discard, t) = << >>
    BY Items DEF accepts, kept
  <2>2. QED
    BY <1>2, <2>1, Items
<1>4. ASSUME NEW ty, ty # "toplevel", t.type = ty
      PROVE  Does(X, Expect(ty), State(p, b, k), State(p + 1, b, k))
  <2>1. accepts(Expect(ty), t) /\ kept(Expect(ty), t) = << >>
    BY <1>4, Items DEF accepts, kept
  <2>2. QED
    BY <1>2, <1>4, <2>1, Items
<1>5. ASSUME NEW ty, NEW v, ty # "toplevel", t.type = ty, t.value = v
      PROVE  Does(X, ExpectOne(ty, v), State(p, b, k), State(p + 1, b, k))
  <2>1. accepts(ExpectOne(ty, v), t) /\ kept(ExpectOne(ty, v), t) = << >>
    BY <1>5, Items DEF accepts, kept
  <2>2. QED
    BY <1>2, <1>5, <2>1, Items
<1>6. QED
  BY <1>3, <1>4, <1>5 DEF t

\* Tokens that are not the ones that are looked for.
LEMMA WrongTokens ==
    ASSUME NEW X, NEW p \in Nat, ~ Fine(X)
    PROVE  /\ \A ty : ty # "toplevel" /\ X.text[p + 1].type # ty =>
                         \A b, k, z : Does(X, Expect(ty), State(p, b, k), z)
           /\ \A ty, v : ty # "toplevel" /\ (X.text[p + 1].type # ty \/ X.text[p + 1].value # v) =>
                            \A b, k, z : Does(X, ExpectOne(ty, v), State(p, b, k), z)
           /\ X.text[p + 1].type # "Identifier" =>
                 \A b, k, z : Does(X, parse_identifier, State(p, b, k), z)
<1> DEFINE t == X.text[p + 1]
<1> HIDE DEF t
<1>1. ASSUME NEW x, ~ accepts(x, t),
             x.do \in {"discard", "expect", "number", "identifier"}, x.a # "toplevel"
      PROVE  \A b, k, z : Does(X, x, State(p, b, k), z)
  BY <1>1, RefuseStep DEF t
<1>2. ASSUME NEW ty, ty # "toplevel", t.type # ty
      PROVE  \A b, k, z : Does(X, Expect(ty), State(p, b, k), z)
  <2>1. ~ accepts(Expect(ty), t)
    BY <1>2, Items DEF accepts
  <2>2. QED
    BY <1>1, <1>2, <2>1, Items
<1>3. ASSUME NEW ty, NEW v, ty # "toplevel", t.type # ty \/ t.value # v
      PROVE  \A b, k, z : Does(X, ExpectOne(ty, v), State(p, b, k), z)
  <2>1. ~ accepts(ExpectOne(ty, v), t)
    <3>1. {v} # {} /\ (t.value \in {v} <=> t.value = v)
      OBVIOUS
    <3> DEFINE x == ExpectOne(ty, v)
               vs == {v}
    <3>2. x.do = "expect" /\ x.a = ty /\ x.b = vs
      BY Items
    <3> HIDE DEF x, vs
    <3>3. accepts(x, t) <=> t.type = ty /\ (vs # {} => t.value \in vs)
      BY <3>2 DEF accepts
    <3>4. QED
      BY <1>3, <3>1, <3>3 DEF x, vs
  <2>2. QED
    BY <1>1, <1>3, <2>1, Items
<1>4. ASSUME t.type # "Identifier"
      PROVE  \A b, k, z : Does(X, parse_identifier, State(p, b, k), z)
  <2>1. ~ accepts(parse_identifier, t)
    BY <1>4, Items DEF accepts
  <2>2. QED
    BY <1>1, <2>1, Items
<1>5. QED
  BY <1>2, <1>3, <1>4 DEF t

\* Two things in a row.
LEMMA PairOf ==
    ASSUME NEW c, NEW d
    PROVE  <<c>> \o <<d>> = <<c, d>>
<1> DEFINE S == {c, d}
           s == <<c>>
           t == <<d>>
           cd == <<c, d>>
           st == s \o t
<1>1. /\ s \in Seq(S) /\ t \in Seq(S) /\ cd \in Seq(S) /\ Len(s) = 1 /\ Len(t) = 1 /\ Len(cd) = 2
      /\ s[1] = c /\ t[1] = d /\ cd[1] = c /\ cd[2] = d
  OBVIOUS
<1> HIDE DEF s, t, cd
<1>2. /\ st \in Seq(S) /\ Len(st) = Len(s) + Len(t)
      /\ \A j \in 1 .. Len(s) + Len(t) : st[j] = IF j <= Len(s) THEN s[j] ELSE t[j - Len(s)]
  BY <1>1, ConcatProperties
<1> HIDE DEF st
<1>3. st \in Seq(S) /\ Len(st) = 2 /\ st[1] = c /\ st[2] = d
  BY <1>1, <1>2
<1>4. \A j \in 1 .. Len(st) : st[j] = cd[j]
  <2> TAKE j \in 1 .. Len(st)
  <2>1. j = 1 \/ j = 2
    BY <1>3
  <2>2. QED
    BY <1>1, <1>3, <2>1
<1>5. st = cd
  BY <1>1, <1>3, <1>4, SeqEqual
<1>6. QED
  BY <1>5 DEF s, t, cd, st

\* A name is read, or it is one of the reader's keywords.
LEMMA WordSteps ==
    ASSUME NEW X, NEW p \in Nat, p < Len(X.text), NEW w, X.text[p + 1] = Word(w),
           w \in keywords => ~ Fine(X), NEW k
    PROVE  /\ Does(X, parse_identifier, State(p, << >>, k), State(p + 1, <<Ident(w)>>, k))
           /\ \A c : Does(X, parse_identifier, State(p, <<c>>, k), State(p + 1, <<c, Ident(w)>>, k))
<1>1. CASE w \in keywords
  <2>1. X.text[p + 1].type # "Identifier"
    BY <1>1, WordType
  <2>2. QED
    BY <1>1, <2>1, WrongTokens
<1>2. CASE w \notin keywords
  <2> DEFINE t == X.text[p + 1]
             x == parse_identifier
  <2>1. t.type = "Identifier" /\ t.value = w
    BY <1>2, WordType
  <2> HIDE DEF t
  <2>2. accepts(x, t) /\ kept(x, t) = <<Ident(w)>>
    BY <2>1, Items DEF accepts, kept
  <2>3. x.do = "identifier" /\ x.a = "any"
    BY Items
  <2> HIDE DEF x
  <2>4. \A b : Does(X, x, State(p, b, k), State(p + 1, b \o <<Ident(w)>>, k))
    <3> TAKE b
    <3>1. Does(X, x, State(p, b, k), State(p + 1, b \o kept(x, t), k))
      BY <2>2, <2>3, TakeStep DEF t
    <3>2. QED
      BY <2>2, <3>1
  <2> DEFINE i == Ident(w)
  <2> HIDE DEF i
  <2>5. << >> \o <<i>> = <<i>>
    OBVIOUS
  <2>6. \A c : <<c>> \o <<i>> = <<c, i>>
    BY PairOf
  <2>7. QED
    BY <2>4, <2>5, <2>6 DEF i, x
<1>3. QED
  BY <1>1, <1>2

\* The other things to do.
LEMMA CallStep ==
    ASSUME NEW X, NEW r, NEW p \in Nat, p < Len(X.text), NEW b, NEW k, NEW z, Ruled(X, r, State(p, b, k), z)
    PROVE  Does(X, Call(r), State(p, b, k), z)
<1>1. State(p, b, k).p = p
  BY DEF State
<1>2. QED
  BY <1>1, Items DEF Does

LEMMA MakeStep ==
    ASSUME NEW X, NEW what, NEW a, NEW z, Made(X, what, a, z)
    PROVE  Does(X, Make(what), a, z)
  BY Items DEF Does

LEMMA PushStep ==
    ASSUME NEW X, NEW x, NEW p, NEW k
    PROVE  Does(X, Push(x), State(p, << >>, k), State(p, <<x>>, k))
<1>1. Append(<< >>, x) = <<x>>
  OBVIOUS
<1>2. QED
  BY <1>1, Items DEF Does, State

LEMMA FailStep ==
    ASSUME NEW X, ~ Fine(X)
    PROVE  \A a, z : Does(X, Fail, a, z)
  BY Items DEF Does

\* `.end-w`.
LEMMA EndPath ==
    ASSUME NEW X, X.text \in Seq(JasTokens), NEW p, NEW w \in keywords, At(X.text, p, Ending(w)),
           NEW S, NEW b \in Seq(S), NEW k
    PROVE  Path(X, parse_end(w), State(p, b, k), State(p + 4, b, k))
<1> DEFINE t == X.text
<1>1. /\ p + 4 <= Len(t)
      /\ t[p + 1] = Period /\ t[p + 2] = Keyword("end") /\ t[p + 3] = Operator("-") /\ t[p + 4] = Keyword(w)
  BY AtTuples DEF Ending
<1>2. p \in Nat /\ Len(t) \in Nat
  BY DEF At
<1>3. /\ (p + 1) + 1 = p + 2 /\ (p + 2) + 1 = p + 3 /\ (p + 3) + 1 = p + 4
      /\ p + 1 \in Nat /\ p + 2 \in Nat /\ p + 3 \in Nat
      /\ p < Len(t) /\ p + 1 < Len(t) /\ p + 2 < Len(t) /\ p + 3 < Len(t)
  BY <1>1, <1>2
<1>4. /\ Period.type = "Period" /\ Keyword("end").type = "Keyword" /\ Keyword("end").value = "end"
      /\ Operator("-").type = "Operator" /\ Operator("-").value = "-"
      /\ Keyword(w).type = "Keyword" /\ Keyword(w).value = w
  BY DEF Period, Mark, Keyword, Operator, Token
<1>5. Does(X, Expect("Period"), State(p, b, k), State(p + 1, b, k))
  BY <1>1, <1>2, <1>3, <1>4, TokenSteps
<1>6. Does(X, ExpectOne("Keyword", "end"), State(p + 1, b, k), State(p + 2, b, k))
  BY <1>1, <1>3, <1>4, TokenSteps
<1>7. Does(X, ExpectOne("Operator", "-"), State(p + 2, b, k), State(p + 3, b, k))
  BY <1>1, <1>3, <1>4, TokenSteps
<1>8. Does(X, ExpectOne("Keyword", w), State(p + 3, b, k), State(p + 4, b, k))
  BY <1>1, <1>3, <1>4, TokenSteps
<1>9. QED
  BY <1>5, <1>6, <1>7, <1>8, Path4 DEF parse_end

\* Something else.
LEMMA EndFails ==
    ASSUME NEW X, NEW p \in Nat, ~ Fine(X), NEW S, NEW b \in Seq(S), NEW k,
           \/ X.text[p + 1].type # "Period"
           \/ p + 1 < Len(X.text) /\ X.text[p + 1].type = "Period" /\ X.text[p + 2].value # "end",
           Len(X.text) \in Nat, NEW w
    PROVE  \A z : Path(X, parse_end(w), State(p, b, k), z)
<1> TAKE z
<1>1. /\ Does(X, ExpectOne("Operator", "-"), Dead, Dead)
      /\ Does(X, ExpectOne("Keyword", w), Dead, z)
      /\ Does(X, ExpectOne("Keyword", "end"), Dead, Dead)
  BY DeadSteps
<1>2. CASE X.text[p + 1].type # "Period"
  <2>1. Does(X, Expect("Period"), State(p, b, k), Dead)
    BY <1>2, WrongTokens
  <2>2. QED
    BY <1>1, <2>1, Path4 DEF parse_end
<1>3. CASE p + 1 < Len(X.text) /\ X.text[p + 1].type = "Period" /\ X.text[p + 2].value # "end"
  <2>1. p < Len(X.text) /\ (p + 1) + 1 = p + 2 /\ p + 1 \in Nat
    BY <1>3
  <2>2. Does(X, Expect("Period"), State(p, b, k), State(p + 1, b, k))
    BY <1>3, <2>1, TokenSteps
  <2>3. Does(X, ExpectOne("Keyword", "end"), State(p + 1, b, k), Dead)
    BY <1>3, <2>1, WrongTokens
  <2>4. QED
    BY <1>1, <2>2, <2>3, Path4 DEF parse_end
<1>4. QED
  BY <1>2, <1>3

-----------------------------------------------------------------------------
(* What is where in the text.                                              *)

\* What a layout says, in short.
LEMMA LayoutFacts ==
    ASSUME NEW X, Layout(X)
    PROVE  /\ X.text \in Seq(JasTokens) /\ Len(X.text) \in Nat
           /\ X.code \in Seq(JasCalls) /\ Len(X.code) \in Nat /\ Len(X.consts) \in Nat
           /\ \A i \in 1 .. Len(X.code) + 1 : X.pos[i] \in Nat
           /\ \A i \in 1 .. Len(X.code) :
                 /\ X.code[i] \in JasCalls /\ X.code[i].op # "constant"
                 /\ Chunk(X.code, i) \in Seq(JasTokens)
                 /\ At(X.text, X.pos[i], Chunk(X.code, i))
                 /\ X.pos[i + 1] = X.pos[i] + Len(Chunk(X.code, i))
           /\ At(X.text, X.pos[Len(X.code) + 1], Ending(written_for(X.code, Len(X.code) + 1)))
           /\ Len(X.text) = X.pos[Len(X.code) + 1] + 4
<1>1. X.text \in Seq(JasTokens) /\ CodeLaid(X) /\ ConstantsLaid(X)
  BY DEF Layout
<1>2. X.code \in Seq(JasCalls) /\ X.pos \in [1 .. Len(X.code) + 1 -> Nat]
  BY <1>1 DEF CodeLaid
<1>3. Len(X.text) \in Nat /\ Len(X.code) \in Nat
  BY <1>1, <1>2
<1>4. Len(X.consts) \in Nat
  <2>1. PICK S : X.consts \in Seq(S)
    BY <1>1 DEF ConstantsLaid
  <2>2. QED
    BY <2>1
<1>5. \A i \in 1 .. Len(X.code) : X.code[i] \in JasCalls /\ Chunk(X.code, i) \in Seq(JasTokens)
  <2> TAKE i \in 1 .. Len(X.code)
  <2>1. X.code[i] \in JasCalls
    BY <1>2
  <2>2. QED
    BY <1>2, <2>1, ChunkType
<1>6. QED
  BY <1>1, <1>2, <1>3, <1>4, <1>5 DEF CodeLaid

\* No token of the text is skipped.
LEMMA TokenFacts ==
    ASSUME NEW t \in Seq(JasTokens)
    PROVE  \A p \in 1 .. Len(t) : t[p] \in JasTokens /\ t[p].type \notin skip_list
<1> TAKE p \in 1 .. Len(t)
<1>1. t[p] \in JasTokens
  OBVIOUS
<1>2. t[p].type \in TokenTypes
  BY <1>1 DEF JasTokens
<1>3. QED
  BY <1>1, <1>2 DEF TokenTypes, skip_list

\* A call is a function, a label or an instruction.
LEMMA CallKinds ==
    ASSUME NEW c \in JasCalls, c.op # "constant"
    PROVE  /\ \/ c.op = "function"
              \/ c.op = "label"
              \/ c.op \in PlainOps \cup NameOps \cup ImmOps
           /\ ~(c.op = "function" /\ c.op = "label")
           /\ "function" \notin PlainOps \cup NameOps \cup ImmOps
           /\ "label" \notin PlainOps \cup NameOps \cup ImmOps
<1>1. c.op \in {"constant", "function", "label"} \cup PlainOps \cup NameOps \cup ImmOps
  BY DEF JasCalls
<1>2. "function" \notin PlainOps \cup NameOps \cup ImmOps /\ "label" \notin PlainOps \cup NameOps \cup ImmOps
  BY DEF PlainOps, ReadableOps, NameOps, ImmOps
<1>3. QED
  BY <1>1, <1>2

\* The text of a function,
LEMMA FunctionText ==
    ASSUME NEW X, Layout(X), NEW i \in 1 .. Len(X.code), X.code[i].op = "function"
    PROVE  LET f == X.code[i]
               p == X.pos[i]
               v == VarStart(X, i)
               n == Len(Listed(f.args))
           IN  /\ v \in Nat /\ n \in Nat /\ At(X.text, v, declared(f)) /\ X.pos[i + 1] = v + Len(declared(f))
               /\ f.name = "main" =>
                     p + 2 <= Len(X.text) /\ X.text[p + 1] = Period /\ X.text[p + 2] = Keyword("main")
               /\ f.name # "main" =>
                     /\ At(X.text, p, Ending(written_for(X.code, i)))
                     /\ p + 9 + n <= Len(X.text)
                     /\ X.text[p + 5] = Period /\ X.text[p + 6] = Keyword("method")
                     /\ X.text[p + 7] = Word(f.name) /\ X.text[p + 8] = BracesOpen
                     /\ At(X.text, p + 8, Listed(f.args))
                     /\ X.text[p + 9 + n] = BracesClose
<1> DEFINE f == X.code[i]
           p == X.pos[i]
           v == VarStart(X, i)
           l == Listed(f.args)
           t == X.text
           w == written_for(X.code, i)
           hd == header(f, Ending(w))
           dc == declared(f)
           four == <<Period, Keyword("method"), Word(f.name), BracesOpen>>
           close == <<BracesClose>>
<1>1. t \in Seq(JasTokens) /\ f \in JasCalls /\ p \in Nat /\ Len(t) \in Nat
  <2>1. i \in 1 .. Len(X.code) + 1
    BY LayoutFacts
  <2>2. QED
    BY <2>1, LayoutFacts
<1>2. w \in keywords
  BY KeywordValues DEF written_for
<1>3. hd \in Seq(JasTokens) /\ dc \in Seq(JasTokens)
  BY <1>1, <1>2, HeaderType, DeclaredType
<1>4. At(t, p, hd \o dc) /\ X.pos[i + 1] = p + Len(hd \o dc)
  <2>1. Chunk(X.code, i) = hd \o dc
    BY DEF Chunk
  <2>2. QED
    BY <2>1, LayoutFacts
<1>5. f.name \in STRING /\ f.args \in Seq(STRING)
  BY <1>1 DEF JasCalls
<1>6. /\ l \in Seq(JasTokens) /\ Len(l) \in Nat
      /\ four \in Seq(JasTokens) /\ Len(four) = 4
      /\ close \in Seq(JasTokens) /\ Len(close) = 1
      /\ Ending(w) \in Seq(JasTokens) /\ Len(Ending(w)) = 4
  <2>1. Keyword("method") \in JasTokens /\ Word(f.name) \in JasTokens
    BY <1>5, MarkTypes, WordType, KeywordValues
  <2>2. l \in Seq(JasTokens)
    BY <1>5, ListedType
  <2>3. four \in Seq(JasTokens) /\ Len(four) = 4 /\ close \in Seq(JasTokens) /\ Len(close) = 1
    BY <2>1, Marks
  <2>4. Len(l) \in Nat
    BY <2>2
  <2>5. QED
    BY <1>2, <2>2, <2>3, <2>4, EndingType
<1>7. hd = IF f.name = "main" THEN <<Period, Keyword("main")>> ELSE Ending(w) \o four \o l \o close
  BY DEF header
<1>8. v = IF f.name = "main" THEN p + 2 ELSE p + 9 + Len(l)
  BY DEF VarStart
<1> HIDE DEF hd, dc, four, close, l, w, v, f, p, t
<1>9. At(t, p, hd) /\ At(t, p + Len(hd), dc)
  BY <1>1, <1>3, <1>4, AtSplit
<1>10. Len(hd \o dc) = Len(hd) + Len(dc) /\ Len(hd) \in Nat /\ Len(dc) \in Nat
  <2>1. Len(hd \o dc) = Len(hd) + Len(dc)
    BY <1>3, ConcatProperties
  <2>2. QED
    BY <1>3, <2>1
<1>11. ASSUME f.name = "main"
       PROVE  p + Len(hd) = v /\ p + 2 <= Len(t) /\ t[p + 1] = Period /\ t[p + 2] = Keyword("main")
  <2> DEFINE two == <<Period, Keyword("main")>>
  <2>1. Len(two) = 2
    OBVIOUS
  <2>2. hd = two
    BY <1>7, <1>11
  <2>3. At(t, p, two)
    BY <1>9, <2>2
  <2>4. p + 2 <= Len(t) /\ t[p + 1] = Period /\ t[p + 2] = Keyword("main")
    BY <2>3, AtTuples
  <2>5. p + Len(hd) = v
    BY <1>8, <1>11, <2>1, <2>2
  <2>6. QED
    BY <2>4, <2>5
<1>12. ASSUME f.name # "main"
       PROVE  /\ p + Len(hd) = v
              /\ At(t, p, Ending(w)) /\ p + 9 + Len(l) <= Len(t)
              /\ At(t, p + 4, four) /\ At(t, p + 8, l) /\ At(t, p + 8 + Len(l), close)
  <2> DEFINE e == Ending(w)
             e4 == e \o four
             el == e4 \o l
  <2>1. hd = el \o close
    BY <1>7, <1>12
  <2>2. e \in Seq(JasTokens) /\ Len(e) = 4
    BY <1>6
  <2> HIDE DEF e
  <2>3. e4 \in Seq(JasTokens) /\ Len(e4) = 8
    <3>1. e4 \in Seq(JasTokens) /\ Len(e4) = Len(e) + Len(four)
      BY <1>6, <2>2, ConcatProperties
    <3>2. QED
      BY <1>6, <2>2, <3>1
  <2> HIDE DEF e4
  <2>4. el \in Seq(JasTokens) /\ Len(el) = 8 + Len(l)
    <3>1. el \in Seq(JasTokens) /\ Len(el) = Len(e4) + Len(l)
      BY <1>6, <2>3, ConcatProperties
    <3>2. QED
      BY <2>3, <3>1
  <2> HIDE DEF el
  <2>5. Len(hd) = 8 + Len(l) + 1
    <3>1. Len(el \o close) = Len(el) + Len(close)
      BY <1>6, <2>4, ConcatProperties
    <3>2. QED
      BY <1>6, <2>1, <2>4, <3>1
  <2>6. At(t, p, el) /\ At(t, p + Len(el), close)
    BY <1>1, <1>6, <1>9, <2>1, <2>4, AtSplit
  <2>7. At(t, p, e4) /\ At(t, p + Len(e4), l)
    BY <1>1, <1>6, <2>3, <2>6, AtSplit DEF el
  <2>8. At(t, p, e) /\ At(t, p + Len(e), four)
    BY <1>1, <1>6, <2>2, <2>7, AtSplit DEF e4
  <2>9. p + Len(el) = p + 8 + Len(l) /\ p + Len(e4) = p + 8 /\ p + Len(e) = p + 4
        /\ p + Len(hd) = p + 9 + Len(l)
    BY <1>1, <1>6, <2>2, <2>3, <2>4, <2>5
  <2>10. p + Len(hd) <= Len(t)
    BY <1>9 DEF At
  <2>11. QED
    BY <1>8, <1>12, <2>6, <2>7, <2>8, <2>9, <2>10 DEF e
<1>13. v \in Nat /\ At(t, v, dc) /\ X.pos[i + 1] = v + Len(dc)
  <2>1. p + Len(hd) = v
    BY <1>11, <1>12
  <2>2. v \in Nat
    BY <1>1, <1>10, <2>1
  <2>3. p + (Len(hd) + Len(dc)) = v + Len(dc)
    BY <1>1, <1>10, <2>1
  <2>4. QED
    BY <1>4, <1>9, <1>10, <2>1, <2>2, <2>3
<1>14. ASSUME f.name # "main"
       PROVE  /\ t[p + 5] = Period /\ t[p + 6] = Keyword("method")
              /\ t[p + 7] = Word(f.name) /\ t[p + 8] = BracesOpen
              /\ t[p + 9 + Len(l)] = BracesClose
  <2>1. /\ t[(p + 4) + 1] = Period /\ t[(p + 4) + 2] = Keyword("method")
        /\ t[(p + 4) + 3] = Word(f.name) /\ t[(p + 4) + 4] = BracesOpen
    BY <1>12, <1>14, AtTuples DEF four
  <2>2. t[(p + 8 + Len(l)) + 1] = BracesClose
    BY <1>12, <1>14, AtTuples DEF close
  <2>3. /\ (p + 4) + 1 = p + 5 /\ (p + 4) + 2 = p + 6 /\ (p + 4) + 3 = p + 7 /\ (p + 4) + 4 = p + 8
        /\ (p + 8 + Len(l)) + 1 = p + 9 + Len(l)
    BY <1>1, <1>6
  <2>4. QED
    BY <2>1, <2>2, <2>3
<1>15. QED
  BY <1>6, <1>11, <1>12, <1>13, <1>14 DEF l, v, dc, w, f, p, t

\* of its variables,
LEMMA DeclaredText ==
    ASSUME NEW t \in Seq(JasTokens), NEW f \in JasCalls, NEW p, At(t, p, declared(f))
    PROVE  LET n == Len(f.vars)
           IN  /\ n \in Nat
               /\ f.vars = << >> => Len(declared(f)) = 0
               /\ f.vars # << >> =>
                     /\ n > 0 /\ Len(declared(f)) = n + 6 /\ p + n + 6 <= Len(t)
                     /\ t[p + 1] = Period /\ t[p + 2] = Keyword("var")
                     /\ \A j \in 1 .. n : t[p + 2 + j] = Word(f.vars[j])
                     /\ At(t, p + 2 + n, Ending("var"))
<1> DEFINE n == Len(f.vars)
           ws == Words(f.vars)
           front == <<Period, Keyword("var")>>
           e == Ending("var")
           fw == front \o ws
<1>1. f.vars \in Seq(STRING)
  BY DEF JasCalls
<1>2. n \in Nat /\ (f.vars = << >> <=> n = 0) /\ p \in Nat
  BY <1>1 DEF At
<1>3. ws \in Seq(JasTokens) /\ Len(ws) = n /\ \A j \in 1 .. n : ws[j] = Word(f.vars[j])
  BY <1>1, WordsType
<1>4. front \in Seq(JasTokens) /\ Len(front) = 2
  <2>1. Keyword("var") \in JasTokens
    BY MarkTypes, KeywordValues
  <2>2. QED
    BY <2>1, Marks
<1>5. e \in Seq(JasTokens) /\ Len(e) = 4
  BY EndingType, KeywordValues
<1>6. declared(f) = IF f.vars = << >> THEN << >> ELSE fw \o e
  BY DEF declared
<1> HIDE DEF n, ws, e, front
<1>7. fw \in Seq(JasTokens) /\ Len(fw) = 2 + n
  <2>1. fw \in Seq(JasTokens) /\ Len(fw) = Len(front) + Len(ws)
    BY <1>3, <1>4, ConcatProperties
  <2>2. QED
    BY <1>3, <1>4, <2>1
<1> HIDE DEF fw
<1>8. ASSUME f.vars # << >>
      PROVE  /\ n > 0 /\ Len(declared(f)) = n + 6 /\ p + n + 6 <= Len(t)
             /\ t[p + 1] = Period /\ t[p + 2] = Keyword("var")
             /\ \A j \in 1 .. n : t[p + 2 + j] = Word(f.vars[j])
             /\ At(t, p + 2 + n, e)
  <2>1. At(t, p, fw \o e) /\ Len(fw \o e) = Len(fw) + Len(e) /\ declared(f) = fw \o e
    <3>1. Len(fw \o e) = Len(fw) + Len(e)
      BY <1>5, <1>7, ConcatProperties
    <3>2. QED
      BY <1>6, <1>8, <3>1
  <2>2. At(t, p, fw) /\ At(t, p + Len(fw), e)
    BY <1>5, <1>7, <2>1, AtSplit
  <2>3. At(t, p, front) /\ At(t, p + Len(front), ws)
    BY <1>3, <1>4, <2>2, AtSplit DEF fw
  <2>4. t[p + 1] = Period /\ t[p + 2] = Keyword("var")
    BY <2>3, AtTuples DEF front
  <2>5. p + Len(fw) = p + 2 + n /\ p + Len(front) = p + 2 /\ Len(fw) + Len(e) = n + 6
    BY <1>2, <1>4, <1>5, <1>7
  <2>6. \A j \in 1 .. n : t[p + 2 + j] = Word(f.vars[j])
    <3> TAKE j \in 1 .. n
    <3>1. t[(p + 2) + j] = ws[j]
      BY <1>3, <2>3, <2>5 DEF At
    <3>2. QED
      BY <1>3, <3>1
  <2>7. (p + 2 + n) + 4 <= Len(t)
    BY <1>5, <2>2, <2>5 DEF At
  <2>8. (p + 2 + n) + 4 = p + n + 6
    BY <1>2
  <2>9. n > 0
    BY <1>2, <1>8
  <2>10. QED
    BY <2>1, <2>2, <2>4, <2>5, <2>6, <2>7, <2>8, <2>9
<1>9. f.vars = << >> => Len(declared(f)) = 0
  <2>1. Len(<< >>) = 0
    OBVIOUS
  <2>2. QED
    BY <1>6, <2>1
<1>10. QED
  BY <1>2, <1>8, <1>9 DEF n, e

\* of a label,
LEMMA LabelText ==
    ASSUME NEW X, Layout(X), NEW i \in 1 .. Len(X.code), X.code[i].op = "label"
    PROVE  LET p == X.pos[i]
           IN  /\ p + 2 <= Len(X.text) /\ X.text[p + 1] = Word(X.code[i].name) /\ X.text[p + 2] = Colon
               /\ X.pos[i + 1] = p + 2
<1> DEFINE c == Chunk(X.code, i)
           p == X.pos[i]
<1>1. c = <<Word(X.code[i].name), Colon>>
  BY DEF Chunk
<1>2. Len(c) = 2
  BY <1>1
<1>3. At(X.text, p, c) /\ X.pos[i + 1] = p + Len(c)
  BY LayoutFacts
<1> HIDE DEF c, p
<1>4. p + 2 <= Len(X.text) /\ X.text[p + 1] = Word(X.code[i].name) /\ X.text[p + 2] = Colon
  <2> DEFINE w == Word(X.code[i].name)
             t == X.text
  <2>1. At(t, p, <<w, Colon>>)
    BY <1>1, <1>3
  <2> HIDE DEF w, t
  <2>2. p + 2 <= Len(t) /\ t[p + 1] = w /\ t[p + 2] = Colon
    BY <2>1, AtTuples
  <2>3. QED
    BY <2>2 DEF w, t
<1>5. QED
  BY <1>2, <1>3, <1>4 DEF p

\* of a number,
LEMMA SignedText ==
    ASSUME NEW k \in Int
    PROVE  Signed(k) \in Seq(JasTokens) /\ Len(Signed(k)) = SignedLen(k)
<1>1. Signed(k) \in Seq(JasTokens)
  BY SignedType
<1>2. Len(<<Operator("-"), Decimal(-k)>>) = 2 /\ Len(<<Decimal(k)>>) = 1
  OBVIOUS
<1>3. QED
  BY <1>1, <1>2 DEF Signed, SignedLen

\* Behind the word of instruction i: where its number begins.
NumberStart(X, i) == X.pos[i] + 1 + (IF X.code[i].op \in NameOps THEN 1 ELSE 0)

\* of an instruction.
LEMMA InstructionText ==
    ASSUME NEW X, Layout(X), NEW i \in 1 .. Len(X.code), Instr(X, i)
    PROVE  LET c == X.code[i]
               p == X.pos[i]
               q == NumberStart(X, i)
           IN  /\ p + 1 <= Len(X.text) /\ q \in Nat
               /\ X.text[p + 1] = Word(IF c.op = "ICMPEQ" THEN "IF_ICMPEQ" ELSE c.op)
               /\ c.op \in NameOps => p + 2 <= Len(X.text) /\ X.text[p + 2] = Word(c.name)
               /\ c.op \in ImmOps => /\ At(X.text, q, Signed(c.n))
                                     /\ X.pos[i + 1] = q + Len(Signed(c.n))
               /\ c.op \notin ImmOps => X.pos[i + 1] = q
<1> DEFINE c == X.code[i]
           p == X.pos[i]
           q == NumberStart(X, i)
           t == X.text
           op == <<Word(IF c.op = "ICMPEQ" THEN "IF_ICMPEQ" ELSE c.op)>>
           named == IF c.op \in NameOps THEN <<Word(c.name)>> ELSE << >>
           number == IF c.op \in ImmOps THEN Signed(c.n) ELSE << >>
           on == op \o named
<1>1. t \in Seq(JasTokens) /\ c \in JasCalls /\ p \in Nat /\ Len(t) \in Nat
  <2>1. i \in 1 .. Len(X.code) + 1
    BY LayoutFacts
  <2>2. QED
    BY <2>1, LayoutFacts
<1>2. c.op \in TokenValues /\ c.name \in TokenValues /\ c.n \in Int
  <2>1. c.name \in STRING /\ c.op \in STRING /\ c.n \in INT32_MIN .. INT32_MAX
    BY <1>1 DEF JasCalls
  <2>2. c.n \in Int
    BY <2>1, Widths
  <2>3. QED
    BY <2>1, <2>2, KeywordValues
<1>3. Word(IF c.op = "ICMPEQ" THEN "IF_ICMPEQ" ELSE c.op) \in JasTokens
  <2>1. "IF_ICMPEQ" \in TokenValues
    BY KeywordValues
  <2>2. (IF c.op = "ICMPEQ" THEN "IF_ICMPEQ" ELSE c.op) \in TokenValues
    BY <1>2, <2>1
  <2>3. QED
    BY <2>2, WordType
<1>4. op \in Seq(JasTokens) /\ Len(op) = 1
  BY <1>3
<1>5. named \in Seq(JasTokens) /\ Len(named) = IF c.op \in NameOps THEN 1 ELSE 0
  <2>1. Word(c.name) \in JasTokens
    BY <1>2, WordType
  <2>2. QED
    BY <2>1
<1>6. number \in Seq(JasTokens) /\ Len(number) \in Nat
  <2>1. Signed(c.n) \in Seq(JasTokens)
    BY <1>2, SignedType
  <2>2. << >> \in Seq(JasTokens)
    OBVIOUS
  <2>3. number \in Seq(JasTokens)
    BY <2>1, <2>2
  <2>4. QED
    BY <2>3
<1>7. At(t, p, on \o number) /\ X.pos[i + 1] = p + Len(on \o number)
  <2>1. c.op # "function" /\ c.op # "label"
    BY CallKinds, <1>1, LayoutFacts DEF Instr
  <2>2. Chunk(X.code, i) = instruction(c)
    BY <2>1 DEF Chunk
  <2>3. instruction(c) = on \o number
    BY DEF instruction
  <2>4. QED
    BY <2>2, <2>3, LayoutFacts
<1>8. q = p + 1 + (IF c.op \in NameOps THEN 1 ELSE 0)
  BY DEF NumberStart
<1>9. /\ c.op \in NameOps => named = <<Word(c.name)>>
      /\ c.op \in ImmOps => number = Signed(c.n)
      /\ c.op \notin ImmOps => number = << >>
  OBVIOUS
<1> HIDE DEF op, named, number, c, p, q, t
<1>10. on \in Seq(JasTokens) /\ Len(on) = 1 + Len(named)
  <2>1. on \in Seq(JasTokens) /\ Len(on) = Len(op) + Len(named)
    BY <1>4, <1>5, ConcatProperties
  <2>2. QED
    BY <1>4, <2>1
<1> HIDE DEF on
<1>11. At(t, p, on) /\ At(t, p + Len(on), number) /\ Len(on \o number) = Len(on) + Len(number)
  <2>1. Len(on \o number) = Len(on) + Len(number)
    BY <1>6, <1>10, ConcatProperties
  <2>2. QED
    BY <1>1, <1>6, <1>7, <1>10, <2>1, AtSplit
<1>12. At(t, p, op) /\ At(t, p + 1, named)
  BY <1>1, <1>4, <1>5, <1>11, AtSplit DEF on
<1>13. p + Len(on) = q /\ q \in Nat /\ X.pos[i + 1] = q + Len(number)
  <2>1. Len(named) \in Nat /\ Len(named) = IF c.op \in NameOps THEN 1 ELSE 0
    BY <1>5
  <2>2. p + Len(on) = q /\ q \in Nat
    BY <1>1, <1>8, <1>10, <2>1
  <2>3. p + (Len(on) + Len(number)) = q + Len(number)
    BY <1>1, <1>6, <1>10, <2>1, <2>2
  <2>4. QED
    BY <1>7, <1>11, <2>2, <2>3
<1>14. p + 1 <= Len(t) /\ t[p + 1] = Word(IF c.op = "ICMPEQ" THEN "IF_ICMPEQ" ELSE c.op)
  BY <1>12, AtTuples DEF op
<1>15. c.op \in NameOps => p + 2 <= Len(t) /\ t[p + 2] = Word(c.name)
  <2> SUFFICES ASSUME c.op \in NameOps
               PROVE  p + 2 <= Len(t) /\ t[p + 2] = Word(c.name)
    OBVIOUS
  <2>1. At(t, p + 1, <<Word(c.name)>>)
    BY <1>9, <1>12
  <2>2. (p + 1) + 1 <= Len(t) /\ t[(p + 1) + 1] = Word(c.name)
    BY <2>1, AtTuples
  <2>3. (p + 1) + 1 = p + 2
    BY <1>1
  <2>4. QED
    BY <2>2, <2>3
<1>16. c.op \notin ImmOps => X.pos[i + 1] = q
  <2>1. Len(<< >>) = 0
    OBVIOUS
  <2>2. QED
    BY <1>9, <1>13, <2>1
<1>17. QED
  BY <1>9, <1>11, <1>13, <1>14, <1>15, <1>16 DEF c, p, q, t

\* What begins at position i.
LEMMA FirstToken ==
    ASSUME NEW X, Layout(X), NEW i \in 1 .. Len(X.code) + 1
    PROVE  /\ X.pos[i] \in Nat /\ X.pos[i] < Len(X.text)
           /\ FunctionAt(X, i) => X.text[X.pos[i] + 1] = Period
           /\ ~ FunctionAt(X, i) => \E w : X.text[X.pos[i] + 1] = Word(w)
           /\ Resumes(X, i) => At(X.text, X.pos[i], Ending(written_for(X.code, i)))
           /\ FunctionAt(X, i) /\ ~ Resumes(X, i) =>
                 X.pos[i] + 2 <= Len(X.text) /\ X.text[X.pos[i] + 2] = Keyword("main")
<1> DEFINE p == X.pos[i]
           t == X.text
           n == Len(X.code)
<1>1. p \in Nat /\ n \in Nat /\ Len(t) \in Nat
  BY LayoutFacts
<1>2. ASSUME NEW w, At(t, p, Ending(w))
      PROVE  p < Len(t) /\ t[p + 1] = Period
  <2> HIDE DEF p, t
  <2>1. p + 4 <= Len(t) /\ t[p + 1] = Period
    BY <1>2, AtTuples DEF Ending
  <2>2. QED
    BY <1>1, <2>1
<1>3. CASE i = n + 1
  <2>1. At(t, p, Ending(written_for(X.code, i)))
    BY <1>3, LayoutFacts
  <2>2. Resumes(X, i) /\ FunctionAt(X, i)
    BY <1>1, <1>3 DEF Resumes, FunctionAt
  <2>3. QED
    BY <1>1, <1>2, <2>1, <2>2
<1>4. CASE i \in 1 .. n /\ X.code[i].op = "function" /\ X.code[i].name # "main"
  <2>1. At(t, p, Ending(written_for(X.code, i)))
    BY <1>4, FunctionText
  <2>2. Resumes(X, i) /\ FunctionAt(X, i)
    BY <1>4 DEF Resumes, Named, FunctionAt
  <2>3. QED
    BY <1>1, <1>2, <2>1, <2>2
<1>5. CASE i \in 1 .. n /\ X.code[i].op = "function" /\ X.code[i].name = "main"
  <2>1. p + 2 <= Len(t) /\ t[p + 1] = Period /\ t[p + 2] = Keyword("main")
    BY <1>5, FunctionText
  <2>2. ~ Resumes(X, i) /\ FunctionAt(X, i) /\ p < Len(t)
    BY <1>1, <1>5, <2>1 DEF Resumes, Named, FunctionAt
  <2>3. QED
    BY <1>1, <2>1, <2>2
<1>6. CASE i \in 1 .. n /\ X.code[i].op # "function"
  <2>1. X.code[i] \in JasCalls /\ X.code[i].op # "constant"
    BY <1>6, LayoutFacts
  <2>2. p < Len(t) /\ \E w : t[p + 1] = Word(w)
    <3>1. CASE X.code[i].op = "label"
      <4>1. p + 2 <= Len(t) /\ t[p + 1] = Word(X.code[i].name)
        BY <1>6, <3>1, LabelText
      <4>2. p < Len(t)
        BY <1>1, <4>1
      <4>3. QED
        BY <4>1, <4>2
    <3>2. CASE Instr(X, i)
      <4>1. p + 1 <= Len(t) /\ \E w : t[p + 1] = Word(w)
        BY <1>6, <3>2, InstructionText
      <4>2. p < Len(t)
        BY <1>1, <4>1
      <4>3. QED
        BY <4>1, <4>2
    <3>3. QED
      BY <1>6, <2>1, <3>1, <3>2, CallKinds DEF Instr
  <2>3. ~ Resumes(X, i) /\ ~ FunctionAt(X, i)
    BY <1>1, <1>6 DEF Resumes, Named, FunctionAt
  <2>4. QED
    BY <1>1, <2>2, <2>3
<1>7. QED
  BY <1>1, <1>3, <1>4, <1>5, <1>6

\* The types of the tokens.
LEMMA MarkKinds ==
    /\ Period.type = "Period" /\ Comma.type = "Comma" /\ Colon.type = "Colon"
    /\ BracesOpen.type = "BracesOpen" /\ BracesClose.type = "BracesClose"
    /\ \A w : Word(w).type \in {"Keyword", "Identifier"} /\ Word(w).value = w
    /\ \A w : Keyword(w).type = "Keyword" /\ Keyword(w).value = w
<1>1. /\ Period.type = "Period" /\ Comma.type = "Comma" /\ Colon.type = "Colon"
      /\ BracesOpen.type = "BracesOpen" /\ BracesClose.type = "BracesClose"
  BY DEF Period, Comma, Colon, BracesOpen, BracesClose, Mark, Token
<1>2. \A w : Word(w).type \in {"Keyword", "Identifier"} /\ Word(w).value = w
  BY WordType
<1>3. QED
  BY <1>1, <1>2 DEF Keyword, Token

-----------------------------------------------------------------------------
(* The functions of the reader, one by one.                                *)

\* What is left of a number of a word; a long holds it.
LEMMA i32Small ==
    ASSUME NEW n \in INT32_MIN .. INT32_MAX
    PROVE  /\ i32(n) = n /\ i32(Hex(n).n) = n
           /\ n <= LONG_MAX /\ Hex(n).n <= LONG_MAX
<1> DEFINE M == INT32_MAX + 1
           b == 2 * M
           r == n + M
<1>1. M \in Nat /\ M > 0 /\ b \in Nat /\ b > 0 /\ n \in Int /\ r \in 0 .. b - 1
  BY Widths
<1>2. (b * 0 + r) % b = r /\ (b * 1 + r) % b = r
  <2> HIDE DEF b, r
  <2>1. 0 \in Int /\ 1 \in Int
    OBVIOUS
  <2>2. QED
    BY <1>1, <2>1, DivisionUnique
<1>3. b * 0 + r = n + INT32_MAX + 1 /\ b * 1 + r = (n + b) + INT32_MAX + 1 /\ r - M = n
  BY Widths
<1>4. \A k : i32(k) = ((k + INT32_MAX + 1) % b) - M
  BY DEF i32
<1>5. Hex(n).n = IF n < 0 THEN n + b ELSE n
  BY DEF Hex, Hexadecimal, Token
<1> HIDE DEF b, M, r
<1>6. i32(n) = n /\ i32(n + b) = n
  BY <1>2, <1>3, <1>4
<1>7. n <= LONG_MAX /\ (n < 0 => n + b <= LONG_MAX)
  BY Widths, LongAssumption DEF b, M
<1>8. QED
  BY <1>5, <1>6, <1>7

\* The tokens that are numbers.
LEMMA NumberKinds ==
    /\ \A k : Decimal(k).type = "Decimal" /\ Decimal(k).n = k /\ Hex(k).type = "Hexadecimal"
    /\ \A w : Operator(w).type = "Operator" /\ Operator(w).value = w
<1>1. \A k : Hexadecimal(k).type = "Hexadecimal"
  BY DEF Hexadecimal, Token
<1>2. \A k : Hex(k).type = "Hexadecimal"
  BY <1>1 DEF Hex
<1>3. QED
  BY <1>2 DEF Decimal, Operator, Token

\* A number is read as it was written, when it is in range.
LEMMA NumberSteps ==
    ASSUME NEW X, NEW p \in Nat, p < Len(X.text), NEW lo, NEW hi, NEW c, NEW k
    PROVE  /\ X.text[p + 1].type \in {"Decimal", "Hexadecimal"} /\ X.text[p + 1].n <= LONG_MAX
                /\ lo <= i32(X.text[p + 1].n) /\ i32(X.text[p + 1].n) <= hi =>
                  Does(X, Number(lo, hi), State(p, <<c>>, k), State(p + 1, <<c, Val(i32(X.text[p + 1].n))>>, k))
           /\ X.text[p + 1].type # "Character_literal" /\ ~ Fine(X)
                /\ (X.text[p + 1].type \notin {"Decimal", "Hexadecimal"}
                      \/ ~(lo <= i32(X.text[p + 1].n) /\ i32(X.text[p + 1].n) <= hi)) =>
                  \A z : Does(X, Number(lo, hi), State(p, <<c>>, k), z)
<1> DEFINE t == X.text[p + 1]
           x == Number(lo, hi)
           good == lo <= i32(t.n) /\ i32(t.n) <= hi
<1>1. x.do = "number" /\ x.a = "range" /\ x.b[1] = lo /\ x.b[2] = hi
  <2>1. x.b = <<lo, hi>>
    BY Items
  <2>2. <<lo, hi>>[1] = lo /\ <<lo, hi>>[2] = hi
    OBVIOUS
  <2>3. QED
    BY <2>1, <2>2, Items
<1>2. x.do \in {"discard", "expect", "number", "identifier"} /\ x.a # "toplevel"
  BY <1>1
<1> HIDE DEF x, t
<1>3. accepts(x, t) <=> readable(t) /\ (t.type = "Character_literal" \/ good)
  BY <1>1 DEF accepts, within
<1> HIDE DEF good
<1>4. kept(x, t) = <<Val(i32(t.n))>>
  BY <1>1 DEF kept
<1>5. ASSUME t.type \in {"Decimal", "Hexadecimal"}, t.n <= LONG_MAX, good
      PROVE  Does(X, x, State(p, <<c>>, k), State(p + 1, <<c, Val(i32(t.n))>>, k))
  <2>1. accepts(x, t)
    BY <1>3, <1>5 DEF readable
  <2>2. Does(X, x, State(p, <<c>>, k), State(p + 1, <<c>> \o kept(x, t), k))
    BY <1>2, <2>1, TakeStep DEF t
  <2>3. <<c>> \o kept(x, t) = <<c, Val(i32(t.n))>>
    BY <1>4, PairOf
  <2>4. QED
    BY <2>2, <2>3
<1>6. ASSUME t.type # "Character_literal", ~ Fine(X), t.type \notin {"Decimal", "Hexadecimal"} \/ ~ good
      PROVE  \A z : Does(X, x, State(p, <<c>>, k), z)
  <2>1. ~ accepts(x, t)
    BY <1>3, <1>6 DEF readable
  <2>2. QED
    BY <1>2, <1>6, <2>1, RefuseStep DEF t
<1>7. QED
  BY <1>5, <1>6 DEF x, t, good

\* The value of a constant.
LEMMA ValueRule ==
    ASSUME NEW X, NEW a, NEW z, RuledValue(X, a, z), a.p < Len(X.text)
    PROVE  Path(X, Rule("value", X.text[a.p + 1]), a, z)
<1>1. PICK p \in Nat, n \in INT32_MIN .. INT32_MAX :
        \E c, k : /\ a = State(p, <<c>>, k) /\ X.text[p + 1] = Hex(n)
                  /\ z = State(p + 1, <<c, Val(n)>>, k)
  BY DEF RuledValue
<1>2. PICK c, k : /\ a = State(p, <<c>>, k) /\ X.text[p + 1] = Hex(n)
                  /\ z = State(p + 1, <<c, Val(n)>>, k)
  BY <1>1
<1>3. a.p = p
  BY <1>2 DEF State
<1> DEFINE t == X.text[p + 1]
<1>4. t.type = "Hexadecimal" /\ i32(t.n) = n /\ t.n <= LONG_MAX
  <2>1. t.type = "Hexadecimal"
    BY <1>2, NumberKinds
  <2>2. QED
    BY <1>2, <2>1, i32Small
<1>5. INT32_MIN <= n /\ n <= INT32_MAX
  OBVIOUS
<1>6. Does(X, Number(INT32_MIN, INT32_MAX), a, z)
  BY <1>2, <1>3, <1>4, <1>5, NumberSteps
<1>7. Rule("value", t) = <<Number(INT32_MIN, INT32_MAX)>>
  BY <1>4 DEF Rule, parse_value, is_next
<1>8. QED
  BY <1>3, <1>6, <1>7, Path1

\* The number of an instruction; the least byte is out of range without its sign.
LEMMA ImmediateRule ==
    ASSUME NEW X, X.text \in Seq(JasTokens), NEW a, NEW z, RuledImmediate(X, a, z), a.p < Len(X.text)
    PROVE  Path(X, Rule("immediate", X.text[a.p + 1]), a, z)
<1>1. PICK p \in Nat :
        \E c, k : /\ a = State(p, <<c>>, k)
                  /\ \/ \E n \in I8_MIN .. I8_MAX :
                           /\ At(X.text, p, Signed(n)) /\ (n = I8_MIN => ~ Fine(X))
                           /\ z = State(p + SignedLen(n), <<c, Val(n)>>, k)
                     \/ X.text[p + 1] = Colon /\ ~ Fine(X)
  BY DEF RuledImmediate
<1>2. PICK c, k : /\ a = State(p, <<c>>, k)
                  /\ \/ \E n \in I8_MIN .. I8_MAX :
                           /\ At(X.text, p, Signed(n)) /\ (n = I8_MIN => ~ Fine(X))
                           /\ z = State(p + SignedLen(n), <<c, Val(n)>>, k)
                     \/ X.text[p + 1] = Colon /\ ~ Fine(X)
  BY <1>1
<1>3. a.p = p
  BY <1>2 DEF State
<1> DEFINE t == X.text[p + 1]
<1>4. Rule("immediate", t) = parse_value(t, I8_MIN, I8_MAX)
  BY DEF Rule
<1>5. CASE t = Colon /\ ~ Fine(X)
  <2>1. t.type = "Colon"
    BY <1>5, MarkKinds
  <2>2. Does(X, Number(I8_MIN, I8_MAX), a, z)
    BY <1>2, <1>3, <1>5, <2>1, NumberSteps
  <2>3. parse_value(t, I8_MIN, I8_MAX) = <<Number(I8_MIN, I8_MAX)>>
    BY <2>1 DEF parse_value, is_next
  <2>4. QED
    BY <1>3, <1>4, <2>2, <2>3, Path1
<1>6. ASSUME NEW n \in I8_MIN .. I8_MAX,
             At(X.text, p, Signed(n)), n = I8_MIN => ~ Fine(X),
             z = State(p + SignedLen(n), <<c, Val(n)>>, k)
      PROVE  Path(X, Rule("immediate", t), a, z)
  <2>1. n \in Int /\ I8_MIN <= n /\ n <= I8_MAX
    BY Widths
  <2>2. CASE n >= 0
    <3>1. t = Decimal(n)
      <4>1. Signed(n) = <<Decimal(n)>>
        BY <2>1, <2>2 DEF Signed
      <4> DEFINE d == Decimal(n)
                 x == X.text
      <4>2. At(x, p, <<d>>)
        BY <1>6, <4>1
      <4> HIDE DEF x, d
      <4>3. x[p + 1] = d
        BY <4>2, AtTuples
      <4>4. QED
        BY <4>3 DEF x, d
    <3>2. t.type = "Decimal" /\ t.n = n
      BY <3>1, NumberKinds
    <3>3. i32(n) = n /\ n <= LONG_MAX
      <4>1. n \in INT32_MIN .. INT32_MAX
        BY <2>1, <2>2, Widths
      <4>2. QED
        BY <4>1, i32Small
    <3>4. z = State(p + 1, <<c, Val(n)>>, k)
      BY <1>6, <2>1, <2>2 DEF SignedLen
    <3>5. Does(X, Number(I8_MIN, I8_MAX), a, z)
      BY <1>2, <1>3, <2>1, <3>2, <3>3, <3>4, NumberSteps
    <3>6. parse_value(t, I8_MIN, I8_MAX) = <<Number(I8_MIN, I8_MAX)>>
      BY <3>2 DEF parse_value, is_next
    <3>7. QED
      BY <1>4, <3>5, <3>6, Path1
  <2>3. CASE n < 0
    <3> DEFINE v == -n
               u == X.text[(p + 1) + 1]
    <3>1. t = Operator("-") /\ u = Decimal(v) /\ p + 1 < Len(X.text)
      <4> DEFINE o == Operator("-")
                 d == Decimal(v)
      <4>1. At(X.text, p, <<o, d>>)
        BY <1>6, <2>3 DEF Signed
      <4> HIDE DEF o, d, v
      <4>2. p + 2 <= Len(X.text) /\ X.text[p + 1] = o /\ X.text[p + 2] = d
        BY <4>1, AtTuples
      <4>3. (p + 1) + 1 = p + 2 /\ Len(X.text) \in Nat
        OBVIOUS
      <4>4. p + 1 < Len(X.text)
        BY <4>2, <4>3
      <4>5. QED
        BY <4>2, <4>3, <4>4 DEF o, d
    <3>2. t.type = "Operator" /\ t.value = "-" /\ u.type = "Decimal" /\ u.n = v
      BY <3>1, NumberKinds
    <3>3. /\ i32(v) = v /\ v <= LONG_MAX /\ v \in Int /\ I8_MIN <= v
          /\ (v <= I8_MAX <=> n # I8_MIN) /\ i32(-v) = n
      <4>1. /\ v \in INT32_MIN .. INT32_MAX /\ v \in Int /\ I8_MIN <= v
            /\ (v <= I8_MAX <=> n # I8_MIN) /\ n \in INT32_MIN .. INT32_MAX /\ -v = n
        BY <2>1, <2>3, Widths
      <4>2. i32(v) = v /\ v <= LONG_MAX /\ i32(n) = n
        BY <4>1, i32Small
      <4>3. QED
        BY <4>1, <4>2
    <3>4. Does(X, Discard, a, State(p + 1, <<c>>, k))
      <4>1. <<c>> \in Seq({c})
        OBVIOUS
      <4>2. QED
        BY <1>2, <1>3, <4>1, TokenSteps
    <3> DEFINE y == State(p + 2, <<c, Val(v)>>, k)
    <3>5. Does(X, Number(I8_MIN, I8_MAX), State(p + 1, <<c>>, k), y)
      <4>1. p + 1 \in Nat /\ (p + 1) + 1 = p + 2
        OBVIOUS
      <4> HIDE DEF v
      <4>2. CASE n # I8_MIN
        <5>1. I8_MIN <= i32(u.n) /\ i32(u.n) <= I8_MAX /\ i32(u.n) = v /\ u.n <= LONG_MAX
          BY <3>2, <3>3, <4>2
        <5> HIDE DEF u
        <5>2. u.type \in {"Decimal", "Hexadecimal"}
          BY <3>2
        <5>3. Does(X, Number(I8_MIN, I8_MAX), State(p + 1, <<c>>, k), State((p + 1) + 1, <<c, Val(i32(u.n))>>, k))
          BY <3>1, <4>1, <5>1, <5>2, NumberSteps DEF u
        <5>4. QED
          BY <4>1, <5>1, <5>3
      <4>3. CASE n = I8_MIN
        <5>1. ~(i32(u.n) <= I8_MAX) /\ ~ Fine(X)
          BY <1>6, <3>2, <3>3, <4>3
        <5> HIDE DEF u
        <5>2. u.type # "Character_literal"
          BY <3>2
        <5>3. QED
          BY <3>1, <4>1, <5>1, <5>2, NumberSteps DEF u
      <4>4. QED
        BY <4>2, <4>3
    <3>6. Does(X, Make("negative"), y, z)
      <4>1. y.p = p + 2 /\ y.b = <<c, Val(v)>> /\ y.k = k
        BY DEF State
      <4>2. z = State(p + 2, <<c, Val(i32(-v))>>, k)
        BY <1>6, <2>3, <3>3 DEF SignedLen
      <4> HIDE DEF y, v
      <4>3. Made(X, "negative", y, z)
        BY <4>1, <4>2 DEF Made
      <4>4. QED
        BY <4>3, MakeStep
    <3>7. parse_value(t, I8_MIN, I8_MAX) = <<Discard, Number(I8_MIN, I8_MAX), Make("negative")>>
      BY <3>2 DEF parse_value, is_next
    <3>8. QED
      BY <1>4, <3>4, <3>5, <3>6, <3>7, Path3
  <2>4. QED
    BY <2>1, <2>2, <2>3
<1>7. QED
  BY <1>2, <1>3, <1>5, <1>6

\* main has no braces.
LEMMA BracesRule ==
    ASSUME NEW X, NEW a, NEW z, RuledBraces(X, a, z)
    PROVE  Path(X, Rule("braces", X.text[a.p + 1]), a, z)
<1>1. Rule("braces", X.text[a.p + 1]) = << >> /\ z = a
  BY DEF Rule, parse_braces, RuledBraces
<1>2. QED
  BY <1>1, PathEmpty

\* The first so many things of a sequence, and one more.
LEMMA PrefixGrows ==
    ASSUME NEW S, NEW s \in Seq(S)
    PROVE  /\ SubSeq(s, 1, 0) = << >> /\ SubSeq(s, 1, Len(s)) = s
           /\ \A j \in 0 .. Len(s) - 1 : Append(SubSeq(s, 1, j), s[j + 1]) = SubSeq(s, 1, j + 1)
<1>1. Len(s) \in Nat /\ \A i \in 1 .. Len(s) : s[i] \in S
  OBVIOUS
<1>2. ASSUME NEW j \in 0 .. Len(s)
      PROVE  /\ SubSeq(s, 1, j) \in Seq(S) /\ Len(SubSeq(s, 1, j)) = j
             /\ \A i \in 1 .. j : SubSeq(s, 1, j)[i] = s[i]
  <2>1. j \in Nat /\ \A i \in 1 .. j : s[i] \in S
    BY <1>1
  <2>2. QED
    BY <2>1
<1>3. SubSeq(s, 1, 0) = << >>
  <2>1. SubSeq(s, 1, 0) \in Seq(S) /\ Len(SubSeq(s, 1, 0)) = 0
    BY <1>1, <1>2
  <2>2. QED
    BY <2>1
<1>4. SubSeq(s, 1, Len(s)) = s
  <2> DEFINE r == SubSeq(s, 1, Len(s))
  <2>1. r \in Seq(S) /\ Len(r) = Len(s) /\ \A i \in 1 .. Len(r) : r[i] = s[i]
    BY <1>1, <1>2
  <2> HIDE DEF r
  <2>2. r = s
    BY <2>1, SeqEqual
  <2>3. QED
    BY <2>2 DEF r
<1>5. ASSUME NEW j \in 0 .. Len(s) - 1
      PROVE  Append(SubSeq(s, 1, j), s[j + 1]) = SubSeq(s, 1, j + 1)
  <2> DEFINE r == SubSeq(s, 1, j)
             q == SubSeq(s, 1, j + 1)
             x == s[j + 1]
             u == Append(r, x)
  <2>1. j \in 0 .. Len(s) /\ j + 1 \in 0 .. Len(s) /\ x \in S /\ j + 1 \in 1 .. j + 1
    BY <1>1
  <2>2. r \in Seq(S) /\ Len(r) = j /\ \A i \in 1 .. j : r[i] = s[i]
    BY <1>2, <2>1
  <2>3. q \in Seq(S) /\ Len(q) = j + 1 /\ (\A i \in 1 .. j + 1 : q[i] = s[i]) /\ q[j + 1] = x
    BY <1>2, <2>1
  <2> HIDE DEF r, q, x
  <2>4. /\ u \in Seq(S) /\ Len(u) = j + 1 /\ u[j + 1] = x
        /\ \A i \in 1 .. j : u[i] = r[i]
    BY <2>1, <2>2, AppendFacts
  <2> HIDE DEF u
  <2>5. \A i \in 1 .. Len(u) : u[i] = q[i]
    <3> TAKE i \in 1 .. Len(u)
    <3>1. i \in 1 .. j + 1 /\ (i \in 1 .. j \/ i = j + 1)
      BY <2>1, <2>4
    <3>2. QED
      BY <2>2, <2>3, <2>4, <3>1
  <2>6. u = q
    BY <2>3, <2>4, <2>5, SeqEqual
  <2>7. QED
    BY <2>6 DEF u, r, q, x
<1>6. QED
  BY <1>3, <1>4, <1>5

\* A call is put together from its parts.
LEMMA CallParts ==
    ASSUME NEW c \in JasCalls
    PROVE  /\ c = CallOf(c.op, c.name, c.n, c.args, c.vars)
           /\ c.op = "function" => c = FunctionOf(c.name, c.args, c.vars)
           /\ c.op = "label" => c = NamedOf("label", c.name)
           /\ c.op \notin {"function", "constant"} => c.args = << >> /\ c.vars = << >>
           /\ c.op \in PlainOps \cup (ImmOps \ NameOps) => c.name = ""
           /\ c.op \in ImmOps => c.n \in I8_MIN .. I8_MAX
           /\ c.op \notin ImmOps /\ c.op # "constant" => c.n = 0
           /\ c.args \in Seq(STRING) /\ c.vars \in Seq(STRING)
<1>1. /\ c \in [op : STRING, name : STRING, n : INT32_MIN .. INT32_MAX, args : Seq(STRING), vars : Seq(STRING)]
      /\ c.op \in PlainOps \cup (ImmOps \ NameOps) => c.name = ""
      /\ c.op \in ImmOps => c.n \in I8_MIN .. I8_MAX
      /\ c.op \notin ImmOps \cup {"constant"} => c.n = 0
      /\ c.op # "function" => c.args = << >> /\ c.vars = << >>
  BY DEF JasCalls
<1>2. c = CallOf(c.op, c.name, c.n, c.args, c.vars)
  BY <1>1 DEF CallOf
<1>3. "function" \notin ImmOps \cup {"constant"} /\ "label" \notin ImmOps \cup {"constant"} /\ "label" # "function"
  BY DEF ImmOps
<1>4. QED
  BY <1>1, <1>2, <1>3 DEF FunctionOf, NamedOf

\* A function whose names are keywords is not readable.
LEMMA FunctionWords ==
    ASSUME NEW X, Layout(X), NEW i \in 1 .. Len(X.code), X.code[i].op = "function"
    PROVE  /\ \A j \in 1 .. Len(X.code[i].args) : X.code[i].args[j] \in keywords => ~ Fine(X)
           /\ \A j \in 1 .. Len(X.code[i].vars) : X.code[i].vars[j] \in keywords => ~ Fine(X)
           /\ X.code[i].name # "main" /\ X.code[i].name \in keywords => ~ Fine(X)
           /\ X.code[i].vars = << >> /\ FunctionAt(X, i + 1) => ~ Fine(X)
           /\ X.code[i].name = "main" /\ i # 1 => ~ Fine(X)
<1> DEFINE c == X.code[i]
<1>1. c.args \in Seq(STRING) /\ c.vars \in Seq(STRING)
  BY CallParts, LayoutFacts
<1>2. Fine(X) => /\ FunctionAt(X, i) => c.vars # << >> \/ ~ FunctionAt(X, i + 1)
                 /\ ToSet(c.args) \cap keywords = {} /\ ToSet(c.vars) \cap keywords = {}
                 /\ c.name \in keywords => c.name = "main"
                 /\ (c.op = "function" /\ c.name = "main") => i = 1
  BY DEF Fine
<1>3. FunctionAt(X, i)
  BY DEF FunctionAt
<1>4. c.op = "function"
  OBVIOUS
<1> HIDE DEF c
<1>5. (\A j \in 1 .. Len(c.args) : c.args[j] \in ToSet(c.args)) /\ (\A j \in 1 .. Len(c.vars) : c.vars[j] \in ToSet(c.vars))
  BY <1>1 DEF ToSet
<1>6. QED
  BY <1>2, <1>3, <1>4, <1>5 DEF c

\* What is noted in a function that is being read.
LEMMA CallsChanged ==
    ASSUME NEW o, NEW a, NEW b, NEW c, NEW d, NEW v
    PROVE  /\ CallOf(o, a, b, c, d).args = c /\ CallOf(o, a, b, c, d).vars = d
           /\ [CallOf(o, a, b, c, d) EXCEPT !.args = v] = CallOf(o, a, b, v, d)
           /\ [CallOf(o, a, b, c, d) EXCEPT !.vars = v] = CallOf(o, a, b, c, v)
           /\ [CallOf(o, a, b, c, d) EXCEPT !.name = v] = CallOf(o, v, b, c, d)
           /\ [CallOf(o, a, b, c, d) EXCEPT !.n = v] = CallOf(o, a, v, c, d)
<1>1. CallOf(o, a, b, c, d).args = c /\ CallOf(o, a, b, c, d).vars = d
  BY SMTT(60) DEF CallOf
<1>2. [CallOf(o, a, b, c, d) EXCEPT !.args = v] = CallOf(o, a, b, v, d)
  BY SMTT(60) DEF CallOf
<1>3. [CallOf(o, a, b, c, d) EXCEPT !.vars = v] = CallOf(o, a, b, c, v)
  BY SMTT(60) DEF CallOf
<1>4. [CallOf(o, a, b, c, d) EXCEPT !.name = v] = CallOf(o, v, b, c, d)
  BY SMTT(60) DEF CallOf
<1>5. [CallOf(o, a, b, c, d) EXCEPT !.n = v] = CallOf(o, a, v, c, d)
  BY SMTT(60) DEF CallOf
<1>6. QED
  BY <1>1, <1>2, <1>3, <1>4, <1>5

\* One more argument, one more variable.
LEMMA FunctionGrows ==
    ASSUME NEW a, NEW c, NEW d, NEW v
    PROVE  /\ \A f : f = FunctionOf(a, c, d) =>
                        [f EXCEPT !.args = Append(f.args, v)] = FunctionOf(a, Append(c, v), d)
           /\ \A f : f = FunctionOf(a, c, d) =>
                        [f EXCEPT !.vars = Append(f.vars, v)] = FunctionOf(a, c, Append(d, v))
<1> DEFINE o == "function"
           b == 0
           c1 == Append(c, v)
           d1 == Append(d, v)
<1>1. /\ FunctionOf(a, c, d) = CallOf(o, a, b, c, d)
      /\ FunctionOf(a, c1, d) = CallOf(o, a, b, c1, d)
      /\ FunctionOf(a, c, d1) = CallOf(o, a, b, c, d1)
  BY DEF FunctionOf
<1> HIDE DEF o, b
<1>2. CallOf(o, a, b, c, d).args = c /\ CallOf(o, a, b, c, d).vars = d
  BY CallsChanged
<1> HIDE DEF c1, d1
<1>3. /\ [CallOf(o, a, b, c, d) EXCEPT !.args = c1] = CallOf(o, a, b, c1, d)
      /\ [CallOf(o, a, b, c, d) EXCEPT !.vars = d1] = CallOf(o, a, b, c, d1)
  BY CallsChanged
<1>4. ASSUME NEW f, f = FunctionOf(a, c, d)
      PROVE  /\ [f EXCEPT !.args = Append(f.args, v)] = FunctionOf(a, c1, d)
             /\ [f EXCEPT !.vars = Append(f.vars, v)] = FunctionOf(a, c, d1)
  <2>1. f = CallOf(o, a, b, c, d)
    BY <1>1, <1>4
  <2>2. f.args = c /\ f.vars = d
    BY <1>2, <2>1
  <2>3. Append(f.args, v) = c1 /\ Append(f.vars, v) = d1
    BY <2>2 DEF c1, d1
  <2>4. [f EXCEPT !.args = c1] = FunctionOf(a, c1, d) /\ [f EXCEPT !.vars = d1] = FunctionOf(a, c, d1)
    BY <1>1, <1>3, <2>1
  <2>5. QED
    BY <2>3, <2>4
<1>5. QED
  BY <1>4 DEF c1, d1

\* With all of them it is the function that was written.
LEMMA WithAll ==
    ASSUME NEW X, Layout(X), NEW i \in 1 .. Len(X.code), X.code[i].op = "function"
    PROVE  /\ WithArgs(X, i, 0) = FunctionOf(X.code[i].name, << >>, << >>)
           /\ WithArgs(X, i, Len(X.code[i].args)) = WithVars(X, i, 0)
           /\ WithVars(X, i, Len(X.code[i].vars)) = X.code[i]
           /\ X.code[i].args = << >> => WithArgs(X, i, 0) = WithVars(X, i, 0)
           /\ X.code[i].vars = << >> => WithVars(X, i, 0) = X.code[i]
           /\ \A j \in 0 .. Len(X.code[i].args) - 1 :
                 [WithArgs(X, i, j) EXCEPT !.args = Append(WithArgs(X, i, j).args, X.code[i].args[j + 1])] = WithArgs(X, i, j + 1)
           /\ \A j \in 0 .. Len(X.code[i].vars) - 1 :
                 [WithVars(X, i, j) EXCEPT !.vars = Append(WithVars(X, i, j).vars, X.code[i].vars[j + 1])] = WithVars(X, i, j + 1)
<1> DEFINE c == X.code[i]
<1>1. c.args \in Seq(STRING) /\ c.vars \in Seq(STRING) /\ c = FunctionOf(c.name, c.args, c.vars)
  BY CallParts, LayoutFacts
<1>2. (\A j : WithArgs(X, i, j) = FunctionOf(c.name, SubSeq(c.args, 1, j), << >>))
      /\ (\A j : WithVars(X, i, j) = FunctionOf(c.name, c.args, SubSeq(c.vars, 1, j)))
  BY DEF WithArgs, WithVars
<1> HIDE DEF c
<1>3. /\ SubSeq(c.args, 1, 0) = << >> /\ SubSeq(c.args, 1, Len(c.args)) = c.args
      /\ \A j \in 0 .. Len(c.args) - 1 : Append(SubSeq(c.args, 1, j), c.args[j + 1]) = SubSeq(c.args, 1, j + 1)
  BY <1>1, PrefixGrows
<1>4. /\ SubSeq(c.vars, 1, 0) = << >> /\ SubSeq(c.vars, 1, Len(c.vars)) = c.vars
      /\ \A j \in 0 .. Len(c.vars) - 1 : Append(SubSeq(c.vars, 1, j), c.vars[j + 1]) = SubSeq(c.vars, 1, j + 1)
  BY <1>1, PrefixGrows
<1>6. ASSUME NEW j \in 0 .. Len(c.args) - 1
      PROVE  [WithArgs(X, i, j) EXCEPT !.args = Append(WithArgs(X, i, j).args, c.args[j + 1])] = WithArgs(X, i, j + 1)
  <2> DEFINE s == SubSeq(c.args, 1, j)
             e == << >>
             x == c.args[j + 1]
             a == c.name
             f == WithArgs(X, i, j)
             g == WithArgs(X, i, j + 1)
  <2>1. f = FunctionOf(a, s, e) /\ g = FunctionOf(a, SubSeq(c.args, 1, j + 1), e)
    BY <1>2
  <2>2. Append(s, x) = SubSeq(c.args, 1, j + 1)
    BY <1>3
  <2> HIDE DEF s, e, x, a, f, g
  <2>3. [f EXCEPT !.args = Append(f.args, x)] = FunctionOf(a, Append(s, x), e)
    BY <2>1, FunctionGrows
  <2>4. [f EXCEPT !.args = Append(f.args, x)] = g
    BY <2>1, <2>2, <2>3
  <2>5. QED
    BY <2>4 DEF x, f, g
<1>7. ASSUME NEW j \in 0 .. Len(c.vars) - 1
      PROVE  [WithVars(X, i, j) EXCEPT !.vars = Append(WithVars(X, i, j).vars, c.vars[j + 1])] = WithVars(X, i, j + 1)
  <2> DEFINE s == SubSeq(c.vars, 1, j)
             e == c.args
             x == c.vars[j + 1]
             a == c.name
             f == WithVars(X, i, j)
             g == WithVars(X, i, j + 1)
  <2>1. f = FunctionOf(a, e, s) /\ g = FunctionOf(a, e, SubSeq(c.vars, 1, j + 1))
    BY <1>2
  <2>2. Append(s, x) = SubSeq(c.vars, 1, j + 1)
    BY <1>4
  <2> HIDE DEF s, e, x, a, f, g
  <2>3. [f EXCEPT !.vars = Append(f.vars, x)] = FunctionOf(a, e, Append(s, x))
    BY <2>1, FunctionGrows
  <2>4. [f EXCEPT !.vars = Append(f.vars, x)] = g
    BY <2>1, <2>2, <2>3
  <2>5. QED
    BY <2>4 DEF x, f, g
<1>8. /\ WithArgs(X, i, 0) = FunctionOf(c.name, << >>, << >>)
      /\ WithArgs(X, i, Len(c.args)) = WithVars(X, i, 0)
      /\ WithVars(X, i, Len(c.vars)) = c
  BY <1>1, <1>2, <1>3, <1>4
<1>9. (c.args = << >> => WithArgs(X, i, 0) = WithVars(X, i, 0)) /\ (c.vars = << >> => WithVars(X, i, 0) = c)
  <2>1. (c.args = << >> => Len(c.args) = 0) /\ (c.vars = << >> => Len(c.vars) = 0)
    OBVIOUS
  <2>2. QED
    BY <1>8, <2>1
<1>10. QED
  BY <1>6, <1>7, <1>8, <1>9 DEF c

\* The parts of a state.
LEMMA StateParts ==
    \A p, b, k : State(p, b, k).p = p /\ State(p, b, k).b = b /\ State(p, b, k).k = k
  BY DEF State

\* What is written between the braces of a function.
LEMMA ArgsText ==
    ASSUME NEW X, Layout(X), NEW i \in 1 .. Len(X.code), Named(X, i)
    PROVE  LET f == X.code[i]
               p == X.pos[i] + 8
               m == Len(f.args)
               n == Len(Listed(f.args))
           IN  /\ f.args \in Seq(STRING) /\ m \in Nat /\ p \in Nat /\ n \in Nat
               /\ p + n + 1 <= Len(X.text) /\ X.text[p + n + 1] = BracesClose
               /\ n = IF f.args = << >> THEN 0 ELSE 2 * m - 1
               /\ \A j \in 1 .. m : X.text[p + 2 * j - 1] = Word(f.args[j])
               /\ \A j \in 1 .. m - 1 : X.text[p + 2 * j] = Comma
<1> DEFINE f == X.code[i]
           p == X.pos[i] + 8
           m == Len(f.args)
           w == Listed(f.args)
           n == Len(w)
           t == X.text
<1>1. f \in JasCalls /\ X.pos[i] \in Nat /\ t \in Seq(JasTokens)
  <2>1. i \in 1 .. Len(X.code) + 1
    BY LayoutFacts
  <2>2. QED
    BY <2>1, LayoutFacts
<1>2. f.args \in Seq(STRING)
  BY <1>1, CallParts
<1>3. /\ n = IF f.args = << >> THEN 0 ELSE 2 * m - 1
      /\ \A j \in 1 .. m : 2 * j - 1 \in 1 .. n /\ w[2 * j - 1] = Word(f.args[j])
      /\ \A j \in 1 .. m - 1 : 2 * j \in 1 .. n /\ w[2 * j] = Comma
  BY <1>2, ListedType
<1>4. /\ n \in Nat /\ X.pos[i] + 9 + n <= Len(t)
      /\ At(t, p, w) /\ t[X.pos[i] + 9 + n] = BracesClose
  BY FunctionText DEF Named
<1>5. X.pos[i] + 9 + n = p + n + 1 /\ p \in Nat
  BY <1>1, <1>4
<1>6. m \in Nat
  BY <1>2
<1>7. \A k \in 1 .. n : t[p + k] = w[k]
  BY <1>4 DEF At
<1> HIDE DEF p, m, w, n, t, f
<1>8. ASSUME NEW j \in 1 .. m
      PROVE  t[p + 2 * j - 1] = Word(f.args[j])
  <2>1. p + (2 * j - 1) = p + 2 * j - 1
    BY <1>5, <1>6
  <2>2. t[p + (2 * j - 1)] = w[2 * j - 1]
    BY <1>3, <1>7
  <2>3. QED
    BY <1>3, <2>1, <2>2
<1>9. ASSUME NEW j \in 1 .. m - 1
      PROVE  t[p + 2 * j] = Comma
  BY <1>3, <1>7
<1>10. QED
  BY <1>2, <1>3, <1>4, <1>5, <1>6, <1>8, <1>9 DEF p, m, w, n, t, f

\* The arguments behind the first one.
LEMMA MoreArgsRule ==
    ASSUME NEW X, Layout(X), NEW a, NEW z, RuledMoreArgs(X, a, z), a.p < Len(X.text)
    PROVE  Path(X, Rule("more_args", X.text[a.p + 1]), a, z)
<1>1. PICK i \in 1 .. Len(X.code) : \E j \in 1 .. Len(X.code[i].args) :
         /\ Named(X, i)
         /\ a = State(X.pos[i] + 8 + 2 * j - 1, <<WithArgs(X, i, j)>>, Len(X.consts) + i - 1)
         /\ z = State(X.pos[i] + 8 + Len(Listed(X.code[i].args)), <<WithVars(X, i, 0)>>, Len(X.consts) + i - 1)
  BY DEF RuledMoreArgs
<1> DEFINE f == X.code[i]
           p == X.pos[i] + 8
           m == Len(f.args)
           n == Len(Listed(f.args))
           k == Len(X.consts) + i - 1
           t == X.text
<1>2. PICK j \in 1 .. m : /\ Named(X, i)
                          /\ a = State(p + 2 * j - 1, <<WithArgs(X, i, j)>>, k)
                          /\ z = State(p + n, <<WithVars(X, i, 0)>>, k)
  BY <1>1
<1>3. /\ f.args \in Seq(STRING) /\ m \in Nat /\ p \in Nat /\ n \in Nat
      /\ p + n + 1 <= Len(t) /\ t[p + n + 1] = BracesClose
      /\ n = IF f.args = << >> THEN 0 ELSE 2 * m - 1
      /\ \A o \in 1 .. m : t[p + 2 * o - 1] = Word(f.args[o])
      /\ \A o \in 1 .. m - 1 : t[p + 2 * o] = Comma
  BY <1>2, ArgsText
<1>4. f.op = "function"
  BY <1>2 DEF Named
<1>5. m > 0 /\ f.args # << >> /\ n = 2 * m - 1 /\ Len(t) \in Nat
  <2>1. f.args = << >> => m = 0
    OBVIOUS
  <2>2. QED
    BY <1>3, <2>1, LayoutFacts
<1> HIDE DEF n
<1>6. a.p = p + 2 * j - 1 /\ a.p + 1 = p + 2 * j /\ a.p \in Nat
  <2>1. a.p = p + 2 * j - 1
    BY <1>2, StateParts
  <2>2. QED
    BY <1>3, <2>1
<1>7. CASE j = m
  <2>1. t[a.p + 1] = BracesClose
    <3>1. a.p + 1 = p + n + 1
      BY <1>3, <1>5, <1>6, <1>7
    <3>2. QED
      BY <1>3, <3>1
  <2>2. Rule("more_args", t[a.p + 1]) = << >>
    BY <2>1, MarkKinds DEF Rule, more_args
  <2>3. a = z
    <3>1. WithArgs(X, i, j) = WithVars(X, i, 0)
      BY <1>4, <1>7, WithAll
    <3>2. p + 2 * j - 1 = p + n
      BY <1>3, <1>5, <1>7
    <3>3. QED
      BY <1>2, <3>1, <3>2
  <2>4. QED
    BY <2>2, <2>3, PathEmpty
<1>8. CASE j # m
  <2> DEFINE w == f.args[j + 1]
             c == WithArgs(X, i, j)
             d == WithArgs(X, i, j + 1)
             q == p + 2 * j
             y == State(q + 1, <<c, Ident(w)>>, k)
             v == State(q + 1, <<d>>, k)
  <2>1. j \in 1 .. m - 1 /\ j + 1 \in 1 .. m /\ j \in 0 .. m - 1 /\ q \in Nat /\ q = a.p + 1 /\ q + 1 = p + 2 * (j + 1) - 1
    <3>1. m \in Nat /\ p \in Nat /\ j \in 1 .. m /\ j # m
      BY <1>3, <1>8
    <3> HIDE DEF m, p
    <3>2. j \in 1 .. m - 1 /\ j + 1 \in 1 .. m /\ j \in 0 .. m - 1 /\ j \in Nat
      BY <3>1
    <3>3. QED
      BY <1>6, <3>1, <3>2
  <2>2. t[a.p + 1] = Comma
    BY <1>3, <1>6, <2>1
  <2>3. Rule("more_args", t[a.p + 1]) = <<Discard, parse_identifier, Make("arg"), Call("more_args")>>
    BY <2>2, MarkKinds DEF Rule, more_args
  <2>4. t[q + 1] = Word(w)
    BY <1>3, <2>1
  <2>5. q < Len(t) /\ q + 1 < Len(t)
    <3>1. m \in Nat /\ p \in Nat /\ n \in Nat /\ p + n + 1 <= Len(t)
      BY <1>3
    <3>2. j \in 1 .. m - 1 /\ n = 2 * m - 1 /\ Len(t) \in Nat
      BY <1>5, <2>1
    <3> HIDE DEF m, p, t
    <3>3. QED
      BY <3>1, <3>2
  <2>6. Does(X, Discard, a, State(q, <<c>>, k))
    <3>1. <<c>> \in Seq({c})
      OBVIOUS
    <3>2. a = State(a.p, <<c>>, k)
      BY <1>2, <1>6
    <3>3. QED
      BY <1>6, <2>1, <3>1, <3>2, TokenSteps
  <2>7. w \in keywords => ~ Fine(X)
    BY <1>4, <2>1, FunctionWords
  <2>8. [c EXCEPT !.args = Append(c.args, w)] = d
    <3>1. \A o \in 0 .. m - 1 :
             [WithArgs(X, i, o) EXCEPT !.args = Append(WithArgs(X, i, o).args, f.args[o + 1])] = WithArgs(X, i, o + 1)
      BY <1>4, WithAll
    <3>2. QED
      BY <2>1, <3>1
  <2> HIDE DEF w, q, c, d
  <2>9. Does(X, parse_identifier, State(q, <<c>>, k), y)
    BY <2>1, <2>4, <2>5, <2>7, WordSteps
  <2>10. Does(X, Make("arg"), y, v)
    <3>1. y.b = <<c, Ident(w)>> /\ y.p = q + 1 /\ y.k = k
      BY StateParts
    <3>2. v = State(y.p, <<[c EXCEPT !.args = Append(c.args, w)]>>, y.k)
      BY <2>8, <3>1
    <3> HIDE DEF y, v
    <3>3. Made(X, "arg", y, v)
      BY <3>1, <3>2 DEF Made
    <3>4. QED
      BY <3>3, MakeStep
  <2>11. Does(X, Call("more_args"), v, z)
    <3>1. v = State(p + 2 * (j + 1) - 1, <<d>>, k)
      BY <2>1
    <3>2. RuledMoreArgs(X, v, z)
      BY <1>2, <2>1, <3>1 DEF RuledMoreArgs, d, n
    <3>3. Ruled(X, "more_args", v, z)
      BY <3>2 DEF Ruled
    <3>4. q + 1 \in Nat
      BY <2>1
    <3>5. QED
      BY <2>5, <3>3, <3>4, CallStep
  <2>12. QED
    BY <2>3, <2>6, <2>9, <2>10, <2>11, Path4
<1>9. QED
  BY <1>7, <1>8

\* The arguments of a function.
LEMMA ArgsRule ==
    ASSUME NEW X, Layout(X), NEW a, NEW z, RuledArgs(X, a, z), a.p < Len(X.text)
    PROVE  Path(X, Rule("args", X.text[a.p + 1]), a, z)
<1>1. CASE X.text[a.p + 1].type # "Identifier" /\ z = a
  <2>1. Rule("args", X.text[a.p + 1]) = << >>
    BY <1>1 DEF Rule, parse_args
  <2>2. QED
    BY <1>1, <2>1, PathEmpty
<1>2. ASSUME NEW i \in 1 .. Len(X.code),
             Named(X, i), X.code[i].args # << >>, X.code[i].args[1] \notin keywords,
             a = State(X.pos[i] + 8, <<WithArgs(X, i, 0)>>, Len(X.consts) + i - 1),
             z = State(X.pos[i] + 8 + Len(Listed(X.code[i].args)), <<WithVars(X, i, 0)>>, Len(X.consts) + i - 1)
      PROVE  Path(X, Rule("args", X.text[a.p + 1]), a, z)
  <2> DEFINE f == X.code[i]
             p == X.pos[i] + 8
             m == Len(f.args)
             n == Len(Listed(f.args))
             k == Len(X.consts) + i - 1
             t == X.text
             w == f.args[1]
             c == WithArgs(X, i, 0)
             d == WithArgs(X, i, 1)
             y == State(p + 1, <<c, Ident(w)>>, k)
             v == State(p + 1, <<d>>, k)
  <2>1. /\ f.args \in Seq(STRING) /\ m \in Nat /\ p \in Nat /\ n \in Nat
        /\ p + n + 1 <= Len(t)
        /\ n = IF f.args = << >> THEN 0 ELSE 2 * m - 1
        /\ \A o \in 1 .. m : t[p + 2 * o - 1] = Word(f.args[o])
    BY <1>2, ArgsText
  <2>2. f.op = "function"
    BY <1>2 DEF Named
  <2>3. m > 0 /\ n = 2 * m - 1 /\ Len(t) \in Nat
    <3>1. f.args # << >> => m # 0
      BY <2>1
    <3>2. QED
      BY <1>2, <2>1, <3>1, LayoutFacts
  <2> HIDE DEF n
  <2>4. 1 \in 1 .. m /\ 0 \in 0 .. m - 1 /\ 0 + 1 = 1 /\ p + 2 * 1 - 1 = p + 1
    BY <2>1, <2>3
  <2>5. t[p + 1] = Word(w)
    BY <2>1, <2>4
  <2>6. p < Len(t) /\ p + 1 < Len(t)
    <3>1. m \in Nat /\ p \in Nat /\ n \in Nat /\ p + n + 1 <= Len(t)
      BY <2>1
    <3> HIDE DEF m, p, t
    <3>2. QED
      BY <2>3, <3>1
  <2>7. a.p = p
    BY <1>2, StateParts
  <2>8. t[a.p + 1].type = "Identifier"
    BY <1>2, <2>5, <2>7 DEF Word, Identifier, Token
  <2>9. Rule("args", t[a.p + 1]) = <<parse_identifier, Make("arg"), Call("more_args")>>
    BY <2>8 DEF Rule, parse_args
  <2>10. [c EXCEPT !.args = Append(c.args, w)] = d
    <3>1. \A o \in 0 .. m - 1 :
             [WithArgs(X, i, o) EXCEPT !.args = Append(WithArgs(X, i, o).args, f.args[o + 1])] = WithArgs(X, i, o + 1)
      BY <2>2, WithAll
    <3>2. QED
      BY <2>4, <3>1
  <2>11. w \notin keywords
    BY <1>2
  <2> HIDE DEF w, c, d
  <2>12. Does(X, parse_identifier, a, y)
    BY <1>2, <2>1, <2>5, <2>6, <2>11, WordSteps DEF c
  <2>13. Does(X, Make("arg"), y, v)
    <3>1. y.b = <<c, Ident(w)>> /\ y.p = p + 1 /\ y.k = k
      BY StateParts
    <3>2. v = State(y.p, <<[c EXCEPT !.args = Append(c.args, w)]>>, y.k)
      BY <2>10, <3>1
    <3> HIDE DEF y, v
    <3>3. Made(X, "arg", y, v)
      BY <3>1, <3>2 DEF Made
    <3>4. QED
      BY <3>3, MakeStep
  <2>14. Does(X, Call("more_args"), v, z)
    <3>1. v = State(p + 2 * 1 - 1, <<WithArgs(X, i, 1)>>, k)
      BY <2>4 DEF d
    <3>2. RuledMoreArgs(X, v, z)
      BY <1>2, <2>4, <3>1 DEF RuledMoreArgs, n
    <3>3. Ruled(X, "more_args", v, z)
      BY <3>2 DEF Ruled
    <3>4. p + 1 \in Nat
      BY <2>1
    <3>5. QED
      BY <2>6, <3>3, <3>4, CallStep
  <2>15. QED
    BY <2>9, <2>12, <2>13, <2>14, Path3
<1>3. QED
  BY <1>1, <1>2 DEF RuledArgs

\* Where the variables of a function are.
LEMMA VarsText ==
    ASSUME NEW X, Layout(X), NEW i \in 1 .. Len(X.code), X.code[i].op = "function"
    PROVE  LET f == X.code[i]
               v == VarStart(X, i)
               n == Len(f.vars)
           IN  /\ v \in Nat /\ n \in Nat /\ Len(X.text) \in Nat
               /\ f.vars = << >> => n = 0 /\ X.pos[i + 1] = v
               /\ f.vars # << >> =>
                     /\ n > 0 /\ X.pos[i + 1] = v + 2 + n + 4 /\ v + 2 + n + 4 <= Len(X.text)
                     /\ X.text[v + 1] = Period /\ X.text[v + 2] = Keyword("var")
                     /\ \A j \in 1 .. n : X.text[v + 2 + j] = Word(f.vars[j])
                     /\ At(X.text, v + 2 + n, Ending("var"))
<1> DEFINE f == X.code[i]
           v == VarStart(X, i)
           n == Len(f.vars)
           d == declared(f)
           t == X.text
<1>1. f \in JasCalls /\ t \in Seq(JasTokens) /\ Len(t) \in Nat
  BY LayoutFacts
<1>2. v \in Nat /\ At(t, v, d) /\ X.pos[i + 1] = v + Len(d)
  BY FunctionText
<1>3. f.vars = << >> => n = 0
  OBVIOUS
<1>4. /\ n \in Nat
      /\ f.vars = << >> => Len(d) = 0
      /\ f.vars # << >> =>
            /\ n > 0 /\ Len(d) = n + 6 /\ v + n + 6 <= Len(t)
            /\ t[v + 1] = Period /\ t[v + 2] = Keyword("var")
            /\ \A j \in 1 .. n : t[v + 2 + j] = Word(f.vars[j])
            /\ At(t, v + 2 + n, Ending("var"))
  BY <1>1, <1>2, DeclaredText
<1> HIDE DEF v, n, d, t
<1>5. v + 2 + n + 4 = v + n + 6 /\ v + (n + 6) = v + n + 6 /\ v + 0 = v
  BY <1>2, <1>4
<1>6. QED
  BY <1>1, <1>2, <1>3, <1>4, <1>5 DEF v, n, d, t

\* The names of the variables, up to their end.
LEMMA VarNamesRule ==
    ASSUME NEW X, Layout(X), NEW a, NEW z, RuledVarNames(X, a, z), a.p < Len(X.text)
    PROVE  Path(X, Rule("var_names", X.text[a.p + 1]), a, z)
<1>1. PICK i \in 1 .. Len(X.code) : \E j \in 0 .. Len(X.code[i].vars) :
         /\ X.code[i].op = "function" /\ X.code[i].vars # << >>
         /\ a = State(VarStart(X, i) + 2 + j, <<WithVars(X, i, j)>>, Len(X.consts) + i - 1)
         /\ z = State(X.pos[i + 1], <<X.code[i]>>, Len(X.consts) + i - 1)
  BY DEF RuledVarNames
<1> DEFINE f == X.code[i]
           s == VarStart(X, i)
           n == Len(f.vars)
           k == Len(X.consts) + i - 1
           t == X.text
<1>2. PICK j \in 0 .. n : /\ f.op = "function" /\ f.vars # << >>
                          /\ a = State(s + 2 + j, <<WithVars(X, i, j)>>, k)
                          /\ z = State(X.pos[i + 1], <<f>>, k)
  BY <1>1
<1>3. /\ s \in Nat /\ n \in Nat /\ Len(t) \in Nat /\ n > 0
      /\ X.pos[i + 1] = s + 2 + n + 4 /\ s + 2 + n + 4 <= Len(t)
  BY <1>2, VarsText
<1>4. /\ \A o \in 1 .. n : t[s + 2 + o] = Word(f.vars[o])
      /\ At(t, s + 2 + n, Ending("var"))
  BY <1>2, VarsText
<1>5. a.p = s + 2 + j /\ a.p \in Nat
  <2>1. a.p = s + 2 + j
    BY <1>2, StateParts
  <2> HIDE DEF s, n
  <2>2. QED
    BY <1>3, <2>1
<1>6. t \in Seq(JasTokens)
  BY LayoutFacts
<1>7. CASE j = n
  <2>1. t[a.p + 1].type = "Period"
    <3>1. Ending("var")[1] = Period /\ Len(Ending("var")) = 4
      <4> DEFINE b == Keyword("end")
                 c == Operator("-")
                 d == Keyword("var")
      <4>1. Ending("var") = <<Period, b, c, d>>
        BY DEF Ending
      <4> HIDE DEF b, c, d
      <4>2. QED
        BY <4>1
    <3>2. t[(s + 2 + n) + 1] = Period
      BY <1>4, <3>1 DEF At
    <3>3. QED
      BY <1>5, <1>7, <3>2, MarkKinds
  <2>2. Rule("var_names", t[a.p + 1]) = parse_end("var")
    BY <2>1 DEF Rule, parse_vars
  <2>3. Path(X, parse_end("var"), State(s + 2 + n, <<f>>, k), State((s + 2 + n) + 4, <<f>>, k))
    <3>1. "var" \in keywords
      BY DEF keywords
    <3>2. <<f>> \in Seq({f})
      OBVIOUS
    <3>3. QED
      BY <1>4, <1>6, <3>1, <3>2, EndPath
  <2>4. WithVars(X, i, n) = f
    BY <1>2, WithAll
  <2>5. a = State(s + 2 + n, <<f>>, k) /\ z = State((s + 2 + n) + 4, <<f>>, k)
    BY <1>2, <1>3, <1>7, <2>4
  <2>6. QED
    BY <2>2, <2>3, <2>5
<1>8. CASE j # n
  <2> DEFINE w == f.vars[j + 1]
             c == WithVars(X, i, j)
             d == WithVars(X, i, j + 1)
             q == s + 2 + j
             y == State(q + 1, <<c, Ident(w)>>, k)
             v == State(q + 1, <<d>>, k)
  <2>1. /\ j + 1 \in 1 .. n /\ j \in 0 .. n - 1 /\ j + 1 \in 0 .. n /\ q \in Nat /\ q = a.p
        /\ q + 1 = s + 2 + (j + 1) /\ q < Len(t) /\ q + 1 < Len(t)
    <3>1. n \in Nat /\ s \in Nat /\ j \in 0 .. n /\ j # n /\ s + 2 + n + 4 <= Len(t) /\ Len(t) \in Nat
      BY <1>3, <1>8
    <3> HIDE DEF s, n, t
    <3>2. QED
      BY <1>5, <3>1
  <2>2. t[q + 1] = Word(w)
    BY <1>4, <2>1
  <2>3. w \in keywords => ~ Fine(X)
    BY <1>2, <2>1, FunctionWords
  <2>4. [c EXCEPT !.vars = Append(c.vars, w)] = d
    <3>1. \A o \in 0 .. n - 1 :
             [WithVars(X, i, o) EXCEPT !.vars = Append(WithVars(X, i, o).vars, f.vars[o + 1])] = WithVars(X, i, o + 1)
      BY <1>2, WithAll
    <3>2. QED
      BY <2>1, <3>1
  <2>5. a = State(q, <<c>>, k)
    BY <1>2
  <2> HIDE DEF w, q, c, d
  <2>6. CASE w \in keywords
    <3>1. t[a.p + 1].type = "Keyword"
      BY <2>1, <2>2, <2>6 DEF Word, Keyword, Token
    <3>2. Rule("var_names", t[a.p + 1]) = parse_end("var")
      BY <3>1 DEF Rule, parse_vars
    <3>3. <<c>> \in Seq({c})
      OBVIOUS
    <3>4. t[q + 1].type # "Period"
      BY <2>1, <3>1
    <3>5. Path(X, parse_end("var"), State(q, <<c>>, k), z)
      BY <1>3, <2>1, <2>3, <2>6, <3>3, <3>4, EndFails
    <3>6. QED
      BY <2>5, <3>2, <3>5
  <2>7. CASE w \notin keywords
    <3>1. t[a.p + 1].type = "Identifier"
      BY <2>1, <2>2, <2>7 DEF Word, Identifier, Token
    <3>2. Rule("var_names", t[a.p + 1]) = <<parse_identifier, Make("var"), Call("var_names")>>
      BY <3>1 DEF Rule, parse_vars
    <3>3. Does(X, parse_identifier, a, y)
      BY <2>1, <2>2, <2>3, <2>5, WordSteps
    <3>4. Does(X, Make("var"), y, v)
      <4>1. y.b = <<c, Ident(w)>> /\ y.p = q + 1 /\ y.k = k
        BY StateParts
      <4>2. v = State(y.p, <<[c EXCEPT !.vars = Append(c.vars, w)]>>, y.k)
        BY <2>4, <4>1
      <4> HIDE DEF y, v
      <4>3. Made(X, "var", y, v)
        BY <4>1, <4>2 DEF Made
      <4>4. QED
        BY <4>3, MakeStep
    <3>5. Does(X, Call("var_names"), v, z)
      <4>1. v = State(s + 2 + (j + 1), <<WithVars(X, i, j + 1)>>, k)
        BY <2>1 DEF d
      <4>2. RuledVarNames(X, v, z)
        BY <1>2, <2>1, <4>1 DEF RuledVarNames
      <4>3. Ruled(X, "var_names", v, z)
        BY <4>2 DEF Ruled
      <4>4. q + 1 \in Nat
        BY <2>1
      <4>5. QED
        BY <2>1, <4>3, <4>4, CallStep
    <3>6. QED
      BY <3>2, <3>3, <3>4, <3>5, Path3
  <2>8. QED
    BY <2>6, <2>7
<1>9. QED
  BY <1>7, <1>8

\* The variables of a function, when it has some.
LEMMA VarsRule ==
    ASSUME NEW X, Layout(X), NEW a, NEW z, RuledVars(X, a, z), a.p < Len(X.text)
    PROVE  Path(X, Rule("vars", X.text[a.p + 1]), a, z)
<1>1. PICK i \in 1 .. Len(X.code) :
         /\ X.code[i].op = "function"
         /\ a = State(VarStart(X, i), <<WithVars(X, i, 0)>>, Len(X.consts) + i - 1)
         /\ z = State(X.pos[i + 1], <<X.code[i]>>, Len(X.consts) + i - 1)
  BY DEF RuledVars
<1> DEFINE f == X.code[i]
           s == VarStart(X, i)
           n == Len(f.vars)
           k == Len(X.consts) + i - 1
           t == X.text
           c == WithVars(X, i, 0)
           y == State(s + 1, <<c>>, k)
<1>2. s \in Nat /\ n \in Nat /\ Len(t) \in Nat
  BY <1>1, VarsText
<1>3. a.p = s /\ <<c>> \in Seq({c})
  BY <1>1, StateParts
<1>4. ASSUME t[a.p + 1] = Period
      PROVE  /\ Does(X, Discard, a, y)
             /\ Rule("vars", t[a.p + 1]) = <<Discard, ExpectOne("Keyword", "var"), Call("var_names")>>
  <2>1. Rule("vars", t[a.p + 1]) = <<Discard, ExpectOne("Keyword", "var"), Call("var_names")>>
    BY <1>4, MarkKinds DEF Rule, parse_optional_vars
  <2>2. Does(X, Discard, State(s, <<c>>, k), y)
    BY <1>2, <1>3, TokenSteps
  <2>3. QED
    BY <1>1, <2>1, <2>2
<1>5. CASE f.vars # << >>
  <2>1. /\ n > 0 /\ s + 2 + n + 4 <= Len(t)
        /\ t[s + 1] = Period /\ t[s + 2] = Keyword("var")
    BY <1>1, <1>5, VarsText
  <2>2. s + 1 < Len(t) /\ s + 2 < Len(t) /\ s + 1 \in Nat /\ s + 2 \in Nat /\ (s + 1) + 1 = s + 2
    <3> HIDE DEF s, n, t
    <3>1. QED
      BY <1>2, <2>1
  <2>3. Does(X, ExpectOne("Keyword", "var"), y, State(s + 2, <<c>>, k))
    <3>1. t[(s + 1) + 1].type = "Keyword" /\ t[(s + 1) + 1].value = "var"
      BY <2>1, <2>2, MarkKinds
    <3> HIDE DEF s, t, c
    <3>2. Does(X, ExpectOne("Keyword", "var"), State(s + 1, <<c>>, k), State((s + 1) + 1, <<c>>, k))
      BY <1>3, <2>2, <3>1, TokenSteps DEF t
    <3>3. QED
      BY <2>2, <3>2
  <2>4. Does(X, Call("var_names"), State(s + 2, <<c>>, k), z)
    <3>1. State(s + 2, <<c>>, k) = State(s + 2 + 0, <<WithVars(X, i, 0)>>, k) /\ 0 \in 0 .. n
      BY <1>2
    <3>2. RuledVarNames(X, State(s + 2, <<c>>, k), z)
      BY <1>1, <1>5, <3>1 DEF RuledVarNames
    <3>3. Ruled(X, "var_names", State(s + 2, <<c>>, k), z)
      BY <3>2 DEF Ruled
    <3>4. QED
      BY <2>2, <3>3, CallStep
  <2>5. QED
    BY <1>3, <1>4, <2>1, <2>3, <2>4, Path3
<1>6. CASE f.vars = << >>
  <2>1. X.pos[i + 1] = s
    BY <1>1, <1>6, VarsText
  <2>2. a = z
    <3>1. WithVars(X, i, 0) = f
      BY <1>1, <1>6, WithAll
    <3>2. QED
      BY <1>1, <2>1, <3>1
  <2>3. i + 1 \in 1 .. Len(X.code) + 1 /\ Len(X.code) \in Nat
    BY LayoutFacts
  <2>4. CASE FunctionAt(X, i + 1)
    <3>1. ~ Fine(X)
      BY <1>1, <1>6, <2>4, FunctionWords
    <3>2. t[a.p + 1] = Period
      BY <1>3, <2>1, <2>3, <2>4, FirstToken
    <3>3. t[s + 2].value # "var"
      <4>1. CASE Resumes(X, i + 1)
        <5>1. At(t, s, Ending(written_for(X.code, i + 1)))
          BY <2>1, <2>3, <4>1, FirstToken
        <5> DEFINE b == Keyword("end")
                   g == Operator("-")
                   d == Keyword(written_for(X.code, i + 1))
        <5>2. At(t, s, <<Period, b, g, d>>)
          BY <5>1 DEF Ending
        <5> HIDE DEF b, g, d, t
        <5>3. t[s + 2] = b
          BY <5>2, AtTuples
        <5>4. QED
          BY <5>3, MarkKinds DEF b
      <4>2. CASE ~ Resumes(X, i + 1)
        <5>1. t[s + 2] = Keyword("main")
          BY <2>1, <2>3, <2>4, <4>2, FirstToken
        <5>2. QED
          BY <5>1, MarkKinds
      <4>3. QED
        BY <4>1, <4>2
    <3>4. Does(X, ExpectOne("Keyword", "var"), y, Dead)
      <4>1. s + 1 \in Nat /\ (s + 1) + 1 = s + 2
        BY <1>2
      <4>2. t[(s + 1) + 1].value # "var"
        BY <3>3, <4>1
      <4>3. QED
        BY <3>1, <4>1, <4>2, WrongTokens
    <3>5. Does(X, Call("var_names"), Dead, z)
      BY DeadSteps
    <3>6. QED
      BY <1>4, <3>2, <3>4, <3>5, Path3
  <2>5. CASE ~ FunctionAt(X, i + 1)
    <3>1. PICK w : t[s + 1] = Word(w)
      BY <2>1, <2>3, <2>5, FirstToken
    <3>2. t[a.p + 1].type # "Period"
      <4>1. t[a.p + 1].type \in {"Keyword", "Identifier"}
        BY <1>3, <3>1, MarkKinds
      <4>2. QED
        BY <4>1
    <3>3. Rule("vars", t[a.p + 1]) = << >>
      BY <3>2 DEF Rule, parse_optional_vars
    <3>4. QED
      BY <2>2, <3>3, PathEmpty
  <2>6. QED
    BY <2>4, <2>5
<1>7. QED
  BY <1>5, <1>6

\* The next call of the writer is the next one of the reader.
LEMMA HeardCode ==
    ASSUME NEW X, Layout(X), NEW i \in 1 .. Len(X.code)
    PROVE  /\ Heard(X, X.code[i], Len(X.consts) + i - 1, Len(X.consts) + (i + 1) - 1)
           /\ (X.consts \o X.code)[Len(X.consts) + i] = X.code[i]
<1>1. Len(X.code) \in Nat /\ Len(X.consts) \in Nat /\ X.code \in Seq(JasCalls)
  BY LayoutFacts
<1>2. PICK S : X.consts \in Seq(S)
  BY DEF Layout, ConstantsLaid
<1> DEFINE s == X.consts
           t == X.code
           m == Len(s)
           n == Len(t)
<1>3. s \in Seq(S \cup JasCalls) /\ t \in Seq(S \cup JasCalls)
  BY <1>1, <1>2
<1> HIDE DEF s, t
<1>4. (s \o t)[m + i] = t[i]
  BY <1>3, ConcatProperties DEF t
<1>5. i \in 1 .. n /\ m \in Nat /\ n \in Nat
  BY <1>1 DEF s, t
<1> HIDE DEF m, n
<1>6. (m + i - 1) + 1 = m + i /\ m + i - 1 \in Nat /\ m + (i + 1) - 1 = (m + i - 1) + 1 /\ m + i - 1 < m + n
  BY <1>5
<1>7. QED
  BY <1>4, <1>6 DEF Heard, s, t, m, n

named_part(o)  == IF o \in NameOps THEN <<parse_identifier, Make("name")>> ELSE << >>
number_part(o) == IF o \in ImmOps THEN <<Call("immediate"), Make("immediate")>> ELSE << >>

\* The names of the instructions.
LEMMA OpWords ==
    /\ \A o \in ReadableOps \cup NameOps \cup ImmOps : o # "IF_ICMPEQ" /\ o # "GC" /\ o \in keywords
    /\ "IF_ICMPEQ" \in keywords /\ "GC" \in keywords /\ "IF_ICMPEQ" # "GC"
    /\ "ICMPEQ" \in NameOps /\ "ICMPEQ" \notin ImmOps /\ "IF_ICMPEQ" \notin ImmOps /\ "IF_ICMPEQ" \notin NameOps
    /\ PlainOps = ReadableOps \cup {"GC"}
    /\ "GC" \notin NameOps \cup ImmOps
    /\ \A o \in ReadableOps : o \notin NameOps \cup ImmOps
<1>1. \A o \in ReadableOps : o # "IF_ICMPEQ" /\ o # "GC" /\ o \notin NameOps \cup ImmOps
  BY DEF ReadableOps, NameOps, ImmOps
<1>2. \A o \in NameOps \cup ImmOps : o # "IF_ICMPEQ" /\ o # "GC"
  BY DEF NameOps, ImmOps
<1>3. "ICMPEQ" \in NameOps /\ "ICMPEQ" \notin ImmOps
  BY DEF NameOps, ImmOps
<1>4. PlainOps = ReadableOps \cup {"GC"}
  BY DEF PlainOps
<1>5. "IF_ICMPEQ" \in keywords /\ PlainOps \cup NameOps \cup ImmOps \subseteq keywords
  BY DEF keywords
<1>6. "IF_ICMPEQ" # "GC"
  OBVIOUS
<1>7. QED
  BY <1>1, <1>2, <1>3, <1>4, <1>5, <1>6

\* What parse_jas_op does for the name of an operation.
LEMMA OpItems ==
    ASSUME NEW t, NEW o, t.value = o \/ (o = "ICMPEQ" /\ t.value = "IF_ICMPEQ"),
           o \in ReadableOps \cup NameOps \cup ImmOps
    PROVE  Rule("op", t) = <<Discard, Push(PlainOf(o))>> \o named_part(o) \o number_part(o) \o <<Make("call")>>
<1>1. Rule("op", t) = parse_jas_op(t)
  BY DEF Rule
<1>2. CASE o = "ICMPEQ" /\ t.value = "IF_ICMPEQ"
  <2>1. t.value = "IF_ICMPEQ" /\ o \in NameOps /\ o \notin ImmOps /\ t.value \notin ImmOps
    BY <1>2, OpWords
  <2> DEFINE b == Push(PlainOf("ICMPEQ"))
             d == <<parse_identifier, Make("name")>>
             e == << >>
             f == <<Make("call")>>
  <2>2. parse_jas_op(t) = <<Discard, b>> \o d \o e \o f
    BY <2>1 DEF parse_jas_op
  <2>3. named_part(o) = d /\ number_part(o) = e /\ Push(PlainOf(o)) = b
    BY <1>2, <2>1 DEF named_part, number_part
  <2> HIDE DEF b, d, e, f
  <2>4. QED
    BY <1>1, <2>2, <2>3 DEF f
<1>3. CASE t.value = o
  <2>1. t.value = o /\ o # "IF_ICMPEQ"
    BY <1>3, OpWords
  <2>2. parse_jas_op(t) = <<Discard, Push(PlainOf(o))>>
           \o (IF o \in NameOps THEN <<parse_identifier, Make("name")>> ELSE << >>)
           \o (IF o \in ImmOps THEN <<Call("immediate"), Make("immediate")>> ELSE << >>)
           \o <<Make("call")>>
    BY <2>1 DEF parse_jas_op
  <2>3. QED
    BY <1>1, <2>2 DEF named_part, number_part
<1>4. QED
  BY <1>2, <1>3

\* What is read of an instruction.
LEMMA OpPath ==
    ASSUME NEW X, NEW o, NEW b, NEW a, NEW m1, NEW m2, NEW m3, NEW z,
           Path(X, <<Discard, b>>, a, m1), Path(X, named_part(o), m1, m2),
           Path(X, number_part(o), m2, m3), Does(X, Make("call"), m3, z)
    PROVE  Path(X, <<Discard, b>> \o named_part(o) \o number_part(o) \o <<Make("call")>>, a, z)
<1>1. Path(X, <<Discard, b>> \o named_part(o), a, m2)
  BY PathConcat
<1>2. Path(X, <<Discard, b>> \o named_part(o) \o number_part(o), a, m3)
  BY <1>1, PathConcat
<1>3. Path(X, <<Make("call")>>, m3, z)
  BY Path1
<1>4. QED
  BY <1>2, <1>3, PathConcat

\* Its name is discarded and noted.
LEMMA OpStart ==
    ASSUME NEW X, NEW p \in Nat, p < Len(X.text), NEW k, NEW x
    PROVE  Path(X, <<Discard, Push(x)>>, State(p, << >>, k), State(p + 1, <<x>>, k))
<1>1. << >> \in Seq({})
  OBVIOUS
<1>2. Does(X, Discard, State(p, << >>, k), State(p + 1, << >>, k))
  BY <1>1, TokenSteps
<1>3. Does(X, Push(x), State(p + 1, << >>, k), State(p + 1, <<x>>, k))
  BY PushStep
<1>4. QED
  BY <1>2, <1>3, Path2

\* A call that gets its name,
LEMMA CallNamed ==
    ASSUME NEW o, NEW a, NEW b, NEW c, NEW d, NEW v, NEW f, NEW g,
           f = CallOf(o, a, b, c, d), g = CallOf(o, v, b, c, d)
    PROVE  [f EXCEPT !.name = v] = g
  BY SMTT(60) DEF CallOf

\* and its number.
LEMMA CallNumbered ==
    ASSUME NEW o, NEW a, NEW b, NEW c, NEW d, NEW v, NEW f, NEW g,
           f = CallOf(o, a, b, c, d), g = CallOf(o, a, v, c, d)
    PROVE  [f EXCEPT !.n = v] = g
  BY SMTT(60) DEF CallOf

\* An instruction is read as it was written.
LEMMA InstructionRule ==
    ASSUME NEW X, Layout(X), NEW i \in 1 .. Len(X.code), Instr(X, i), NEW a, a = Before(X, i)
    PROVE  Path(X, Rule("op", X.text[a.p + 1]), a, Before(X, i + 1))
<1> DEFINE c == X.code[i]
           p == X.pos[i]
           q == NumberStart(X, i)
           t == X.text
           k == Len(X.consts) + i - 1
           o == c.op
           z == Before(X, i + 1)
<1>1. c \in JasCalls /\ t \in Seq(JasTokens) /\ Len(t) \in Nat
  BY LayoutFacts
<1>2. /\ p + 1 <= Len(t) /\ q \in Nat
      /\ t[p + 1] = Word(IF o = "ICMPEQ" THEN "IF_ICMPEQ" ELSE o)
      /\ o \in NameOps => p + 2 <= Len(t) /\ t[p + 2] = Word(c.name)
      /\ o \in ImmOps => /\ At(t, q, Signed(c.n))
                         /\ X.pos[i + 1] = q + Len(Signed(c.n))
      /\ o \notin ImmOps => X.pos[i + 1] = q
  BY InstructionText
<1>3. o \in PlainOps \cup NameOps \cup ImmOps
  BY DEF Instr
<1>4. p \in Nat /\ p < Len(t)
  <2>1. i \in 1 .. Len(X.code) + 1
    BY LayoutFacts
  <2>2. p \in Nat
    BY <2>1, LayoutFacts
  <2>3. QED
    BY <1>1, <1>2, <2>2
<1>5. a = State(p, << >>, k) /\ a.p = p
  BY StateParts DEF Before
<1>6. t[p + 1].value = (IF o = "ICMPEQ" THEN "IF_ICMPEQ" ELSE o)
  BY <1>2, MarkKinds
<1>7. CASE o = "GC"
  <2>1. ~ Fine(X)
    BY <1>7 DEF Fine
  <2>2. t[p + 1].value = "GC"
    BY <1>6, <1>7
  <2>3. Rule("op", t[p + 1]) = <<Fail>>
    BY <2>2, OpWords DEF Rule, parse_jas_op
  <2>4. Does(X, Fail, a, z)
    BY <2>1, FailStep
  <2>5. QED
    BY <1>5, <2>3, <2>4, Path1
<1>8. CASE o # "GC"
  <2>1. o \in ReadableOps \cup NameOps \cup ImmOps
    BY <1>3, <1>8, OpWords
  <2> DEFINE e == << >>
             nm == c.name
             v == c.n
             c0 == CallOf(o, "", 0, e, e)
             c1 == CallOf(o, nm, 0, e, e)
             c2 == CallOf(o, nm, v, e, e)
             y1 == State(p + 1, <<c0>>, k)
             y2 == State(q, <<c1>>, k)
             y3 == State(X.pos[i + 1], <<c2>>, k)
  <2>2. Path(X, <<Discard, Push(PlainOf(o))>>, a, y1)
    <3>1. PlainOf(o) = c0
      BY DEF PlainOf
    <3>2. QED
      BY <1>4, <1>5, <3>1, OpStart
  <2>3. c = c2 /\ (o \in PlainOps \cup (ImmOps \ NameOps) => nm = "") /\ (o \in ImmOps => v \in I8_MIN .. I8_MAX)
        /\ (o \notin ImmOps => v = 0)
    <3>1. o # "function" /\ o # "constant"
      <4>1. "function" \notin PlainOps \cup NameOps \cup ImmOps
        BY <1>1, CallKinds, LayoutFacts
      <4>2. QED
        BY <1>3, <4>1, LayoutFacts
    <3>2. c.args = e /\ c.vars = e
      BY <1>1, <3>1, CallParts
    <3>3. c = CallOf(o, nm, v, c.args, c.vars)
      BY <1>1, CallParts
    <3>4. c = c2
      BY <3>2, <3>3
    <3>5. QED
      BY <1>1, <3>1, <3>4, CallParts
  <2>4. Path(X, named_part(o), y1, y2)
    <3>1. CASE o \in NameOps
      <4>1. q = p + 2 /\ (p + 1) + 1 = p + 2 /\ p + 1 \in Nat /\ p + 1 < Len(t)
        <5>1. q = (p + 1) + 1
          BY <3>1 DEF NumberStart
        <5>2. p + 2 <= Len(t)
          BY <1>2, <3>1
        <5> HIDE DEF q, p, t
        <5>3. QED
          BY <1>1, <1>4, <5>1, <5>2
      <4>2. t[(p + 1) + 1] = Word(nm)
        BY <1>2, <3>1, <4>1
      <4>3. nm \in keywords => ~ Fine(X)
        <5>1. o # "function"
          <6>1. "function" \notin PlainOps \cup NameOps \cup ImmOps
            BY <1>1, CallKinds, LayoutFacts
          <6>2. QED
            BY <1>3, <6>1
        <5>2. QED
          BY <5>1 DEF Fine
      <4> DEFINE y == State(p + 2, <<c0, Ident(nm)>>, k)
                 z0 == 0
                 em == ""
      <4>4. [c0 EXCEPT !.name = nm] = c1
        <5>1. c0 = CallOf(o, em, z0, e, e) /\ c1 = CallOf(o, nm, z0, e, e)
          OBVIOUS
        <5> HIDE DEF e, nm, o, c0, c1, z0, em
        <5>2. QED
          BY <5>1, CallNamed
      <4> HIDE DEF c0, c1, nm
      <4>5. Does(X, parse_identifier, State(p + 1, <<c0>>, k), y)
        BY <4>1, <4>2, <4>3, WordSteps
      <4>6. Does(X, Make("name"), y, y2)
        <5>1. y.b = <<c0, Ident(nm)>> /\ y.p = p + 2 /\ y.k = k
          BY StateParts
        <5>2. y2 = State(y.p, <<[c0 EXCEPT !.name = nm]>>, y.k)
          BY <4>1, <4>4, <5>1
        <5> HIDE DEF y, y2
        <5>3. Made(X, "name", y, y2)
          BY <5>1, <5>2 DEF Made
        <5>4. QED
          BY <5>3, MakeStep
      <4>7. named_part(o) = <<parse_identifier, Make("name")>>
        BY <3>1 DEF named_part
      <4>8. QED
        BY <4>5, <4>6, <4>7, Path2
    <3>2. CASE o \notin NameOps
      <4>1. q = p + 1
        <5>1. q = p + 1 + 0
          BY <3>2 DEF NumberStart
        <5>2. QED
          BY <1>4, <5>1
      <4>2. nm = ""
        BY <1>3, <2>3, <3>2
      <4>3. y1 = y2
        BY <4>1, <4>2, Zenon
      <4>4. named_part(o) = << >>
        BY <3>2 DEF named_part
      <4>5. QED
        BY <4>3, <4>4, PathEmpty
    <3>3. QED
      BY <3>1, <3>2
  <2>5. Path(X, number_part(o), y2, y3)
    <3>1. CASE o \in ImmOps
      <4>1. At(t, q, Signed(v)) /\ X.pos[i + 1] = q + Len(Signed(v)) /\ v \in I8_MIN .. I8_MAX
        BY <1>2, <2>3, <3>1
      <4>2. v \in Int
        BY <4>1, Widths
      <4>3. Len(Signed(v)) = SignedLen(v) /\ SignedLen(v) \in {1, 2}
        BY <4>2, SignedText DEF SignedLen
      <4>4. v = I8_MIN => ~ Fine(X)
        BY <3>1 DEF Fine
      <4> DEFINE y == State(q + SignedLen(v), <<c1, Val(v)>>, k)
                 z0 == 0
      <4>5. [c1 EXCEPT !.n = v] = c2
        <5>1. c1 = CallOf(o, nm, z0, e, e) /\ c2 = CallOf(o, nm, v, e, e)
          OBVIOUS
        <5> HIDE DEF e, nm, o, c1, c2, z0, v
        <5>2. QED
          BY <5>1, CallNumbered
      <4>6. q < Len(t)
        <5>1. q + Len(Signed(v)) <= Len(t)
          BY <4>1 DEF At
        <5> HIDE DEF q, t, v
        <5>2. QED
          BY <1>1, <1>2, <4>3, <5>1
      <4> HIDE DEF c1, c2
      <4>7. Does(X, Call("immediate"), y2, y)
        <5>1. RuledImmediate(X, y2, y)
          BY <1>2, <4>1, <4>4 DEF RuledImmediate
        <5>2. Ruled(X, "immediate", y2, y)
          BY <5>1 DEF Ruled
        <5>3. QED
          BY <1>2, <4>6, <5>2, CallStep
      <4>8. Does(X, Make("immediate"), y, y3)
        <5>1. y.b = <<c1, Val(v)>> /\ y.p = q + SignedLen(v) /\ y.k = k
          BY StateParts
        <5>2. y3 = State(y.p, <<[c1 EXCEPT !.n = v]>>, y.k)
          BY <4>1, <4>3, <4>5, <5>1
        <5> HIDE DEF y, y3, v
        <5>3. Made(X, "immediate", y, y3)
          BY <5>1, <5>2 DEF Made
        <5>4. QED
          BY <5>3, MakeStep
      <4>9. number_part(o) = <<Call("immediate"), Make("immediate")>>
        BY <3>1 DEF number_part
      <4>10. QED
        BY <4>7, <4>8, <4>9, Path2
    <3>2. CASE o \notin ImmOps
      <4>1. v = 0 /\ X.pos[i + 1] = q
        BY <1>2, <2>3, <3>2
      <4>2. y2 = y3
        BY <4>1, Zenon
      <4>3. number_part(o) = << >>
        BY <3>2 DEF number_part
      <4>4. QED
        BY <4>2, <4>3, PathEmpty
    <3>3. QED
      BY <3>1, <3>2
  <2>6. Does(X, Make("call"), y3, z)
    <3>1. y3 = State(X.pos[i + 1], <<c>>, k) /\ z = State(X.pos[i + 1], << >>, Len(X.consts) + (i + 1) - 1)
      BY <2>3 DEF Before
    <3>2. Heard(X, c, k, Len(X.consts) + (i + 1) - 1)
      BY HeardCode
    <3>3. y3.b = <<c>> /\ y3.p = X.pos[i + 1] /\ y3.k = k
      BY <3>1, StateParts
    <3> HIDE DEF y3, c, z, k
    <3>4. Made(X, "call", y3, z)
      BY <3>1, <3>2, <3>3 DEF Made
    <3>5. QED
      BY <3>4, MakeStep
  <2>7. Rule("op", t[p + 1]) = <<Discard, Push(PlainOf(o))>> \o named_part(o) \o number_part(o) \o <<Make("call")>>
    <3>1. t[p + 1].value = o \/ (o = "ICMPEQ" /\ t[p + 1].value = "IF_ICMPEQ")
      BY <1>6
    <3>2. QED
      BY <2>1, <3>1, OpItems
  <2> DEFINE b == Push(PlainOf(o))
  <2> HIDE DEF y1, y2, y3, z, o, b
  <2>8. Path(X, <<Discard, b>> \o named_part(o) \o number_part(o) \o <<Make("call")>>, a, z)
    <3>1. Path(X, <<Discard, b>>, a, y1)
      BY <2>2 DEF b
    <3>2. QED
      BY <2>4, <2>5, <2>6, <3>1, OpPath
  <2>9. QED
    BY <1>5, <2>7, <2>8 DEF b, z
<1>9. QED
  BY <1>7, <1>8

\* A label that is a keyword: parse_jas_op takes it, or throws.
LEMMA BadLabelRule ==
    ASSUME NEW X, Layout(X), NEW i \in 1 .. Len(X.code), BadLabel(X, i), NEW a, a = Before(X, i)
    PROVE  Path(X, Rule("op", X.text[a.p + 1]), a, State(X.pos[i] + 1, << >>, -1))
<1> DEFINE c == X.code[i]
           p == X.pos[i]
           t == X.text
           k == Len(X.consts) + i - 1
           w == c.name
           z == State(p + 1, << >>, -1)
<1>1. c.op = "label" /\ w \in keywords
  BY DEF BadLabel
<1>2. ~ Fine(X)
  <2>1. c.op # "function"
    BY <1>1
  <2>2. QED
    BY <1>1, <2>1 DEF Fine
<1>3. p + 2 <= Len(t) /\ t[p + 1] = Word(w) /\ t[p + 2] = Colon
  BY <1>1, LabelText
<1>4. p \in Nat /\ Len(t) \in Nat
  <2>1. i \in 1 .. Len(X.code) + 1
    BY LayoutFacts
  <2>2. QED
    BY <2>1, LayoutFacts
<1>5. p < Len(t) /\ p + 1 < Len(t) /\ p + 1 \in Nat /\ (p + 1) + 1 = p + 2
  <2> HIDE DEF p, t
  <2>1. QED
    BY <1>3, <1>4
<1>6. a = State(p, << >>, k) /\ a.p = p
  BY StateParts DEF Before
<1>7. t[p + 1].value = w
  BY <1>3, MarkKinds
<1>8. CASE w \notin ReadableOps \cup NameOps \cup ImmOps \cup {"IF_ICMPEQ"}
  <2>1. Rule("op", t[p + 1]) = <<Fail>>
    BY <1>7, <1>8 DEF Rule, parse_jas_op
  <2>2. Does(X, Fail, a, z)
    BY <1>2, FailStep
  <2>3. QED
    BY <1>6, <2>1, <2>2, Path1
<1>9. CASE w \in ReadableOps \cup NameOps \cup ImmOps \cup {"IF_ICMPEQ"}
  <2> DEFINE o == IF w = "IF_ICMPEQ" THEN "ICMPEQ" ELSE w
             c0 == PlainOf(o)
             y1 == State(p + 1, <<c0>>, k)
  <2>1. o \in ReadableOps \cup NameOps \cup ImmOps /\ (w = o \/ (o = "ICMPEQ" /\ w = "IF_ICMPEQ"))
    BY <1>9, OpWords
  <2> HIDE DEF o
  <2>2. Rule("op", t[p + 1]) = <<Discard, Push(PlainOf(o))>> \o named_part(o) \o number_part(o) \o <<Make("call")>>
    <3>1. t[p + 1].value = o \/ (o = "ICMPEQ" /\ t[p + 1].value = "IF_ICMPEQ")
      BY <1>7, <2>1
    <3>2. QED
      BY <2>1, <3>1, OpItems
  <2> DEFINE b == Push(PlainOf(o))
  <2>3. Path(X, <<Discard, b>>, a, y1)
    BY <1>4, <1>5, <1>6, OpStart
  <2>4. t[(p + 1) + 1] = Colon /\ t[(p + 1) + 1].type = "Colon"
    BY <1>3, <1>5, MarkKinds
  <2> HIDE DEF c0, b
  <2>5. CASE o \in NameOps
    <3>1. Does(X, parse_identifier, y1, Dead)
      BY <1>2, <1>5, <2>4, WrongTokens
    <3>2. Does(X, Make("name"), Dead, Dead)
      BY DeadSteps
    <3>3. named_part(o) = <<parse_identifier, Make("name")>>
      BY <2>5 DEF named_part
    <3>4. Path(X, named_part(o), y1, Dead)
      BY <3>1, <3>2, <3>3, Path2
    <3>5. Path(X, number_part(o), Dead, Dead)
      <4>1. CASE o \in ImmOps
        <5>1. Does(X, Call("immediate"), Dead, Dead) /\ Does(X, Make("immediate"), Dead, Dead)
          BY DeadSteps
        <5>2. number_part(o) = <<Call("immediate"), Make("immediate")>>
          BY <4>1 DEF number_part
        <5>3. QED
          BY <5>1, <5>2, Path2
      <4>2. CASE o \notin ImmOps
        BY <4>2, PathEmpty DEF number_part
      <4>3. QED
        BY <4>1, <4>2
    <3>6. Does(X, Make("call"), Dead, z)
      BY DeadSteps
    <3> HIDE DEF y1, z
    <3>7. Path(X, <<Discard, b>> \o named_part(o) \o number_part(o) \o <<Make("call")>>, a, z)
      BY <2>3, <3>4, <3>5, <3>6, OpPath
    <3>8. QED
      BY <1>6, <2>2, <3>7 DEF b, z
  <2>6. CASE o \notin NameOps
    <3>1. Path(X, named_part(o), y1, y1)
      BY <2>6, PathEmpty DEF named_part
    <3>2. CASE o \in ImmOps
      <4>1. RuledImmediate(X, y1, Dead)
        BY <1>2, <1>5, <2>4 DEF RuledImmediate
      <4>2. Ruled(X, "immediate", y1, Dead)
        BY <4>1 DEF Ruled
      <4>3. Does(X, Call("immediate"), y1, Dead)
        BY <1>5, <4>2, CallStep
      <4>4. Does(X, Make("immediate"), Dead, Dead) /\ Does(X, Make("call"), Dead, z)
        BY DeadSteps
      <4>5. number_part(o) = <<Call("immediate"), Make("immediate")>>
        BY <3>2 DEF number_part
      <4>6. Path(X, number_part(o), y1, Dead)
        BY <4>3, <4>4, <4>5, Path2
      <4> HIDE DEF y1, z
      <4>7. Path(X, <<Discard, b>> \o named_part(o) \o number_part(o) \o <<Make("call")>>, a, z)
        BY <2>3, <3>1, <4>4, <4>6, OpPath
      <4>8. QED
        BY <1>6, <2>2, <4>7 DEF b, z
    <3>3. CASE o \notin ImmOps
      <4>1. Path(X, number_part(o), y1, y1)
        BY <3>3, PathEmpty DEF number_part
      <4>2. Does(X, Make("call"), y1, z)
        <5>1. y1.b = <<c0>> /\ y1.p = p + 1 /\ y1.k = k
          BY StateParts
        <5>2. z = State(y1.p, << >>, -1)
          BY <5>1
        <5>3. Heard(X, c0, y1.k, -1)
          BY DEF Heard
        <5> HIDE DEF y1, z
        <5>4. Made(X, "call", y1, z)
          BY <5>1, <5>2, <5>3 DEF Made
        <5>5. QED
          BY <5>4, MakeStep
      <4> HIDE DEF y1, z
      <4>3. Path(X, <<Discard, b>> \o named_part(o) \o number_part(o) \o <<Make("call")>>, a, z)
        BY <2>3, <3>1, <4>1, <4>2, OpPath
      <4>4. QED
        BY <1>6, <2>2, <4>3 DEF b, z
    <3>4. QED
      BY <3>2, <3>3
  <2>7. QED
    BY <2>5, <2>6
<1>10. QED
  BY <1>8, <1>9

\* An instruction, or a label that looks like one.
LEMMA OpRule ==
    ASSUME NEW X, Layout(X), NEW a, NEW z, RuledOp(X, a, z)
    PROVE  Path(X, Rule("op", X.text[a.p + 1]), a, z)
<1>1. PICK i \in 1 .. Len(X.code) :
         /\ a = Before(X, i)
         /\ \/ Instr(X, i) /\ z = Before(X, i + 1)
            \/ BadLabel(X, i) /\ z = State(X.pos[i] + 1, << >>, -1)
  BY DEF RuledOp
<1>2. CASE Instr(X, i) /\ z = Before(X, i + 1)
  BY <1>1, <1>2, InstructionRule
<1>3. CASE BadLabel(X, i) /\ z = State(X.pos[i] + 1, << >>, -1)
  BY <1>1, <1>3, BadLabelRule
<1>4. QED
  BY <1>1, <1>2, <1>3

\* One call of the code, and then the rest.
LEMMA CodeStep ==
    ASSUME NEW X, NEW i \in Int, NEW j, NEW n \in Nat, n = Len(X.code), FirstStop(X, i, j)
    PROVE  /\ Stop(X, i) /\ i <= n + 1 => j = i
           /\ ~ Stop(X, i) => i <= n /\ FirstStop(X, i + 1, j)
<1>1. j \in i .. n + 1 /\ Stop(X, j) /\ \A q \in i .. j - 1 : ~ Stop(X, q)
  BY DEF FirstStop
<1>2. ASSUME Stop(X, i)
      PROVE  j = i
  <2>1. i \notin i .. j - 1
    BY <1>1, <1>2
  <2>2. QED
    BY <1>1, <2>1
<1>3. ASSUME ~ Stop(X, i)
      PROVE  i <= n /\ FirstStop(X, i + 1, j)
  <2>1. i <= n
    <3>1. ~ FunctionAt(X, i)
      BY <1>3 DEF Stop
    <3>2. QED
      BY <3>1 DEF FunctionAt
  <2>2. j # i
    BY <1>1, <1>3
  <2>3. j \in i + 1 .. n + 1 /\ \A q \in i + 1 .. j - 1 : q \in i .. j - 1
    BY <1>1, <2>2
  <2>4. QED
    BY <1>1, <2>1, <2>3 DEF FirstStop
<1>4. QED
  BY <1>2, <1>3

\* The code of a function, up to what stops it.
LEMMA CodeRule ==
    ASSUME NEW X, Layout(X), NEW a, NEW z, RuledCode(X, a, z)
    PROVE  Path(X, Rule("code", X.text[a.p + 1]), a, z)
<1>1. CASE X.text[a.p + 1] = Colon /\ z = a
  <2>1. Rule("code", X.text[a.p + 1]) = << >>
    BY <1>1, MarkKinds DEF Rule, parse_code
  <2>2. QED
    BY <1>1, <2>1, PathEmpty
<1>2. ASSUME NEW i \in 1 .. Len(X.code) + 1, NEW j,
             FirstStop(X, i, j), a = Before(X, i), z = Stopped(X, j)
      PROVE  Path(X, Rule("code", X.text[a.p + 1]), a, z)
  <2> DEFINE p == X.pos[i]
             t == X.text
             k == Len(X.consts) + i - 1
             n == Len(X.code)
             c == X.code[i]
  <2>1. p \in Nat /\ p < Len(t) /\ Len(t) \in Nat /\ n \in Nat /\ i \in Int
    BY FirstToken, LayoutFacts
  <2>2. a = State(p, << >>, k) /\ a.p = p
    BY <1>2, StateParts DEF Before
  <2>3. CASE FunctionAt(X, i)
    <3>1. t[a.p + 1] = Period
      BY <2>2, <2>3, FirstToken
    <3>2. Rule("code", t[a.p + 1]) = << >>
      BY <3>1, MarkKinds DEF Rule, parse_code
    <3>3. j = i
      <4>1. Stop(X, i) /\ i <= n + 1
        BY <2>1, <2>3 DEF Stop
      <4>2. QED
        BY <1>2, <2>1, <4>1, CodeStep
    <3>4. z = a
      BY <1>2, <2>3, <3>3 DEF Stopped
    <3>5. QED
      BY <3>2, <3>4, PathEmpty
  <2>4. ASSUME t[p + 1].type = "Keyword", NEW y, Does(X, Call("op"), a, y), Does(X, Call("code"), y, z)
        PROVE  Path(X, Rule("code", t[a.p + 1]), a, z)
    <3>1. Rule("code", t[a.p + 1]) = <<Call("op"), Call("code")>>
      BY <2>2, <2>4 DEF Rule, parse_code
    <3>2. QED
      BY <2>4, <3>1, Path2
  <2>5. CASE BadLabel(X, i)
    <3>1. c.op = "label" /\ c.name \in keywords /\ i \in 1 .. n
      BY <2>1, <2>5 DEF BadLabel
    <3>2. p + 2 <= Len(t) /\ t[p + 1] = Word(c.name) /\ t[p + 2] = Colon
      BY <3>1, LabelText
    <3>3. t[p + 1].type = "Keyword"
      BY <3>1, <3>2 DEF Word, Keyword, Token
    <3>4. j = i
      BY <1>2, <2>1, <2>5, CodeStep DEF Stop
    <3>5. ~ FunctionAt(X, i)
      BY <2>1, <3>1 DEF FunctionAt
    <3>6. z = State(p + 1, << >>, -1)
      BY <1>2, <3>4, <3>5 DEF Stopped
    <3>7. Does(X, Call("op"), a, z)
      <4>1. RuledOp(X, a, z)
        BY <1>2, <2>5, <3>1, <3>6 DEF RuledOp
      <4>2. Ruled(X, "op", a, z)
        BY <4>1 DEF Ruled
      <4>3. QED
        BY <2>1, <2>2, <4>2, CallStep
    <3>8. Does(X, Call("code"), z, z)
      <4>1. z.p = p + 1 /\ p + 1 \in Nat /\ p + 1 < Len(t) /\ (p + 1) + 1 = p + 2
        <5>1. z.p = p + 1
          BY <3>6, StateParts
        <5> HIDE DEF p, t
        <5>2. QED
          BY <2>1, <3>2, <5>1
      <4>2. t[z.p + 1] = Colon
        BY <3>2, <4>1
      <4>3. Ruled(X, "code", z, z)
        BY <4>2 DEF Ruled, RuledCode
      <4>4. QED
        BY <3>6, <4>1, <4>3, CallStep
    <3>9. QED
      BY <2>4, <3>3, <3>7, <3>8
  <2>6. CASE ~ FunctionAt(X, i) /\ ~ BadLabel(X, i)
    <3>1. i \in 1 .. n /\ FirstStop(X, i + 1, j)
      BY <1>2, <2>1, <2>6, CodeStep DEF Stop
    <3>2. i + 1 \in 1 .. n + 1
      BY <2>1, <3>1
    <3>3. c \in JasCalls /\ c.op # "constant" /\ c.op # "function"
      BY <2>6, <3>1, LayoutFacts DEF FunctionAt
    <3> DEFINE y == Before(X, i + 1)
               r == X.pos[i + 1]
               k2 == Len(X.consts) + (i + 1) - 1
    <3>4. y = State(r, << >>, k2) /\ r \in Nat /\ r < Len(t)
      BY <3>2, FirstToken DEF Before
    <3>5. Does(X, Call("code"), y, z)
      <4>1. RuledCode(X, y, z)
        BY <1>2, <3>1, <3>2 DEF RuledCode
      <4>2. Ruled(X, "code", y, z)
        BY <4>1 DEF Ruled
      <4>3. QED
        BY <3>4, <4>2, CallStep
    <3>6. CASE c.op = "label"
      <4> DEFINE w == c.name
                 y1 == State(p + 1, <<Ident(w)>>, k)
                 y2 == State(p + 2, <<Ident(w)>>, k)
      <4>1. w \notin keywords
        BY <2>1, <2>6, <3>1, <3>6 DEF BadLabel
      <4>2. p + 2 <= Len(t) /\ t[p + 1] = Word(w) /\ t[p + 2] = Colon /\ r = p + 2
        BY <3>1, <3>6, LabelText
      <4>3. p + 1 \in Nat /\ p + 1 < Len(t) /\ (p + 1) + 1 = p + 2
        <5> HIDE DEF p, t
        <5>1. QED
          BY <2>1, <4>2
      <4>4. t[a.p + 1].type = "Identifier"
        BY <2>2, <4>1, <4>2 DEF Word, Identifier, Token
      <4>5. Rule("code", t[a.p + 1]) = <<parse_identifier, Expect("Colon"), Make("label"), Call("code")>>
        BY <4>4 DEF Rule, parse_code
      <4>6. Does(X, parse_identifier, a, y1)
        BY <2>1, <2>2, <4>1, <4>2, WordSteps
      <4>7. Does(X, Expect("Colon"), y1, y2)
        <5>1. <<Ident(w)>> \in Seq({Ident(w)})
          OBVIOUS
        <5>2. t[(p + 1) + 1].type = "Colon"
          BY <4>2, <4>3, MarkKinds
        <5>3. Does(X, Expect("Colon"), State(p + 1, <<Ident(w)>>, k), State((p + 1) + 1, <<Ident(w)>>, k))
          BY <4>3, <5>1, <5>2, TokenSteps
        <5>4. QED
          BY <4>3, <5>3
      <4>8. Does(X, Make("label"), y2, y)
        <5>1. y2.b = <<Ident(w)>> /\ y2.p = p + 2 /\ y2.k = k
          BY StateParts
        <5>2. y = State(y2.p, << >>, k2)
          BY <3>4, <4>2, <5>1
        <5>3. Heard(X, NamedOf("label", w), k, k2)
          <6>1. c = NamedOf("label", w)
            BY <3>3, <3>6, CallParts
          <6>2. Heard(X, c, k, k2)
            BY <3>1, HeardCode
          <6>3. QED
            BY <6>1, <6>2
        <5> HIDE DEF y, y2, k, k2, w
        <5>4. Made(X, "label", y2, y)
          BY <5>1, <5>2, <5>3 DEF Made
        <5>5. QED
          BY <5>4, MakeStep
      <4>9. QED
        BY <3>5, <4>5, <4>6, <4>7, <4>8, Path4
    <3>7. CASE c.op # "label"
      <4>1. Instr(X, i)
        BY <3>3, <3>7, CallKinds DEF Instr
      <4>2. t[p + 1] = Word(IF c.op = "ICMPEQ" THEN "IF_ICMPEQ" ELSE c.op)
        BY <3>1, <4>1, InstructionText
      <4>3. (IF c.op = "ICMPEQ" THEN "IF_ICMPEQ" ELSE c.op) \in keywords
        BY <4>1, OpWords DEF Instr
      <4>4. t[p + 1].type = "Keyword"
        BY <4>2, <4>3 DEF Word, Keyword, Token
      <4>5. RuledOp(X, a, y)
        BY <1>2, <3>1, <4>1 DEF RuledOp
      <4>6. Ruled(X, "op", a, y)
        BY <4>5 DEF Ruled
      <4>7. Does(X, Call("op"), a, y)
        BY <2>1, <2>2, <4>6, CallStep
      <4>8. QED
        BY <2>4, <3>5, <4>4, <4>7
    <3>8. QED
      BY <3>6, <3>7
  <2>7. QED
    BY <2>3, <2>5, <2>6
<1>3. QED
  BY <1>1, <1>2 DEF RuledCode

-----------------------------------------------------------------------------
(* The blocks of the text.                                                 *)

\* The calls of the constants come first.
LEMMA HeardConstants ==
    ASSUME NEW X, Layout(X), NEW i \in 1 .. Len(X.consts)
    PROVE  Heard(X, X.consts[i], i - 1, i)
<1>1. Len(X.code) \in Nat /\ Len(X.consts) \in Nat /\ X.code \in Seq(JasCalls)
  BY LayoutFacts
<1>2. PICK S : X.consts \in Seq(S)
  BY DEF Layout, ConstantsLaid
<1> DEFINE s == X.consts
           t == X.code
           m == Len(s)
           n == Len(t)
<1>3. s \in Seq(S \cup JasCalls) /\ t \in Seq(S \cup JasCalls)
  BY <1>1, <1>2
<1> HIDE DEF s, t
<1>4. (s \o t)[i] = s[i]
  BY <1>3, ConcatProperties DEF s
<1>5. i \in 1 .. m /\ m \in Nat /\ n \in Nat
  BY <1>1 DEF s, t
<1> HIDE DEF m, n
<1>6. (i - 1) + 1 = i /\ i - 1 \in Nat /\ i - 1 < m + n
  BY <1>5
<1>7. QED
  BY <1>4, <1>6 DEF Heard, s, t, m, n

\* The constants, up to the end of their block.
LEMMA ConstantsRule ==
    ASSUME NEW X, Layout(X), NEW a, NEW z, RuledConstants(X, a, z)
    PROVE  Path(X, Rule("constants", X.text[a.p + 1]), a, z)
<1> DEFINE m == Len(X.consts)
           t == X.text
<1>1. PICK i \in 1 .. m + 1 : m > 0 /\ a = State(2 * i, << >>, i - 1) /\ z = Before(X, 1)
  BY DEF RuledConstants
<1>2. /\ t \in Seq(JasTokens) /\ Len(t) \in Nat /\ m \in Nat
      /\ \A o \in 1 .. m : /\ X.consts[o] = ConstantOf(X.consts[o].name, X.consts[o].n)
                           /\ X.consts[o].n \in INT32_MIN .. INT32_MAX
      /\ X.pos[1] = 2 * m + 6
      /\ \A o \in 1 .. m : /\ t[2 * o + 1] = Word(X.consts[o].name)
                           /\ t[2 * o + 2] = Hex(X.consts[o].n)
      /\ At(t, 2 * m + 2, Ending("constant"))
  BY <1>1, LayoutFacts DEF Layout, ConstantsLaid
<1>3. a.p = 2 * i /\ z = State(2 * m + 6, << >>, m)
  <2>1. m + 1 - 1 = m
    BY <1>2
  <2>2. QED
    BY <1>1, <1>2, <2>1, StateParts DEF Before
<1>4. "constant" \in keywords /\ << >> \in Seq({})
  BY DEF keywords
<1>5. 2 * m + 6 <= Len(t)
  <2>1. Len(Ending("constant")) = 4
    BY <1>4, EndingType
  <2>2. (2 * m + 2) + 4 <= Len(t)
    BY <1>2, <2>1 DEF At
  <2> HIDE DEF t, m
  <2>3. m \in Nat /\ Len(t) \in Nat
    BY <1>2
  <2>4. QED
    BY <2>2, <2>3
<1>6. CASE i = m + 1
  <2>1. t[a.p + 1].type = "Period"
    <3>1. Ending("constant")[1] = Period /\ Len(Ending("constant")) = 4
      <4> DEFINE b == Keyword("end")
                 c == Operator("-")
                 d == Keyword("constant")
      <4>1. Ending("constant") = <<Period, b, c, d>>
        BY DEF Ending
      <4> HIDE DEF b, c, d
      <4>2. QED
        BY <4>1
    <3>2. t[(2 * m + 2) + 1] = Period
      BY <1>2, <3>1 DEF At
    <3>3. 2 * i = 2 * m + 2
      BY <1>2, <1>6
    <3>4. QED
      BY <1>3, <3>2, <3>3, MarkKinds
  <2>2. Rule("constants", t[a.p + 1]) = parse_end("constant")
    BY <2>1 DEF Rule, parse_constant_block
  <2>3. Path(X, parse_end("constant"), State(2 * m + 2, << >>, m), State((2 * m + 2) + 4, << >>, m))
    BY <1>2, <1>4, EndPath
  <2>4. 2 * i = 2 * m + 2 /\ i - 1 = m /\ (2 * m + 2) + 4 = 2 * m + 6
    BY <1>2, <1>6
  <2>5. QED
    BY <1>1, <1>3, <2>2, <2>3, <2>4
<1>7. CASE i \in 1 .. m
  <2> DEFINE w == X.consts[i].name
             v == X.consts[i].n
             k == i - 1
             p == 2 * i
             y1 == State(p + 1, <<Ident(w)>>, k)
             y2 == State(p + 2, <<Ident(w), Val(v)>>, k)
             y3 == State(2 * (i + 1), << >>, i)
  <2>1. /\ p \in Nat /\ p + 1 \in Nat /\ p + 2 \in Nat /\ (p + 1) + 1 = p + 2 /\ p + 2 = 2 * (i + 1)
        /\ p < Len(t) /\ p + 1 < Len(t) /\ p + 2 < Len(t) /\ (i + 1) - 1 = i /\ i + 1 \in 1 .. m + 1
    <3>1. m \in Nat /\ Len(t) \in Nat /\ i \in 1 .. m
      BY <1>2, <1>7
    <3> HIDE DEF m, t
    <3>2. QED
      BY <1>5, <3>1
  <2>2. t[p + 1] = Word(w) /\ t[p + 2] = Hex(v) /\ v \in INT32_MIN .. INT32_MAX /\ X.consts[i] = ConstantOf(w, v)
    BY <1>2, <1>7
  <2>3. w \in keywords => ~ Fine(X)
    BY <1>7 DEF Fine
  <2>4. a = State(p, << >>, k) /\ a.p = p
    BY <1>1, <1>3
  <2> HIDE DEF w, v, p
  <2>5. CASE w \in keywords
    <3>1. t[a.p + 1].type = "Keyword"
      BY <2>2, <2>4, <2>5 DEF Word, Keyword, Token
    <3>2. Rule("constants", t[a.p + 1]) = parse_end("constant")
      BY <3>1 DEF Rule, parse_constant_block
    <3>3. t[p + 1].type # "Period"
      BY <2>4, <3>1
    <3>4. Path(X, parse_end("constant"), State(p, << >>, k), z)
      BY <1>2, <1>4, <2>1, <2>3, <2>5, <3>3, EndFails
    <3>5. QED
      BY <2>4, <3>2, <3>4
  <2>6. CASE w \notin keywords
    <3>1. t[a.p + 1].type = "Identifier"
      BY <2>2, <2>4, <2>6 DEF Word, Identifier, Token
    <3>2. Rule("constants", t[a.p + 1]) = <<parse_identifier, Call("value"), Make("constant"), Call("constants")>>
      BY <3>1 DEF Rule, parse_constant_block
    <3>3. Does(X, parse_identifier, a, y1)
      BY <2>1, <2>2, <2>3, <2>4, WordSteps
    <3>4. Does(X, Call("value"), y1, y2)
      <4>1. y2 = State((p + 1) + 1, <<Ident(w), Val(v)>>, k) /\ t[(p + 1) + 1] = Hex(v)
        BY <2>1, <2>2
      <4>2. RuledValue(X, y1, y2)
        BY <2>1, <2>2, <4>1 DEF RuledValue
      <4>3. Ruled(X, "value", y1, y2)
        BY <4>2 DEF Ruled
      <4>4. QED
        BY <2>1, <4>3, CallStep
    <3>5. Does(X, Make("constant"), y2, y3)
      <4>1. y2.b = <<Ident(w), Val(v)>> /\ y2.p = p + 2 /\ y2.k = k
        BY StateParts
      <4>2. y3 = State(y2.p, << >>, i)
        BY <2>1, <4>1
      <4>3. Heard(X, ConstantOf(w, v), k, i)
        BY <1>7, <2>2, HeardConstants
      <4> HIDE DEF y2, y3, k
      <4>4. Made(X, "constant", y2, y3)
        BY <4>1, <4>2, <4>3 DEF Made
      <4>5. QED
        BY <4>4, MakeStep
    <3>6. Does(X, Call("constants"), y3, z)
      <4>1. RuledConstants(X, y3, z)
        BY <1>1, <2>1 DEF RuledConstants
      <4>2. Ruled(X, "constants", y3, z)
        BY <4>1 DEF Ruled
      <4>3. 2 * (i + 1) \in Nat /\ 2 * (i + 1) < Len(t)
        BY <2>1
      <4>4. QED
        BY <4>2, <4>3, CallStep
    <3>7. QED
      BY <3>2, <3>3, <3>4, <3>5, <3>6, Path4
  <2>7. QED
    BY <2>5, <2>6
<1>8. QED
  <2>1. m \in Nat /\ i \in 1 .. m + 1
    BY <1>2
  <2> HIDE DEF m
  <2>2. i = m + 1 \/ i \in 1 .. m
    BY <2>1
  <2>3. QED
    BY <1>6, <1>7, <2>2

\* parse_code stops somewhere.
LEMMA StopsSomewhere ==
    ASSUME NEW X, NEW n \in Nat, n = Len(X.code), NEW i \in 1 .. n + 1
    PROVE  \E j : FirstStop(X, i, j)
<1> DEFINE T == {j \in i .. n + 1 : Stop(X, j)}
<1>1. T \in SUBSET Nat
  OBVIOUS
<1>2. n + 1 \in T
  <2>1. Stop(X, n + 1)
    BY DEF Stop, FunctionAt
  <2>2. QED
    BY <2>1
<1>3. PICK j \in T : \A y \in T : j <= y
  BY <1>1, <1>2, LeastElement
<1>4. j \in i .. n + 1 /\ Stop(X, j)
  BY <1>3
<1>5. ASSUME NEW q \in i .. j - 1
      PROVE  ~ Stop(X, q)
  <2>1. q \in i .. n + 1 /\ ~(j <= q)
    BY <1>4
  <2>2. q \notin T
    BY <1>3, <2>1
  <2>3. QED
    BY <2>1, <2>2
<1>6. QED
  BY <1>4, <1>5 DEF FirstStop

\* The end of a function, behind its code.
LEMMA EndRule ==
    ASSUME NEW X, Layout(X), NEW i \in 1 .. Len(X.code), X.code[i].op = "function", NEW j,
           FirstStop(X, i + 1, j), X.code[i].name = "main" => i = 1
    PROVE  Path(X, parse_end(IF X.code[i].name = "main" THEN "main" ELSE "method"), Stopped(X, j), Ended(X, j))
<1> DEFINE n == Len(X.code)
           m == Len(X.consts)
           t == X.text
           p == X.pos[j]
           w == IF X.code[i].name = "main" THEN "main" ELSE "method"
           k == m + j - 1
<1>1. n \in Nat /\ t \in Seq(JasTokens) /\ Len(t) \in Nat /\ X.code \in Seq(JasCalls)
  BY LayoutFacts
<1>2. j \in i + 1 .. n + 1 /\ Stop(X, j) /\ \A q \in i + 1 .. j - 1 : ~ Stop(X, q)
  BY DEF FirstStop
<1>3. j \in 1 .. n + 1 /\ j # 1 /\ i \in 1 .. j - 1 /\ j \in Int
  BY <1>1, <1>2
<1>4. p \in Nat /\ p < Len(t)
  BY <1>3, FirstToken
<1>5. w \in keywords /\ << >> \in Seq({})
  BY DEF keywords
<1>6. CASE FunctionAt(X, j)
  <2>1. Stopped(X, j) = State(p, << >>, k)
    BY <1>6 DEF Stopped, Before
  <2>2. CASE Resumes(X, j)
    <3>1. Ended(X, j) = State(p + 4, << >>, k)
      BY <2>2 DEF Ended
    <3>2. At(t, p, Ending(written_for(X.code, j)))
      BY <1>3, <2>2, FirstToken
    <3>3. written_for(X.code, j) = w
      <4>1. CASE X.code[i].name = "main"
        <5>1. i = 1
          BY <4>1
        <5>2. \A q \in 1 .. j - 1 : ~(X.code[q].op = "function" /\ X.code[q].name # "main")
          <6> TAKE q \in 1 .. j - 1
          <6>1. CASE q = 1
            BY <4>1, <5>1, <6>1
          <6>2. CASE q # 1
            <7>1. q \in i + 1 .. j - 1
              BY <5>1, <6>2
            <7>2. ~ FunctionAt(X, q)
              BY <1>2, <7>1 DEF Stop
            <7>3. QED
              BY <7>2 DEF FunctionAt
          <6>3. QED
            BY <6>1, <6>2
        <5>3. QED
          BY <4>1, <5>2 DEF written_for
      <4>2. CASE X.code[i].name # "main"
        BY <1>3, <4>2 DEF written_for
      <4>3. QED
        BY <4>1, <4>2
    <3> HIDE DEF w
    <3>4. Path(X, parse_end(w), State(p, << >>, k), State(p + 4, << >>, k))
      BY <1>1, <1>5, <3>2, <3>3, EndPath
    <3>5. QED
      BY <2>1, <3>1, <3>4 DEF w
  <2>3. CASE ~ Resumes(X, j)
    <3>1. t[p + 1] = Period /\ p + 2 <= Len(t) /\ t[p + 2] = Keyword("main")
      BY <1>3, <1>6, <2>3, FirstToken
    <3>2. j \in 1 .. n /\ X.code[j].op = "function" /\ X.code[j].name = "main"
      <4>1. j # n + 1 /\ ~ Named(X, j)
        BY <2>3 DEF Resumes
      <4>2. j \in 1 .. n
        BY <1>1, <1>3, <4>1
      <4>3. X.code[j].op = "function"
        BY <1>6, <4>2, <1>1 DEF FunctionAt
      <4>4. QED
        BY <4>1, <4>2, <4>3 DEF Named
    <3>3. ~ Fine(X)
      BY <1>3, <3>2 DEF Fine
    <3>4. t[p + 1].type = "Period" /\ t[p + 2].value # "end"
      BY <3>1, MarkKinds
    <3>5. p + 1 < Len(t)
      <4> HIDE DEF p, t
      <4>1. QED
        BY <1>1, <1>4, <3>1
    <3>6. Path(X, parse_end(w), State(p, << >>, k), Ended(X, j))
      BY <1>1, <1>4, <1>5, <3>3, <3>4, <3>5, EndFails
    <3>7. QED
      BY <2>1, <3>6
  <2>4. QED
    BY <2>2, <2>3
<1>7. CASE ~ FunctionAt(X, j)
  <2>1. Stopped(X, j) = State(p + 1, << >>, -1)
    BY <1>7 DEF Stopped
  <2>2. BadLabel(X, j)
    BY <1>2, <1>7 DEF Stop
  <2>3. j \in 1 .. n /\ X.code[j].op = "label" /\ X.code[j].name \in keywords
    BY <1>1, <1>3, <2>2 DEF BadLabel
  <2>4. ~ Fine(X)
    <3>1. X.code[j].op # "function"
      BY <2>3
    <3>2. QED
      BY <2>3, <3>1 DEF Fine
  <2>5. t[p + 2] = Colon
    BY <2>3, LabelText
  <2>6. p + 1 \in Nat /\ (p + 1) + 1 = p + 2
    BY <1>4
  <2>7. t[(p + 1) + 1].type # "Period"
    BY <2>5, <2>6, MarkKinds
  <2>8. Path(X, parse_end(w), State(p + 1, << >>, -1), Ended(X, j))
    BY <1>1, <1>5, <2>4, <2>6, <2>7, EndFails
  <2>9. QED
    BY <2>1, <2>8
<1>8. QED
  BY <1>6, <1>7

\* A function, from its variables to the end of its code.
LEMMA BodyPath ==
    ASSUME NEW X, Layout(X), NEW i \in 1 .. Len(X.code), X.code[i].op = "function", NEW j,
           FirstStop(X, i + 1, j)
    PROVE  /\ VarStart(X, i) \in Nat /\ VarStart(X, i) < Len(X.text)
           /\ Path(X, <<Call("vars"), Make("call"), Call("code")>>,
                   State(VarStart(X, i), <<WithVars(X, i, 0)>>, Len(X.consts) + i - 1), Stopped(X, j))
<1> DEFINE n == Len(X.code)
           s == VarStart(X, i)
           t == X.text
           k == Len(X.consts) + i - 1
           k2 == Len(X.consts) + (i + 1) - 1
           f == X.code[i]
           r == X.pos[i + 1]
           c == WithVars(X, i, 0)
           y1 == State(s, <<c>>, k)
           y2 == State(r, <<f>>, k)
           y3 == Before(X, i + 1)
<1>1. n \in Nat /\ i + 1 \in 1 .. n + 1
  BY LayoutFacts
<1>2. r \in Nat /\ r < Len(t) /\ Len(t) \in Nat
  BY <1>1, FirstToken, LayoutFacts
<1>3. s \in Nat /\ s < Len(t)
  <2> DEFINE v == Len(f.vars)
  <2>1. s \in Nat /\ v \in Nat /\ (f.vars = << >> => r = s) /\ (f.vars # << >> => r = s + 2 + v + 4)
    BY VarsText
  <2> HIDE DEF s, v, r, t
  <2>2. QED
    BY <1>2, <2>1
<1>4. Does(X, Call("vars"), y1, y2)
  <2>1. Ruled(X, "vars", y1, y2)
    BY DEF Ruled, RuledVars
  <2>2. QED
    BY <1>3, <2>1, CallStep
<1>5. Does(X, Make("call"), y2, y3)
  <2>1. y2.b = <<f>> /\ y2.p = r /\ y2.k = k
    BY StateParts
  <2>2. y3 = State(y2.p, << >>, k2)
    BY <2>1 DEF Before
  <2>3. Heard(X, f, k, k2)
    BY HeardCode
  <2> HIDE DEF y2, y3, k, k2, f
  <2>4. Made(X, "call", y2, y3)
    BY <2>1, <2>2, <2>3 DEF Made
  <2>5. QED
    BY <2>4, MakeStep
<1>6. Does(X, Call("code"), y3, Stopped(X, j))
  <2>1. RuledCode(X, y3, Stopped(X, j))
    BY <1>1 DEF RuledCode
  <2>2. Ruled(X, "code", y3, Stopped(X, j))
    BY <2>1 DEF Ruled
  <2>3. y3 = State(r, << >>, k2)
    BY DEF Before
  <2> HIDE DEF y3
  <2>4. QED
    BY <1>2, <2>2, <2>3, CallStep
<1>7. QED
  BY <1>3, <1>4, <1>5, <1>6, Path3

\* How the blocks begin.
LEMMA BlockKinds ==
    ASSUME NEW t, t.type = "Keyword"
    PROVE  /\ t.value = "constant" => Rule("block", t) = <<Discard, Call("constants")>>
           /\ t.value = "main" => Rule("block", t) = parse_main \o <<Call("vars"), Make("call"), Call("code")>> \o parse_end("main")
           /\ t.value = "method" => Rule("block", t) = parse_named \o <<Call("vars"), Make("call"), Call("code")>> \o parse_end("method")
           /\ t.value = "end" => Rule("block", t) = <<Fail>>
<1>1. Rule("block", t) = parse_block(t)
  BY DEF Rule
<1>2. t.value = "constant" => parse_block(t) = <<Discard, Call("constants")>>
  BY DEF parse_block, is_next
<1>3. t.value = "end" => parse_block(t) = <<Fail>>
  BY DEF parse_block, is_next
<1>4. t.value \in {"main", "method"} => parse_block(t) = parse_method(t)
  BY DEF parse_block, is_next
<1>5. t.value = "main" => parse_method(t) = parse_main \o <<Call("vars"), Make("call"), Call("code")>> \o parse_end("main")
  <2> DEFINE b == parse_main
             c == parse_named
             d == <<Call("vars"), Make("call"), Call("code")>>
             e == parse_end("main")
  <2>1. t.value = "main" => parse_method(t) = b \o d \o parse_end(IF t.value = "main" THEN "main" ELSE "method")
    BY DEF parse_method
  <2>2. t.value = "main" => parse_end(IF t.value = "main" THEN "main" ELSE "method") = e
    OBVIOUS
  <2> HIDE DEF b, c, d, e
  <2>3. QED
    BY <2>1, <2>2 DEF b, d, e
<1>6. t.value = "method" => parse_method(t) = parse_named \o <<Call("vars"), Make("call"), Call("code")>> \o parse_end("method")
  <2> DEFINE b == parse_main
             c == parse_named
             d == <<Call("vars"), Make("call"), Call("code")>>
             e == parse_end("method")
  <2>1. t.value = "method" => parse_method(t) = c \o d \o parse_end(IF t.value = "main" THEN "main" ELSE "method")
    BY DEF parse_method
  <2>2. t.value = "method" => parse_end(IF t.value = "main" THEN "main" ELSE "method") = e
    OBVIOUS
  <2> HIDE DEF b, c, d, e
  <2>3. QED
    BY <2>1, <2>2 DEF c, d, e
<1>7. QED
  BY <1>1, <1>2, <1>3, <1>4, <1>5, <1>6

\* The block of the constants.
LEMMA ConstantsBlock ==
    ASSUME NEW X, Layout(X), Len(X.consts) > 0
    PROVE  /\ X.text[1] = Period /\ Len(X.text) > 2
           /\ Path(X, Rule("block", X.text[2]), State(1, << >>, 0), Before(X, 1))
<1> DEFINE t == X.text
           m == Len(X.consts)
           c == Keyword("constant")
<1>1. At(t, 0, <<Period, c>>) /\ X.pos[1] = 2 * m + 6
  BY DEF Layout, ConstantsLaid
<1>2. m \in Nat /\ Len(t) \in Nat
  BY LayoutFacts
<1>3. t[1] = Period /\ t[2] = c
  <2> HIDE DEF t, c
  <2>1. t[0 + 1] = Period /\ t[0 + 2] = c
    BY <1>1, AtTuples
  <2>2. QED
    BY <2>1
<1>4. Len(t) > 2
  <2>1. 1 \in 1 .. Len(X.code) + 1
    BY LayoutFacts
  <2>2. X.pos[1] < Len(t)
    BY <2>1, FirstToken
  <2> HIDE DEF t, m
  <2>3. QED
    BY <1>1, <1>2, <2>2 DEF m
<1>5. Rule("block", t[2]) = <<Discard, Call("constants")>>
  BY <1>3, MarkKinds, BlockKinds
<1>6. Does(X, Discard, State(1, << >>, 0), State(2, << >>, 0))
  <2>1. << >> \in Seq({}) /\ 1 < Len(t) /\ 1 + 1 = 2
    BY <1>2, <1>4
  <2>2. Does(X, Discard, State(1, << >>, 0), State(1 + 1, << >>, 0))
    BY <2>1, TokenSteps
  <2>3. QED
    BY <2>1, <2>2
<1>7. Does(X, Call("constants"), State(2, << >>, 0), Before(X, 1))
  <2>1. State(2, << >>, 0) = State(2 * 1, << >>, 1 - 1) /\ 1 \in 1 .. m + 1
    BY <1>2
  <2>2. RuledConstants(X, State(2, << >>, 0), Before(X, 1))
    BY <2>1 DEF RuledConstants
  <2>3. Ruled(X, "constants", State(2, << >>, 0), Before(X, 1))
    BY <2>2 DEF Ruled
  <2>4. 2 \in Nat /\ 2 < Len(t)
    BY <1>2, <1>4
  <2>5. QED
    BY <2>3, <2>4, CallStep
<1>8. QED
  BY <1>3, <1>4, <1>5, <1>6, <1>7, Path2

\* What follows on a function's header is no brace.
LEMMA NoBrace ==
    ASSUME NEW X, Layout(X), NEW i \in 1 .. Len(X.code), X.code[i].op = "function"
    PROVE  X.text[VarStart(X, i) + 1].type # "BracesOpen"
<1> DEFINE f == X.code[i]
           s == VarStart(X, i)
           t == X.text
<1>1. CASE f.vars # << >>
  <2>1. t[s + 1] = Period
    BY <1>1, VarsText
  <2>2. QED
    BY <2>1, MarkKinds
<1>2. CASE f.vars = << >>
  <2>1. X.pos[i + 1] = s
    BY <1>2, VarsText
  <2>2. i + 1 \in 1 .. Len(X.code) + 1
    BY LayoutFacts
  <2>3. t[s + 1] = Period \/ \E w : t[s + 1] = Word(w)
    BY <2>1, <2>2, FirstToken
  <2>4. t[s + 1].type \in {"Period", "Keyword", "Identifier"}
    BY <2>3, MarkKinds
  <2>5. QED
    BY <2>4
<1>3. QED
  BY <1>1, <1>2

\* The block of main.
LEMMA MainBlock ==
    ASSUME NEW X, Layout(X), X.code # << >>, X.code[1].name = "main", NEW j, FirstStop(X, 2, j)
    PROVE  Path(X, Rule("block", X.text[X.pos[1] + 2]), State(X.pos[1] + 1, << >>, Len(X.consts)), Ended(X, j))
<1> DEFINE t == X.text
           p == X.pos[1]
           m == Len(X.consts)
           f == X.code[1]
           s == VarStart(X, 1)
           F == FunctionOf("main", << >>, << >>)
<1>1. Len(X.code) \in Nat /\ 1 \in 1 .. Len(X.code) /\ Len(t) \in Nat /\ m \in Nat
  <2>1. Len(X.code) \in Nat /\ X.code \in Seq(JasCalls) /\ Len(t) \in Nat /\ m \in Nat
    BY LayoutFacts
  <2>2. QED
    BY <2>1
<1>2. f.op = "function" /\ f.args = << >>
  BY <1>1 DEF Layout, Orderly
<1>3. p + 2 <= Len(t) /\ t[p + 2] = Keyword("main")
  BY <1>1, <1>2, FunctionText
<1>4. s = p + 2 /\ m + 1 - 1 = m
  BY <1>1 DEF VarStart
<1>5. p \in Nat /\ p + 1 \in Nat /\ p + 2 \in Nat /\ p + 1 < Len(t) /\ (p + 1) + 1 = p + 2
  <2>1. 1 \in 1 .. Len(X.code) + 1
    BY <1>1
  <2>2. p \in Nat
    BY <2>1, LayoutFacts
  <2> HIDE DEF p, t
  <2>3. QED
    BY <1>1, <1>3, <2>2
<1>6. WithVars(X, 1, 0) = F
  <2>1. WithArgs(X, 1, 0) = FunctionOf(f.name, << >>, << >>) /\ WithArgs(X, 1, 0) = WithVars(X, 1, 0)
    BY <1>1, <1>2, WithAll
  <2>2. QED
    BY <2>1
<1>7. FirstStop(X, 1 + 1, j)
  OBVIOUS
<1> DEFINE b == <<Call("vars"), Make("call"), Call("code")>>
           e == parse_end("main")
           y == State(p + 2, <<F>>, m)
<1>8. Path(X, b, y, Stopped(X, j)) /\ p + 2 < Len(t)
  BY <1>1, <1>2, <1>4, <1>6, <1>7, BodyPath
<1>9. Path(X, e, Stopped(X, j), Ended(X, j))
  <2>1. Path(X, parse_end(IF f.name = "main" THEN "main" ELSE "method"), Stopped(X, j), Ended(X, j))
    BY <1>1, <1>2, <1>7, EndRule
  <2>2. QED
    BY <2>1
<1>10. Path(X, parse_main, State(p + 1, << >>, m), y)
  <2>1. Does(X, Discard, State(p + 1, << >>, m), State(p + 2, << >>, m))
    <3>1. << >> \in Seq({})
      OBVIOUS
    <3>2. Does(X, Discard, State(p + 1, << >>, m), State((p + 1) + 1, << >>, m))
      BY <1>5, <3>1, TokenSteps
    <3>3. QED
      BY <1>5, <3>2
  <2>2. Does(X, Push(F), State(p + 2, << >>, m), y)
    BY PushStep
  <2>3. Does(X, Call("braces"), y, y)
    <3>1. t[(p + 2) + 1].type # "BracesOpen"
      BY <1>1, <1>2, <1>4, NoBrace
    <3>2. y.p = p + 2
      BY StateParts
    <3>3. RuledBraces(X, y, y)
      BY <3>1, <3>2 DEF RuledBraces
    <3>4. Ruled(X, "braces", y, y)
      BY <3>3 DEF Ruled
    <3>5. QED
      BY <1>5, <1>8, <3>4, CallStep
  <2>4. QED
    BY <2>1, <2>2, <2>3, Path3 DEF parse_main
<1> HIDE DEF b, e, y
<1>11. Path(X, parse_main \o b \o e, State(p + 1, << >>, m), Ended(X, j))
  <2>1. Path(X, parse_main \o b, State(p + 1, << >>, m), Stopped(X, j))
    BY <1>8, <1>10, PathConcat
  <2>2. QED
    BY <1>9, <2>1, PathConcat
<1>12. Rule("block", t[p + 2]) = parse_main \o b \o e
  BY <1>3, MarkKinds, BlockKinds DEF b, e
<1>13. QED
  BY <1>11, <1>12

\* A path of six steps.
LEMMA SixSteps ==
    ASSUME NEW X, NEW a, NEW b, NEW c, NEW d, NEW e, NEW f, NEW x, NEW y, NEW z,
           Path(X, <<a, b, c, d>>, x, y), Path(X, <<e, f>>, y, z)
    PROVE  Path(X, <<a, b, c, d, e, f>>, x, z)
<1>1. <<a, b, c, d>> \o <<e, f>> = <<a, b, c, d, e, f>>
  <2> DEFINE S == {a, b, c, d, e, f}
             s == <<a, b, c, d>>
             t == <<e, f>>
             u == <<a, b, c, d, e, f>>
             v == s \o t
  <2>1. s \in Seq(S) /\ t \in Seq(S) /\ u \in Seq(S) /\ Len(s) = 4 /\ Len(t) = 2 /\ Len(u) = 6
    OBVIOUS
  <2>2. s[1] = a /\ s[2] = b /\ s[3] = c /\ s[4] = d /\ t[1] = e /\ t[2] = f
    OBVIOUS
  <2>3. u[1] = a /\ u[2] = b /\ u[3] = c /\ u[4] = d /\ u[5] = e /\ u[6] = f
    OBVIOUS
  <2> HIDE DEF S, s, t, u
  <2>4. /\ v \in Seq(S) /\ Len(v) = Len(s) + Len(t)
        /\ \A i \in 1 .. Len(s) + Len(t) : v[i] = IF i <= Len(s) THEN s[i] ELSE t[i - Len(s)]
    BY <2>1, ConcatProperties
  <2> HIDE DEF v
  <2>5. v \in Seq(S) /\ Len(v) = 6 /\ \A i \in 1 .. 6 : v[i] = IF i <= 4 THEN s[i] ELSE t[i - 4]
    BY <2>1, <2>4
  <2>6. v[1] = a /\ v[2] = b /\ v[3] = c /\ v[4] = d /\ v[5] = e /\ v[6] = f
    BY <2>2, <2>5
  <2>7. \A i \in 1 .. Len(v) : v[i] = u[i]
    BY <2>3, <2>5, <2>6
  <2>8. v = u
    BY <2>1, <2>5, <2>7, SeqEqual
  <2>9. QED
    BY <2>8 DEF v, s, t, u
<1>2. QED
  BY <1>1, PathConcat

\* The block of a method.
LEMMA MethodBlock ==
    ASSUME NEW X, Layout(X), NEW i \in 1 .. Len(X.code), Named(X, i), NEW j, FirstStop(X, i + 1, j)
    PROVE  /\ X.text[X.pos[i] + 5] = Period /\ X.pos[i] + 9 <= Len(X.text)
           /\ Path(X, Rule("block", X.text[X.pos[i] + 6]),
                   State(X.pos[i] + 5, << >>, Len(X.consts) + i - 1), Ended(X, j))
<1> DEFINE t == X.text
           p == X.pos[i]
           k == Len(X.consts) + i - 1
           f == X.code[i]
           s == VarStart(X, i)
           w == f.name
           n == Len(Listed(f.args))
           c == WithArgs(X, i, 0)
           v == WithVars(X, i, 0)
<1>1. f.op = "function" /\ f.name # "main"
  BY DEF Named
<1>2. p \in Nat /\ Len(t) \in Nat
  <2>1. i \in 1 .. Len(X.code) + 1
    BY LayoutFacts
  <2>2. QED
    BY <2>1, LayoutFacts
<1>3. /\ n \in Nat /\ p + 9 + n <= Len(t)
      /\ t[p + 5] = Period /\ t[p + 6] = Keyword("method")
      /\ t[p + 7] = Word(w) /\ t[p + 8] = BracesOpen
      /\ t[p + 9 + n] = BracesClose
  BY <1>1, FunctionText
<1>4. s = p + 9 + n
  BY <1>1 DEF VarStart
<1>5. /\ p + 5 \in Nat /\ p + 6 \in Nat /\ p + 7 \in Nat /\ p + 8 \in Nat /\ p + 8 + n \in Nat
      /\ p + 5 < Len(t) /\ p + 6 < Len(t) /\ p + 7 < Len(t) /\ p + 8 < Len(t) /\ p + 8 + n < Len(t) /\ p + 9 <= Len(t)
      /\ (p + 5) + 1 = p + 6 /\ (p + 6) + 1 = p + 7 /\ (p + 7) + 1 = p + 8 /\ (p + 8) + 1 = p + 9 /\ (p + 8 + n) + 1 = p + 9 + n
  <2>1. n \in Nat /\ p + 9 + n <= Len(t)
    BY <1>3
  <2> HIDE DEF p, n, t
  <2>2. QED
    BY <1>2, <2>1
<1>6. w \in keywords => ~ Fine(X)
  BY <1>1, FunctionWords
<1>7. c = FunctionOf(w, << >>, << >>)
  BY <1>1, WithAll
<1> DEFINE b == <<Call("vars"), Make("call"), Call("code")>>
           e == parse_end("method")
           y0 == State(p + 5, << >>, k)
           y1 == State(p + 6, << >>, k)
           y2 == State(p + 7, <<Ident(w)>>, k)
           y3 == State(p + 7, <<c>>, k)
           y4 == State(p + 8, <<c>>, k)
           y5 == State(p + 8 + n, <<v>>, k)
           y6 == State(p + 9 + n, <<v>>, k)
<1>8. Path(X, b, y6, Stopped(X, j))
  BY <1>1, <1>4, BodyPath
<1>9. Path(X, e, Stopped(X, j), Ended(X, j))
  <2>1. Path(X, parse_end(IF f.name = "main" THEN "main" ELSE "method"), Stopped(X, j), Ended(X, j))
    BY <1>1, EndRule
  <2>2. QED
    BY <1>1, <2>1
<1> HIDE DEF w, c, v
<1>10. Does(X, Discard, y0, y1)
  <2>1. << >> \in Seq({})
    OBVIOUS
  <2>2. Does(X, Discard, y0, State((p + 5) + 1, << >>, k))
    BY <1>5, <2>1, TokenSteps
  <2>3. QED
    BY <1>5, <2>2
<1>11. Does(X, parse_identifier, y1, y2)
  <2>1. t[(p + 6) + 1] = Word(w)
    BY <1>3, <1>5
  <2>2. Does(X, parse_identifier, y1, State((p + 6) + 1, <<Ident(w)>>, k))
    BY <1>5, <1>6, <2>1, WordSteps
  <2>3. QED
    BY <1>5, <2>2
<1>12. Does(X, Make("method"), y2, y3)
  <2>1. y2.b = <<Ident(w)>> /\ y2.p = p + 7 /\ y2.k = k
    BY StateParts
  <2>2. y3 = State(y2.p, <<FunctionOf(w, << >>, << >>)>>, y2.k)
    BY <1>7, <2>1
  <2> HIDE DEF y2, y3
  <2>3. Made(X, "method", y2, y3)
    BY <2>1, <2>2 DEF Made
  <2>4. QED
    BY <2>3, MakeStep
<1>13. Does(X, Expect("BracesOpen"), y3, y4)
  <2>1. <<c>> \in Seq({c})
    OBVIOUS
  <2>2. t[(p + 7) + 1].type = "BracesOpen"
    BY <1>3, <1>5, MarkKinds
  <2>3. Does(X, Expect("BracesOpen"), y3, State((p + 7) + 1, <<c>>, k))
    BY <1>5, <2>1, <2>2, TokenSteps
  <2>4. QED
    BY <1>5, <2>3
<1>14. Does(X, Expect("BracesClose"), y5, y6)
  <2>1. <<v>> \in Seq({v})
    OBVIOUS
  <2>2. t[(p + 8 + n) + 1].type = "BracesClose"
    BY <1>3, <1>5, MarkKinds
  <2>3. Does(X, Expect("BracesClose"), y5, State((p + 8 + n) + 1, <<v>>, k))
    BY <1>5, <2>1, <2>2, TokenSteps
  <2>4. QED
    BY <1>5, <2>3
<1>15. Path(X, <<Call("args"), Expect("BracesClose")>>, y4, y6)
  <2>1. /\ f.args \in Seq(STRING) /\ (f.args = << >> => n = 0)
        /\ \A o \in 1 .. Len(f.args) : t[p + 8 + 2 * o - 1] = Word(f.args[o])
    BY ArgsText
  <2>2. y4.p = p + 8
    BY StateParts
  <2>3. CASE f.args # << >> /\ f.args[1] \notin keywords
    <3>1. RuledArgs(X, y4, y5)
      BY <2>3 DEF RuledArgs, c, v
    <3>2. Ruled(X, "args", y4, y5)
      BY <3>1 DEF Ruled
    <3>3. Does(X, Call("args"), y4, y5)
      BY <1>5, <3>2, CallStep
    <3>4. QED
      BY <1>14, <3>3, Path2
  <2>4. ASSUME t[p + 9].type # "Identifier"
        PROVE  Does(X, Call("args"), y4, y4)
    <3>1. RuledArgs(X, y4, y4)
      BY <1>5, <2>2, <2>4 DEF RuledArgs
    <3>2. Ruled(X, "args", y4, y4)
      BY <3>1 DEF Ruled
    <3>3. QED
      BY <1>5, <3>2, CallStep
  <2>5. CASE f.args = << >>
    <3>1. n = 0
      BY <2>1, <2>5
    <3>2. p + 9 + n = p + 9 /\ p + 8 + n = p + 8
      BY <1>2, <3>1
    <3>3. t[p + 9].type # "Identifier"
      BY <1>3, <3>2, MarkKinds
    <3>4. c = v
      BY <1>1, <2>5, WithAll DEF c, v
    <3>5. y4 = y5
      BY <3>2, <3>4
    <3>6. QED
      BY <1>14, <2>4, <3>3, <3>5, Path2
  <2>6. CASE f.args # << >> /\ f.args[1] \in keywords
    <3>1. 1 \in 1 .. Len(f.args) /\ p + 8 + 2 * 1 - 1 = p + 9
      BY <1>2, <2>1, <2>6
    <3>2. t[p + 9] = Word(f.args[1])
      BY <2>1, <3>1
    <3>3. t[p + 9].type = "Keyword"
      BY <2>6, <3>2 DEF Word, Keyword, Token
    <3>4. ~ Fine(X)
      BY <1>1, <2>6, <3>1, FunctionWords
    <3>5. t[(p + 8) + 1].type # "BracesClose"
      BY <1>5, <3>3
    <3>6. Does(X, Expect("BracesClose"), y4, y6)
      BY <1>5, <3>4, <3>5, WrongTokens
    <3>7. QED
      BY <2>4, <3>3, <3>6, Path2
  <2>7. QED
    BY <2>3, <2>5, <2>6
<1> HIDE DEF y0, y1, y2, y3, y4, y5, y6, b, e
<1>16. Path(X, parse_named, y0, y6)
  <2>1. Path(X, <<Discard, parse_identifier, Make("method"), Expect("BracesOpen")>>, y0, y4)
    BY <1>10, <1>11, <1>12, <1>13, Path4
  <2>2. QED
    BY <1>15, <2>1, SixSteps DEF parse_named
<1>17. Path(X, parse_named \o b \o e, y0, Ended(X, j))
  <2>1. Path(X, parse_named \o b, y0, Stopped(X, j))
    BY <1>8, <1>16, PathConcat
  <2>2. QED
    BY <1>9, <2>1, PathConcat
<1>18. Rule("block", t[p + 6]) = parse_named \o b \o e
  <2>1. t[p + 6].type = "Keyword" /\ t[p + 6].value = "method"
    BY <1>3, MarkKinds
  <2> HIDE DEF t, p
  <2>2. QED
    BY <2>1, BlockKinds DEF b, e
<1>19. QED
  BY <1>3, <1>5, <1>17, <1>18 DEF y0

\* A text without a main in front is not readable.
LEMMA NoMainBlock ==
    ASSUME NEW X, Layout(X), X.code = << >> \/ X.code[1].name # "main"
    PROVE  Path(X, Rule("block", X.text[X.pos[1] + 2]), State(X.pos[1] + 1, << >>, Len(X.consts)), Dead)
<1> DEFINE t == X.text
           p == X.pos[1]
           n == Len(X.code)
           b == Keyword("end")
           g == Operator("-")
           d == Keyword(written_for(X.code, 1))
<1>1. n \in Nat /\ (X.code # << >> => 1 \in 1 .. n) /\ (X.code = << >> => n = 0) /\ t \in Seq(JasTokens)
  <2>1. X.code \in Seq(JasCalls) /\ t \in Seq(JasTokens)
    BY LayoutFacts
  <2>2. QED
    BY <2>1
<1>2. X.code # << >> => X.code[1].op = "function"
  BY DEF Layout, Orderly
<1>3. Resumes(X, 1)
  BY <1>1, <1>2 DEF Resumes, Named
<1>4. 1 \in 1 .. n + 1
  BY <1>1
<1>5. At(t, p, Ending(written_for(X.code, 1)))
  BY <1>3, <1>4, FirstToken
<1>6. t[p + 2] = b
  <2>1. At(t, p, <<Period, b, g, d>>)
    BY <1>5 DEF Ending
  <2> HIDE DEF b, g, d, t, p
  <2>2. QED
    BY <2>1, AtTuples
<1>7. Rule("block", t[p + 2]) = <<Fail>>
  BY <1>6, MarkKinds, BlockKinds
<1>8. ~ Fine(X)
  <2>1. Fine(X) => X.code # << >> /\ (1 \in 1 .. n => X.code[1].name = "main")
    BY DEF Fine
  <2>2. QED
    BY <1>1, <2>1
<1>9. Does(X, Fail, State(p + 1, << >>, Len(X.consts)), Dead)
  BY <1>8, FailStep
<1>10. QED
  BY <1>7, <1>9, Path1

\* A block of any kind.
LEMMA BlockRule ==
    ASSUME NEW X, Layout(X), NEW a, NEW z, RuledBlock(X, a, z)
    PROVE  Path(X, Rule("block", X.text[a.p + 1]), a, z)
<1>1. CASE Len(X.consts) > 0 /\ a = State(1, << >>, 0) /\ z = Before(X, 1)
  <2>1. a.p + 1 = 2
    BY <1>1, StateParts
  <2>2. QED
    BY <1>1, <2>1, ConstantsBlock
<1>2. CASE /\ a = State(X.pos[1] + 1, << >>, Len(X.consts))
           /\ IF X.code # << >> /\ X.code[1].name = "main" THEN Behind(X, 1, z) ELSE z = Dead
  <2>1. 1 \in 1 .. Len(X.code) + 1 /\ X.pos[1] \in Nat
    BY LayoutFacts
  <2>2. a.p + 1 = X.pos[1] + 2
    <3>1. a.p = X.pos[1] + 1
      BY <1>2, StateParts
    <3>2. QED
      BY <2>1, <3>1
  <2>3. CASE X.code # << >> /\ X.code[1].name = "main"
    <3>1. PICK j : FirstStop(X, 1 + 1, j) /\ z = Ended(X, j)
      BY <1>2, <2>3 DEF Behind
    <3>2. FirstStop(X, 2, j)
      BY <3>1
    <3>3. QED
      BY <1>2, <2>2, <2>3, <3>1, <3>2, MainBlock
  <2>4. CASE ~(X.code # << >> /\ X.code[1].name = "main")
    BY <1>2, <2>2, <2>4, NoMainBlock
  <2>5. QED
    BY <2>3, <2>4
<1>3. ASSUME NEW i \in 2 .. Len(X.code), Named(X, i),
             a = State(X.pos[i] + 5, << >>, Len(X.consts) + i - 1), Behind(X, i, z)
      PROVE  Path(X, Rule("block", X.text[a.p + 1]), a, z)
  <2>1. PICK j : FirstStop(X, i + 1, j) /\ z = Ended(X, j)
    BY <1>3 DEF Behind
  <2>2. i \in 1 .. Len(X.code) /\ X.pos[i] \in Nat
    <3>1. Len(X.code) \in Nat /\ i \in 1 .. Len(X.code) + 1
      BY LayoutFacts
    <3>2. QED
      BY <3>1, LayoutFacts
  <2>3. a.p + 1 = X.pos[i] + 6
    <3>1. a.p = X.pos[i] + 5
      BY <1>3, StateParts
    <3>2. QED
      BY <2>2, <3>1
  <2>4. QED
    BY <1>3, <2>1, <2>2, <2>3, MethodBlock
<1>4. QED
  BY <1>1, <1>2, <1>3 DEF RuledBlock

\* A block that begins, and what is behind it.
LEMMA BlockAhead ==
    ASSUME NEW X, Layout(X), NEW a, RuledToplevel(X, a), a.p < Len(X.text)
    PROVE  /\ a.p \in Nat /\ a.p + 1 < Len(X.text) /\ X.text[a.p + 1] = Period /\ a.b = << >>
           /\ a = State(a.p, << >>, a.k)
           /\ \E z : RuledBlock(X, State(a.p + 1, << >>, a.k), z) /\ (RuledToplevel(X, z) \/ z = Dead)
<1> DEFINE t == X.text
           m == Len(X.consts)
           n == Len(X.code)
<1>1. n \in Nat /\ m \in Nat /\ Len(t) \in Nat /\ t \in Seq(JasTokens)
  BY LayoutFacts
<1>2. ASSUME NEW i \in 1 .. n
      PROVE  \E z : Behind(X, i, z) /\ (RuledToplevel(X, z) \/ z = Dead)
  <2>1. CASE i + 1 \in 1 .. n + 1
    <3>1. PICK j : FirstStop(X, i + 1, j)
      BY <1>1, <2>1, StopsSomewhere
    <3>2. j \in 2 .. n + 1
      BY <1>1, <3>1 DEF FirstStop
    <3>3. RuledToplevel(X, Ended(X, j)) \/ Ended(X, j) = Dead
      <4>1. CASE Resumes(X, j)
        BY <3>2, <4>1 DEF RuledToplevel
      <4>2. CASE ~ Resumes(X, j)
        BY <4>2 DEF Ended
      <4>3. QED
        BY <4>1, <4>2
    <3>4. Behind(X, i, Ended(X, j))
      BY <3>1 DEF Behind
    <3>5. QED
      BY <3>3, <3>4
  <2>2. QED
    BY <1>1, <2>1
<1>3. CASE m > 0 /\ a = State(0, << >>, 0)
  <2>1. a.p = 0 /\ a.b = << >> /\ a.k = 0
    BY <1>3, StateParts
  <2>2. t[1] = Period /\ Len(t) > 2
    BY <1>3, ConstantsBlock
  <2>3. RuledBlock(X, State(a.p + 1, << >>, a.k), Before(X, 1))
    BY <1>3, <2>1 DEF RuledBlock
  <2>4. RuledToplevel(X, Before(X, 1))
    BY DEF RuledToplevel
  <2>5. QED
    BY <1>1, <1>3, <2>1, <2>2, <2>3, <2>4
<1>4. CASE a = Before(X, 1)
  <2> DEFINE p == X.pos[1]
  <2>1. 1 \in 1 .. n + 1 /\ m + 1 - 1 = m
    BY <1>1
  <2>2. a = State(p, << >>, m) /\ a.p = p /\ a.b = << >> /\ a.k = m
    <3>1. a = State(p, << >>, m)
      BY <1>4, <2>1 DEF Before
    <3>2. QED
      BY <3>1, StateParts
  <2>3. p \in Nat
    BY <2>1, LayoutFacts
  <2>4. FunctionAt(X, 1)
    <3>1. X.code = << >> => n = 0
      OBVIOUS
    <3>2. X.code # << >> => X.code[1].op = "function"
      BY DEF Layout, Orderly
    <3>3. QED
      BY <3>1, <3>2 DEF FunctionAt
  <2>5. t[p + 1] = Period
    BY <2>1, <2>4, FirstToken
  <2>6. p + 1 < Len(t)
    <3>1. CASE Resumes(X, 1)
      <4>1. At(t, p, Ending(written_for(X.code, 1)))
        BY <2>1, <3>1, FirstToken
      <4>2. written_for(X.code, 1) \in keywords
        BY DEF written_for, keywords
      <4>3. Len(Ending(written_for(X.code, 1))) = 4
        BY <4>2, EndingType
      <4>4. p + 4 <= Len(t)
        BY <4>1, <4>3 DEF At
      <4> HIDE DEF p, t
      <4>5. QED
        BY <1>1, <2>3, <4>4
    <3>2. CASE ~ Resumes(X, 1)
      <4>1. p + 2 <= Len(t)
        BY <2>1, <2>4, <3>2, FirstToken
      <4> HIDE DEF p, t
      <4>2. QED
        BY <1>1, <2>3, <4>1
    <3>3. QED
      BY <3>1, <3>2
  <2>7. \E z : RuledBlock(X, State(p + 1, << >>, m), z) /\ (RuledToplevel(X, z) \/ z = Dead)
    <3>1. CASE X.code # << >> /\ X.code[1].name = "main"
      <4>1. X.code \in Seq(JasCalls)
        BY LayoutFacts
      <4>2. 1 \in 1 .. n
        BY <3>1, <4>1
      <4>3. PICK z : Behind(X, 1, z) /\ (RuledToplevel(X, z) \/ z = Dead)
        BY <1>2, <4>2
      <4>4. QED
        BY <3>1, <4>3 DEF RuledBlock
    <3>2. CASE ~(X.code # << >> /\ X.code[1].name = "main")
      BY <3>2 DEF RuledBlock
    <3>3. QED
      BY <3>1, <3>2
  <2>8. QED
    BY <2>2, <2>3, <2>5, <2>6, <2>7
<1>5. ASSUME NEW i \in 2 .. n + 1, Resumes(X, i), a = Ended(X, i)
      PROVE  /\ a.p \in Nat /\ a.p + 1 < Len(t) /\ t[a.p + 1] = Period /\ a.b = << >>
             /\ a = State(a.p, << >>, a.k)
             /\ \E z : RuledBlock(X, State(a.p + 1, << >>, a.k), z) /\ (RuledToplevel(X, z) \/ z = Dead)
  <2> DEFINE p == X.pos[i]
             k == m + i - 1
  <2>1. a = State(p + 4, << >>, k)
    BY <1>5 DEF Ended
  <2>2. a.p = p + 4 /\ a.b = << >> /\ a.k = k
    BY <2>1, StateParts
  <2>3. i \in 1 .. n + 1
    BY <1>1
  <2>4. p \in Nat
    BY <2>3, LayoutFacts
  <2>5. i # n + 1
    <3>1. Len(t) = X.pos[n + 1] + 4
      BY LayoutFacts
    <3>2. a.p < Len(t)
      OBVIOUS
    <3>3. i = n + 1 => a.p = Len(t)
      BY <2>2, <3>1
    <3>4. QED
      BY <1>1, <3>2, <3>3
  <2>6. i \in 1 .. n /\ i \in 2 .. n /\ Named(X, i)
    BY <1>1, <1>5, <2>5 DEF Resumes
  <2>7. PICK z : Behind(X, i, z) /\ (RuledToplevel(X, z) \/ z = Dead)
    BY <1>2, <2>6
  <2>8. PICK j : FirstStop(X, i + 1, j)
    BY <2>7 DEF Behind
  <2>9. t[p + 5] = Period /\ p + 9 <= Len(t)
    BY <2>6, <2>8, MethodBlock
  <2>10. (p + 4) + 1 = p + 5 /\ p + 5 < Len(t) /\ p + 4 \in Nat
    <3> HIDE DEF p, t
    <3>1. QED
      BY <1>1, <2>4, <2>9
  <2>11. RuledBlock(X, State(p + 5, << >>, k), z)
    BY <2>6, <2>7 DEF RuledBlock
  <2>12. QED
    BY <2>1, <2>2, <2>7, <2>9, <2>10, <2>11
<1>6. QED
  BY <1>3, <1>4, <1>5 DEF RuledToplevel

\* The blocks, one after the other.
LEMMA ToplevelRule ==
    ASSUME NEW X, Layout(X), NEW a, RuledToplevel(X, a), a.p < Len(X.text), NEW z
    PROVE  Path(X, Rule("toplevel", X.text[a.p + 1]), a, z)
<1> DEFINE p == a.p
           k == a.k
           t == X.text
           b == State(p + 1, << >>, k)
<1>1. p \in Nat /\ p + 1 < Len(t) /\ t[p + 1] = Period /\ a = State(p, << >>, k)
  BY BlockAhead
<1>2. PICK y : RuledBlock(X, b, y) /\ (RuledToplevel(X, y) \/ y = Dead)
  BY BlockAhead
<1>3. Does(X, Discard, a, b)
  <2>1. << >> \in Seq({}) /\ p < Len(t)
    OBVIOUS
  <2> HIDE DEF p, k, t
  <2>2. Does(X, Discard, State(p, << >>, k), b)
    BY <1>1, <2>1, TokenSteps DEF t
  <2>3. QED
    BY <1>1, <2>2
<1>4. Does(X, Call("block"), b, y)
  <2>1. Ruled(X, "block", b, y)
    BY <1>2 DEF Ruled
  <2>2. p + 1 \in Nat
    BY <1>1
  <2>3. QED
    BY <1>1, <2>1, <2>2, CallStep
<1>5. Does(X, Call("toplevel"), y, z)
  <2>1. CASE y = Dead
    BY <2>1, DeadSteps
  <2>2. CASE RuledToplevel(X, y)
    <3>1. Ruled(X, "toplevel", y, z)
      BY <2>2 DEF Ruled
    <3>2. Call("toplevel").do = "call" /\ Call("toplevel").a = "toplevel"
      BY Items
    <3>3. QED
      BY <3>1, <3>2 DEF Does
  <2>3. QED
    BY <1>2, <2>1, <2>2
<1>6. Rule("toplevel", t[p + 1]) = <<Discard, Call("block"), Call("toplevel")>>
  BY <1>1, MarkKinds DEF Rule, parse_toplevel
<1>7. QED
  BY <1>3, <1>4, <1>5, <1>6, Path3

\* What a function of the reader does leads where it should.
LEMMA RuleLeads ==
    ASSUME NEW X, Layout(X), NEW r, NEW a, NEW z, Ruled(X, r, a, z), a.p < Len(X.text)
    PROVE  Path(X, Rule(r, X.text[a.p + 1]), a, z)
<1>1. X.text \in Seq(JasTokens)
  BY LayoutFacts
<1>2. CASE r = "toplevel" /\ RuledToplevel(X, a)
  BY <1>2, ToplevelRule
<1>3. CASE r = "block" /\ RuledBlock(X, a, z)
  BY <1>3, BlockRule
<1>4. CASE r = "constants" /\ RuledConstants(X, a, z)
  BY <1>4, ConstantsRule
<1>5. CASE r = "value" /\ RuledValue(X, a, z)
  BY <1>5, ValueRule
<1>6. CASE r = "immediate" /\ RuledImmediate(X, a, z)
  BY <1>1, <1>6, ImmediateRule
<1>7. CASE r = "braces" /\ RuledBraces(X, a, z)
  BY <1>7, BracesRule
<1>8. CASE r = "args" /\ RuledArgs(X, a, z)
  BY <1>8, ArgsRule
<1>9. CASE r = "more_args" /\ RuledMoreArgs(X, a, z)
  BY <1>9, MoreArgsRule
<1>10. CASE r = "vars" /\ RuledVars(X, a, z)
  BY <1>10, VarsRule
<1>11. CASE r = "var_names" /\ RuledVarNames(X, a, z)
  BY <1>11, VarNamesRule
<1>12. CASE r = "code" /\ RuledCode(X, a, z)
  BY <1>12, CodeRule
<1>13. CASE r = "op" /\ RuledOp(X, a, z)
  BY <1>13, OpRule
<1>14. QED
  BY <1>2, <1>3, <1>4, <1>5, <1>6, <1>7, <1>8, <1>9, <1>10, <1>11, <1>12, <1>13 DEF Ruled

-----------------------------------------------------------------------------
(* The writer.                                                             *)

\* What is written of the first calls is laid out as they were made.
WInv ==
    phase = "writing" =>
        /\ CodeKept(script, said, cs, closing)
        /\ ConstantsKept(script, said, constant_order, constant_map)
        /\ cache = << >> /\ todo = <<Call("toplevel")>> /\ built = << >> /\ heard = << >>

\* Nothing is written yet.
LEMMA InitWInv == Init => WInv
<1> SUFFICES ASSUME Init
             PROVE  WInv
  OBVIOUS
<1>1. /\ said = 0 /\ constant_order = << >> /\ constant_map = [c \in {} |-> 0] /\ cs = << >>
      /\ fn_declared = FALSE /\ heard = << >> /\ cache = << >> /\ todo = <<Call("toplevel")>> /\ built = << >>
  BY DEF Init
<1>2. InOrder(script, CodeIn(script, 0)) = << >> /\ InOrder(script, FirstIn(script, 0)) = << >>
  <2>1. 0 \in Nat
    OBVIOUS
  <2>2. CodeIn(script, 0) = {} /\ FirstIn(script, 0) = {}
    BY <2>1, CodeGrows, FirstGrows
  <2>3. QED
    BY <2>2, InOrderEmpty
<1>3. Laid(<< >>, << >>)
  <2> DEFINE at == [i \in 1 .. 1 |-> 0]
             e == << >>
  <2>1. e \in Seq(JasTokens) /\ e \in Seq(JasCalls) /\ Len(e) = 0
    OBVIOUS
  <2>2. at \in [1 .. 1 -> Nat] /\ at[1] = 0
    OBVIOUS
  <2> HIDE DEF at, e
  <2>3. at \in [1 .. Len(e) + 1 -> Nat] /\ at[Len(e) + 1] = Len(e)
    BY <2>1, <2>2
  <2>4. \A i \in 1 .. Len(e) : At(e, at[i], Chunk(e, i)) /\ at[i + 1] = at[i] + Len(Chunk(e, i))
    BY <2>1
  <2>5. Laid(e, e)
    BY <2>1, <2>2, <2>3, <2>4 DEF Laid
  <2>6. QED
    BY <2>5 DEF e
<1>4. written_for(<< >>, 1) = "main"
  BY DEF written_for
<1>5. CodeKept(script, said, cs, closing)
  <2> DEFINE e == << >>
  <2>1. Len(e) = 0 /\ Len(e) + 1 = 1
    OBVIOUS
  <2>2. closing = Ending("main")
    BY <1>1 DEF closing
  <2>3. InOrder(script, CodeIn(script, said)) = e /\ Laid(cs, e) /\ written_for(e, 1) = "main"
    BY <1>1, <1>2, <1>3, <1>4
  <2> HIDE DEF e
  <2>4. closing = Ending(written_for(e, Len(e) + 1))
    BY <2>1, <2>2, <2>3
  <2>5. \A i \in 1 .. Len(e) : e[i].op # "constant"
    BY <2>1
  <2>6. QED
    BY <2>3, <2>4, <2>5 DEF CodeKept
<1>6. ConstantsKept(script, said, constant_order, constant_map)
  <2> DEFINE e == << >>
  <2>1. Len(e) = 0 /\ e \in Seq(JasCalls) /\ e \in Seq(STRING)
    OBVIOUS
  <2>2. constant_order = e /\ InOrder(script, FirstIn(script, said)) = e
    BY <1>1, <1>2
  <2>3. DOMAIN constant_map = {}
    BY <1>1
  <2>4. \A nm : ConstantIn(script, nm, said) = {}
    <3>1. 0 \in Nat /\ said = 0
      BY <1>1
    <3>2. QED
      BY <3>1, ConstantsGrow
  <2> HIDE DEF e
  <2>5. QED
    BY <2>1, <2>2, <2>3, <2>4 DEF ConstantsKept
<1>7. QED
  BY <1>1, <1>5, <1>6 DEF WInv

\* A call is written behind the others.
LEMMA WriteKeepsWInv ==
    ASSUME IInv, WInv, constant \/ function \/ label \/ Instruction
    PROVE  WInv'
<1> DEFINE x == next_call
<1>1. /\ script \in Seq(JasCalls) /\ said \in Nat /\ said \in 0 .. Len(script) - 1
      /\ said' = said + 1 /\ script' = script /\ phase = "writing"
      /\ cache' = cache /\ todo' = todo /\ built' = built /\ heard' = heard
  <2>1. /\ said' = said + 1 /\ script' = script /\ phase = "writing" /\ said < Len(script)
        /\ cache' = cache /\ todo' = todo /\ built' = built /\ heard' = heard
    BY DEF constant, function, label, Instruction, Said, Make1, readVars
  <2>2. script \in Seq(JasCalls) /\ said \in 0 .. Len(script)
    BY DEF IInv
  <2>3. QED
    BY <2>1, <2>2
<1>2. /\ CodeKept(script, said, cs, closing)
      /\ ConstantsKept(script, said, constant_order, constant_map)
      /\ cache = << >> /\ todo = <<Call("toplevel")>> /\ built = << >> /\ heard = << >>
  BY <1>1 DEF WInv
<1>3. CASE constant
  <2>1. x.op = "constant" /\ cs' = cs /\ closing' = closing
    BY <1>3 DEF constant, Make1, next_call, closing
  <2>2. /\ constant_order' = IF x.name \in DOMAIN constant_map THEN constant_order
                             ELSE Append(constant_order, x.name)
        /\ constant_map' = [c \in DOMAIN constant_map \cup {x.name} |->
                               IF c = x.name THEN x.n ELSE constant_map[c]]
    BY <1>3 DEF constant, constant_value
  <2>3. ConstantsKept(script, said + 1, constant_order', constant_map')
    BY <1>1, <1>2, <2>1, <2>2, ConstantKept DEF next_call
  <2>4. CodeKept(script, said + 1, cs, closing)
    BY <1>1, <1>2, <2>1, CodeKeptByConstant DEF next_call
  <2>5. QED
    BY <1>1, <1>2, <2>1, <2>3, <2>4 DEF WInv
<1>4. CASE function \/ label \/ Instruction
  <2> DEFINE text == CASE x.op = "function" -> header(x, closing) \o declared(x)
                       [] x.op = "label"    -> <<Word(x.name), Colon>>
                       [] OTHER             -> instruction(x)
  <2>1. x.op # "constant" /\ cs' = cs \o text
        /\ closing' = IF x.op = "function" /\ x.name # "main" THEN Ending("method") ELSE closing
    <3>1. CASE function
      <4>1. x.op = "function"
        BY <3>1 DEF function, Make1, next_call
      <4>2. cs' = cs \o (header(x, closing) \o declared(x)) /\ fn_declared' = (fn_declared \/ x.name # "main")
        BY <3>1 DEF function
      <4>3. closing' = IF x.name # "main" THEN Ending("method") ELSE closing
        BY <4>2 DEF closing
      <4>4. QED
        BY <4>1, <4>2, <4>3
    <3>2. CASE label
      <4>1. x.op = "label" /\ cs' = cs \o <<Word(x.name), Colon>> /\ fn_declared' = fn_declared
        BY <3>2 DEF label, Make1, next_call
      <4>2. closing' = closing
        BY <4>1 DEF closing
      <4>3. QED
        BY <4>1, <4>2
    <3>3. CASE Instruction
      <4>1. /\ x.op \in PlainOps \cup NameOps \cup ImmOps
            /\ cs' = cs \o instruction(x) /\ fn_declared' = fn_declared
        BY <3>3 DEF Instruction, Make1, next_call
      <4>2. closing' = closing
        BY <4>1 DEF closing
      <4>3. x.op \notin {"function", "label", "constant"}
        BY <4>1 DEF PlainOps, ReadableOps, NameOps, ImmOps
      <4>4. QED
        BY <4>1, <4>2, <4>3
    <3>4. QED
      BY <1>4, <3>1, <3>2, <3>3
  <2>2. constant_order' = constant_order /\ constant_map' = constant_map
    BY <1>4 DEF function, label, Instruction
  <2>3. ConstantsKept(script, said + 1, constant_order', constant_map')
    BY <1>1, <1>2, <2>1, <2>2, ConstantsKeptByOthers DEF next_call
  <2>4. CodeKept(script, said + 1, cs', closing')
    BY <1>1, <1>2, <2>1, CodeKeptByOthers DEF next_call
  <2>5. QED
    BY <1>1, <1>2, <2>3, <2>4 DEF WInv
<1>5. QED
  BY <1>3, <1>4

\* The reader writes nothing.
LEMMA NextWInv == IInv /\ WInv /\ [Next]_vars => WInv'
<1> SUFFICES ASSUME IInv, WInv, [Next]_vars
             PROVE  WInv'
  OBVIOUS
<1>1. CASE constant \/ function \/ label \/ Instruction
  BY <1>1, WriteKeepsWInv
<1>2. CASE compile
  <2>1. phase' = "parsing"
    BY <1>2 DEF compile
  <2>2. QED
    BY <2>1 DEF WInv
<1>3. CASE Read \/ Compose \/ Speak \/ EndOfProgram
  <2>1. phase' \in {"parsing", "done", "error"}
    BY <1>3 DEF Read, ReadToken, OutOfTokens, Descend, Consume, Refuse, Keep, Throw, Compose, Becomes,
                Speak, Calls, making, EndOfProgram
  <2>2. QED
    BY <2>1 DEF WInv
<1>4. CASE UNCHANGED vars
  <2>1. /\ phase' = phase /\ script' = script /\ said' = said /\ cs' = cs /\ fn_declared' = fn_declared
        /\ constant_order' = constant_order /\ constant_map' = constant_map
        /\ cache' = cache /\ todo' = todo /\ built' = built /\ heard' = heard
    BY <1>4 DEF vars, readVars, written
  <2>2. closing' = closing
    BY <2>1 DEF closing
  <2>3. QED
    BY <2>1, <2>2 DEF WInv
<1>5. QED
  BY <1>1, <1>2, <1>3, <1>4 DEF Next, Write

-----------------------------------------------------------------------------
(* The reader, on the text that was laid out.                              *)

\* r is what is left of t behind its first q tokens.
Rest(t, q, r) ==
    /\ q \in 0 .. Len(t) /\ r \in Seq(JasTokens) /\ Len(r) = Len(t) - q
    /\ \A i \in 1 .. Len(r) : r[i] = t[q + i]

OneSource(r) == <<[name |-> "out", rest |-> r]>>

Unread(X, q) == \E r : srcs = OneSource(r) /\ Rest(X.text, q, r)

\* The first p tokens were taken; the next one may be in the cache.
Ahead(X, p) ==
    \/ cache = << >> /\ Unread(X, p)
    \/ p < Len(X.text) /\ cache = <<X.text[p + 1]>> /\ Unread(X, p + 1)

\* The first k calls were made, unless k is -1.
HeardSo(X, k) ==
    /\ \E S : heard \in Seq(S)
    /\ \/ k = -1
       \/ /\ k \in 0 .. Len(X.consts) + Len(X.code) /\ Len(heard) = k
          /\ \A i \in 1 .. k : heard[i] = (X.consts \o X.code)[i]

Reads(X) ==
    \E p \in Nat : \E k : \E z : Ahead(X, p) /\ HeardSo(X, k) /\ Path(X, todo, State(p, built, k), z)

\* The next thing to do leads to y.
Doing(X, p, k, y, z) ==
    /\ Ahead(X, p) /\ HeardSo(X, k)
    /\ State(p, built, k) # Dead /\ Does(X, Head(todo), State(p, built, k), y)
    /\ Path(X, Tail(todo), y, z)

RInv ==
    phase # "writing" /\ Protocol =>
        \E X : /\ Texts(X)
               /\ phase = "parsing" => Reads(X)
               /\ phase = "done" => heard = X.consts \o X.code
               /\ phase = "error" => ~ Fine(X)

\* What is done next.
LEMMA DoingNow ==
    ASSUME IInv, NEW X, Reads(X)
    PROVE  \E p \in Nat : \E k : \E y : \E z : Doing(X, p, k, y, z)
<1>p. PICK p \in Nat : \E k, z : Ahead(X, p) /\ HeardSo(X, k) /\ Path(X, todo, State(p, built, k), z)
  BY DEF Reads
<1>1. PICK k, z : Ahead(X, p) /\ HeardSo(X, k) /\ Path(X, todo, State(p, built, k), z)
  BY <1>p
<1>2. todo # << >>
  BY NextThing
<1>3. PICK y : Does(X, Head(todo), State(p, built, k), y) /\ Path(X, Tail(todo), y, z)
  BY <1>1, <1>2, PathHead
<1>4. State(p, built, k) # Dead
  BY StateParts DEF Dead
<1>5. QED
  BY <1>1, <1>3, <1>4 DEF Doing

\* The next token of what is left.
LEMMA RestFacts ==
    ASSUME NEW t \in Seq(JasTokens), NEW q, NEW r, Rest(t, q, r)
    PROVE  /\ q \in Nat /\ (r = << >> <=> q = Len(t))
           /\ r # << >> => /\ q < Len(t) /\ Head(r) = t[q + 1] /\ t[q + 1].type \notin skip_list
                           /\ Rest(t, q + 1, Tail(r))
<1> DEFINE n == Len(t)
           m == Len(r)
<1>1. n \in Nat /\ m \in Nat /\ q \in 0 .. n /\ m = n - q /\ r \in Seq(JasTokens) /\ (r = << >> <=> m = 0)
      /\ \A i \in 1 .. m : r[i] = t[q + i]
  BY DEF Rest
<1>2. q \in Nat /\ (r = << >> <=> q = n)
  <2> HIDE DEF n, m
  <2>1. QED
    BY <1>1
<1>3. ASSUME r # << >>
      PROVE  /\ q < n /\ Head(r) = t[q + 1] /\ t[q + 1].type \notin skip_list
             /\ Rest(t, q + 1, Tail(r))
  <2>1. q < n /\ q + 1 \in 1 .. n /\ 1 \in 1 .. m /\ n - (q + 1) = m - 1
    <3> HIDE DEF n, m
    <3>1. QED
      BY <1>1, <1>2, <1>3
  <2>2. Head(r) = r[1] /\ Tail(r) \in Seq(JasTokens) /\ Len(Tail(r)) = m - 1
        /\ \A i \in 1 .. m - 1 : Tail(r)[i] = r[i + 1]
    BY <1>1, <1>3
  <2>3. Head(r) = t[q + 1] /\ t[q + 1].type \notin skip_list
    BY <1>1, <2>1, <2>2, TokenFacts
  <2>4. \A i \in 1 .. Len(Tail(r)) : Tail(r)[i] = t[(q + 1) + i]
    <3> TAKE i \in 1 .. Len(Tail(r))
    <3>1. i \in 1 .. m - 1
      BY <2>2
    <3>2. i + 1 \in 1 .. m /\ q + (i + 1) = (q + 1) + i
      <4> HIDE DEF n, m
      <4>1. QED
        BY <1>1, <3>1
    <3>3. QED
      BY <1>1, <2>2, <3>1, <3>2
  <2>5. Rest(t, q + 1, Tail(r))
    <3>1. q + 1 \in 0 .. n
      BY <2>1
    <3>2. QED
      BY <2>1, <2>2, <2>4, <3>1 DEF Rest
  <2>6. QED
    BY <2>1, <2>3, <2>5
<1>4. QED
  BY <1>2, <1>3

LEMMA SourceTail ==
    ASSUME NEW n, NEW r, NEW e
    PROVE  [[name |-> n, rest |-> r] EXCEPT !.rest = e] = [name |-> n, rest |-> e]
OBVIOUS

\* Sequences of one thing.
LEMMA OneTuple ==
    ASSUME NEW x, NEW y
    PROVE  SubSeq(<<x>>, 1, 1) = <<x>> /\ SubSeq(<<x>>, 1, 0) = << >> /\ [<<x>> EXCEPT ![1] = y] = <<y>>
<1> DEFINE S == {x, y}
           s == <<x>>
           u == <<y>>
           v == [s EXCEPT ![1] = y]
           w == SubSeq(s, 1, 1)
<1>1. s \in Seq(S) /\ Len(s) = 1 /\ u \in Seq(S) /\ Len(u) = 1 /\ u[1] = y /\ s[1] = x
  OBVIOUS
<1>2. v \in Seq(S) /\ Len(v) = 1 /\ v[1] = y
  BY <1>1
<1>3. w \in Seq(S) /\ Len(w) = 1 /\ w[1] = x
  BY <1>1
<1>4. SubSeq(s, 1, 0) = << >>
  BY <1>1
<1> HIDE DEF s, u, v, w
<1>5. \A i \in 1 .. 1 : v[i] = u[i] /\ w[i] = s[i]
  BY <1>1, <1>2, <1>3
<1>6. v = u
  BY <1>1, <1>2, <1>5, SeqEqual
<1>7. w = s
  BY <1>1, <1>3, <1>5, SeqEqual
<1>8. QED
  BY <1>4, <1>6, <1>7 DEF s, u, v, w

\* The one source is there until it has been read.
LEMMA HasSymbolOne ==
    ASSUME NEW r
    PROVE  has_symbol(OneSource(r)) = IF r = << >> THEN << >> ELSE OneSource(r)
<1> DEFINE x == [name |-> "out", rest |-> r]
           ss == <<x>>
           unread == {i \in DOMAIN ss : ss[i].rest # << >>}
<1>1. DOMAIN ss = {1} /\ ss[1].rest = r /\ ss \in Seq({x}) /\ Len(ss) = 1
  OBVIOUS
<1>2. has_symbol(ss) = SubSeq(ss, 1, Max(unread \cup {0}))
  BY DEF has_symbol
<1>3. CASE r = << >>
  <2>1. unread \cup {0} = {0}
    BY <1>1, <1>3
  <2>2. Max({0}) = 0
    BY DEF Max
  <2>3. SubSeq(ss, 1, 0) = << >>
    BY <1>1
  <2>4. QED
    BY <1>2, <1>3, <2>1, <2>2, <2>3 DEF OneSource
<1>4. CASE r # << >>
  <2>1. unread \cup {0} = {0, 1}
    BY <1>1, <1>4
  <2>2. Max({0, 1}) = 1
    BY DEF Max
  <2>3. SubSeq(ss, 1, 1) = ss
    BY OneTuple
  <2>4. QED
    BY <1>2, <1>4, <2>1, <2>2, <2>3 DEF OneSource
<1>5. QED
  BY <1>3, <1>4

\* The tokens are read one by one.
LEMMA ReadTokenReads ==
    ASSUME NEW X, Layout(X), Reads(X), ReadToken, heard' = heard
    PROVE  Reads(X)'
<1> DEFINE t == X.text
<1>1. t \in Seq(JasTokens)
  BY LayoutFacts
<1>p. PICK p \in Nat : \E k, z : Ahead(X, p) /\ HeardSo(X, k) /\ Path(X, todo, State(p, built, k), z)
  BY DEF Reads
<1>2. PICK k, z : Ahead(X, p) /\ HeardSo(X, k) /\ Path(X, todo, State(p, built, k), z)
  BY <1>p
<1>3. cache = << >> /\ todo' = todo /\ built' = built
  BY DEF ReadToken
<1>4. PICK r : srcs = OneSource(r) /\ Rest(t, p, r)
  BY <1>2, <1>3 DEF Ahead, Unread
<1>5. /\ has_symbol(srcs) # << >>
      /\ srcs' = [has_symbol(srcs) EXCEPT ![Len(has_symbol(srcs))].rest = Tail(@)]
      /\ cache' = IF Head(Last(has_symbol(srcs)).rest).type \in skip_list THEN << >>
                  ELSE <<Head(Last(has_symbol(srcs)).rest)>>
  BY DEF ReadToken
<1>6. has_symbol(srcs) = OneSource(r) /\ r # << >>
  BY <1>4, <1>5, HasSymbolOne
<1>7. /\ p < Len(t) /\ Head(r) = t[p + 1] /\ t[p + 1].type \notin skip_list
      /\ Rest(t, p + 1, Tail(r))
  BY <1>1, <1>4, <1>6, RestFacts
<1>8. Len(OneSource(r)) = 1 /\ Last(OneSource(r)).rest = r
  BY DEF OneSource, Last
<1>9. srcs' = OneSource(Tail(r))
  <2>1. srcs' = [OneSource(r) EXCEPT ![1].rest = Tail(@)]
    BY <1>5, <1>6, <1>8
  <2>2. [OneSource(r) EXCEPT ![1].rest = Tail(@)] = OneSource(Tail(r))
    <3> DEFINE x == [name |-> "out", rest |-> r]
               y == [name |-> "out", rest |-> Tail(r)]
    <3>a. [x EXCEPT !.rest = Tail(r)] = y
      BY SourceTail
    <3>b. x.rest = r
      OBVIOUS
    <3>1. <<x>>[1] = x /\ x.rest = r /\ [x EXCEPT !.rest = Tail(r)] = y
      <4> HIDE DEF x, y
      <4>1. QED
        BY <3>a, <3>b
    <3>2. [<<x>> EXCEPT ![1].rest = Tail(@)] = [<<x>> EXCEPT ![1] = y]
      BY <3>1
    <3> HIDE DEF x, y
    <3>3. [<<x>> EXCEPT ![1] = y] = <<y>>
      BY OneTuple
    <3>4. QED
      BY <3>2, <3>3 DEF OneSource, x, y
  <2>3. QED
    BY <2>1, <2>2
<1>10. cache' = <<t[p + 1]>>
  BY <1>5, <1>6, <1>7, <1>8
<1>11. Ahead(X, p)'
  BY <1>7, <1>9, <1>10 DEF Ahead, Unread
<1>12. HeardSo(X, k)'
  BY <1>2 DEF HeardSo
<1>13. QED
  BY <1>2, <1>3, <1>11, <1>12 DEF Reads

\* Nothing is left only behind the last block.
LEMMA ToplevelEnd ==
    ASSUME NEW X, Layout(X), NEW a, RuledToplevel(X, a), a.p = Len(X.text)
    PROVE  a.k = Len(X.consts) + Len(X.code)
<1> DEFINE l == Len(X.text)
           m == Len(X.consts)
           n == Len(X.code)
<1>1. n \in Nat /\ m \in Nat /\ l \in Nat /\ l = X.pos[n + 1] + 4 /\ 1 \in 1 .. n + 1
  BY LayoutFacts
<1>2. CASE m > 0 /\ a = State(0, << >>, 0)
  <2>1. a.p = 0
    BY <1>2, StateParts
  <2>2. l > 2
    BY <1>2, ConstantsBlock
  <2>3. QED
    BY <2>1, <2>2
<1>3. CASE a = Before(X, 1)
  <2>1. a.p = X.pos[1]
    BY <1>3, StateParts DEF Before
  <2>2. X.pos[1] \in Nat /\ X.pos[1] < l
    BY <1>1, FirstToken
  <2>3. QED
    BY <2>1, <2>2
<1>4. ASSUME NEW j \in 2 .. n + 1, Resumes(X, j), a = Ended(X, j)
      PROVE  a.k = m + n
  <2>1. a.p = X.pos[j] + 4 /\ a.k = m + j - 1
    BY <1>4, StateParts DEF Ended
  <2>2. j \in 1 .. n + 1
    BY <1>1
  <2>3. X.pos[j] \in Nat
    BY <2>2, LayoutFacts
  <2>4. j = n + 1
    <3>1. SUFFICES ASSUME j # n + 1
                   PROVE  FALSE
      OBVIOUS
    <3>2. j \in 1 .. n /\ Named(X, j)
      BY <1>1, <1>4, <3>1 DEF Resumes
    <3>3. X.code[j].op = "function" /\ X.code[j].name # "main"
      BY <3>2 DEF Named
    <3>4. X.pos[j] + 9 + Len(Listed(X.code[j].args)) <= l /\ Len(Listed(X.code[j].args)) \in Nat
      BY <3>2, <3>3, FunctionText
    <3> DEFINE p == X.pos[j]
               q == Len(Listed(X.code[j].args))
    <3>5. p \in Nat /\ q \in Nat /\ p + 9 + q <= l /\ l = p + 4
      BY <2>1, <2>3, <3>4
    <3> HIDE DEF p, q, l
    <3>6. QED
      BY <1>1, <3>5
  <2>5. QED
    <3> HIDE DEF m, n, l
    <3>1. QED
      BY <1>1, <2>1, <2>4
<1>5. QED
  BY <1>2, <1>3, <1>4 DEF RuledToplevel

\* Reading does not change what was said.
LEMMA SameScript ==
    ASSUME script' = script
    PROVE  (Protocol' <=> Protocol) /\ (Readable' <=> Readable) /\ Announced' = Announced
<1>1. code' = code
  BY DEF code
<1>2. Announced' = Announced
  BY <1>1 DEF Announced
<1>3. Protocol' <=> Protocol
  BY <1>1 DEF Protocol
<1>4. Readable' <=> Readable
  BY <1>1, <1>2 DEF Readable
<1>5. QED
  BY <1>2, <1>3, <1>4

\* What a step of the reader has to show.
LEMMA ReadKeeps ==
    ASSUME NEW X, Texts(X), script' = script,
           phase' = "parsing" => Reads(X)',
           phase' = "done" => heard' = X.consts \o X.code,
           phase' = "error" => ~ Fine(X)
    PROVE  RInv'
<1>1. Texts(X)'
  BY SameScript DEF Texts
<1>2. QED
  BY <1>1 DEF RInv

\* The reader is out of tokens between two blocks, or on an unreadable text.
LEMMA OutOfTokensReads ==
    ASSUME IInv, NEW X, Texts(X), Reads(X), OutOfTokens, script' = script, heard' = heard
    PROVE  RInv'
<1> DEFINE t == X.text
           m == Len(X.consts)
           n == Len(X.code)
           x == Head(todo)
<1>1. Layout(X) /\ t \in Seq(JasTokens) /\ n \in Nat /\ m \in Nat
  BY LayoutFacts DEF Texts
<1>2. PICK p \in Nat : \E k, y, z : Doing(X, p, k, y, z)
  BY DoingNow
<1>3. PICK k, y, z : Doing(X, p, k, y, z)
  BY <1>2
<1> DEFINE a == State(p, built, k)
<1>4. a.p = p /\ a.k = k
  BY StateParts
<1>5. Ahead(X, p) /\ HeardSo(X, k) /\ a # Dead /\ Does(X, x, a, y)
  BY <1>3 DEF Doing
<1>6. /\ cache = << >> /\ has_symbol(srcs) = << >> /\ x.do \in Peeking
      /\ phase' = IF x.a = "toplevel" THEN "done" ELSE "error"
  BY DEF OutOfTokens
<1>7. PICK r : srcs = OneSource(r) /\ Rest(t, p, r)
  BY <1>5, <1>6 DEF Ahead, Unread
<1>8. r = << >>
  <2>1. OneSource(r) # << >>
    BY DEF OneSource
  <2>2. QED
    BY <1>6, <1>7, <2>1, HasSymbolOne
<1>9. p = Len(t)
  BY <1>1, <1>7, <1>8, RestFacts
<1>10. \/ x.do = "call" /\ Ruled(X, x.a, a, y) /\ (x.a # "toplevel" => a.p < Len(t))
       \/ x.a # "toplevel" /\ Takes(X, x, a, y)
  <2> HIDE DEF a, x
  <2>1. QED
    BY <1>5, <1>6 DEF Does, Peeking
<1>11. CASE Ruled(X, x.a, a, y) /\ (x.a # "toplevel" => a.p < Len(t))
  <2>1. x.a = "toplevel"
    BY <1>1, <1>4, <1>9, <1>11
  <2>2. RuledToplevel(X, a)
    BY <1>11, <2>1 DEF Ruled
  <2>3. k = m + n
    BY <1>1, <1>4, <1>9, <2>2, ToplevelEnd
  <2>4. heard = X.consts \o X.code
    <3> DEFINE c == X.consts \o X.code
    <3>1. PICK S1 : heard \in Seq(S1)
      BY <1>5 DEF HeardSo
    <3>2. PICK S2 : X.consts \in Seq(S2)
      BY <1>1 DEF Layout, ConstantsLaid
    <3>3. X.code \in Seq(JasCalls)
      BY <1>1, LayoutFacts
    <3> DEFINE S == S1 \cup S2 \cup JasCalls
    <3>4. heard \in Seq(S) /\ X.consts \in Seq(S) /\ X.code \in Seq(S)
      BY <3>1, <3>2, <3>3
    <3> HIDE DEF S
    <3>5. c \in Seq(S) /\ Len(c) = m + n
      BY <3>4, ConcatProperties
    <3>6. k # -1
      <4> HIDE DEF m, n
      <4>1. QED
        BY <1>1, <2>3
    <3>7. Len(heard) = m + n /\ \A i \in 1 .. m + n : heard[i] = c[i]
      BY <1>5, <2>3, <3>6 DEF HeardSo
    <3> HIDE DEF c, m, n
    <3>8. heard = c
      BY <3>4, <3>5, <3>7, SeqEqual
    <3>9. QED
      BY <3>8 DEF c
  <2>5. phase' = "done"
    BY <1>6, <2>1
  <2>6. QED
    BY <2>4, <2>5, ReadKeeps
<1>12. CASE x.a # "toplevel" /\ Takes(X, x, a, y)
  <2>1. ~ Fine(X)
    <3>1. ~(a.p < Len(t))
      BY <1>1, <1>4, <1>9
    <3>2. QED
      BY <1>12, <3>1 DEF Takes
  <2>2. phase' = "error"
    BY <1>6, <1>12
  <2>3. QED
    BY <2>1, <2>2, ReadKeeps
<1>13. QED
  BY <1>10, <1>11, <1>12

\* A function begins, and does what it should.
LEMMA DescendReads ==
    ASSUME IInv, NEW X, Layout(X), Reads(X), Descend(Rule), heard' = heard
    PROVE  Reads(X)'
<1> DEFINE t == X.text
           x == Head(todo)
<1>1. PICK p \in Nat : \E k, y, z : Doing(X, p, k, y, z)
  BY DoingNow
<1>2. PICK k, y, z : Doing(X, p, k, y, z)
  BY <1>1
<1> DEFINE a == State(p, built, k)
<1>3. Ahead(X, p) /\ HeardSo(X, k) /\ a # Dead /\ Does(X, x, a, y) /\ Path(X, Tail(todo), y, z)
  BY <1>2 DEF Doing
<1>4. /\ cache # << >> /\ x.do = "call" /\ todo' = Rule(x.a, cache[1]) \o Tail(todo)
      /\ cache' = cache /\ srcs' = srcs /\ built' = built
  BY DEF Descend
<1>5. p < Len(t) /\ cache = <<t[p + 1]>>
  BY <1>3, <1>4 DEF Ahead
<1>6. a.p = p /\ cache[1] = t[p + 1]
  BY <1>5, StateParts
<1>7. Ruled(X, x.a, a, y)
  <2> HIDE DEF a, x
  <2>1. QED
    BY <1>3, <1>4 DEF Does
<1>8. Path(X, Rule(x.a, t[p + 1]), a, y)
  <2>1. Path(X, Rule(x.a, t[a.p + 1]), a, y)
    BY <1>5, <1>6, <1>7, RuleLeads
  <2>2. QED
    BY <1>6, <2>1
<1>9. Path(X, todo', State(p, built', k), z)
  BY <1>3, <1>4, <1>6, <1>8, PathConcat
<1>10. Ahead(X, p)' /\ HeardSo(X, k)'
  BY <1>3, <1>4 DEF Ahead, Unread, HeardSo
<1>11. QED
  BY <1>9, <1>10 DEF Reads

\* A token is taken, or it is the wrong one.
LEMMA ConsumeReads ==
    ASSUME IInv, NEW X, Texts(X), Reads(X), Consume, script' = script, heard' = heard
    PROVE  RInv'
<1> DEFINE t == X.text
           x == Head(todo)
<1>1. PICK p \in Nat : \E k, y, z : Doing(X, p, k, y, z)
  BY DoingNow
<1>2. PICK k, y, z : Doing(X, p, k, y, z)
  BY <1>1
<1> DEFINE a == State(p, built, k)
<1>3. Ahead(X, p) /\ HeardSo(X, k) /\ a # Dead /\ Does(X, x, a, y) /\ Path(X, Tail(todo), y, z)
  BY <1>2 DEF Doing
<1>4. cache # << >> /\ x.do \in Peeking \ {"call"} /\ phase = "parsing"
  BY DEF Consume
<1>5. p < Len(t) /\ cache = <<t[p + 1]>> /\ Unread(X, p + 1)
  BY <1>3, <1>4 DEF Ahead
<1>6. a.p = p /\ a.b = built /\ a.k = k /\ cache[1] = t[p + 1]
  BY <1>5, StateParts
<1>7. Takes(X, x, a, y)
  <2> HIDE DEF a, x
  <2>1. QED
    BY <1>3, <1>4 DEF Does, Peeking
<1>8. CASE accepts(x, t[p + 1])
  <2>1. y = State(p + 1, built \o kept(x, t[p + 1]), k)
    BY <1>5, <1>6, <1>7, <1>8 DEF Takes
  <2>2. /\ cache' = << >> /\ todo' = Tail(todo) /\ built' = built \o kept(x, t[p + 1])
        /\ srcs' = srcs /\ phase' = phase
    BY <1>6, <1>8 DEF Consume
  <2>3. Ahead(X, p + 1)' /\ HeardSo(X, k)'
    BY <1>3, <1>5, <2>2 DEF Ahead, Unread, HeardSo
  <2>4. Path(X, todo', State(p + 1, built', k), z)
    BY <1>3, <2>1, <2>2
  <2>5. p + 1 \in Nat
    OBVIOUS
  <2>6. Reads(X)'
    BY <2>3, <2>4, <2>5 DEF Reads
  <2>7. QED
    BY <1>4, <2>2, <2>6, ReadKeeps
<1>9. CASE ~ accepts(x, t[p + 1])
  <2>1. ~ Fine(X)
    BY <1>6, <1>7, <1>9 DEF Takes
  <2>2. phase' = "error"
    BY <1>6, <1>9 DEF Consume, Throw
  <2>3. QED
    BY <2>1, <2>2, ReadKeeps
<1>10. QED
  BY <1>8, <1>9

\* An error, on an unreadable text.
LEMMA RefuseReads ==
    ASSUME IInv, NEW X, Texts(X), Reads(X), Refuse, script' = script
    PROVE  RInv'
<1> DEFINE x == Head(todo)
<1>1. PICK p \in Nat : \E k, y, z : Doing(X, p, k, y, z)
  BY DoingNow
<1>2. PICK k, y, z : Doing(X, p, k, y, z)
  BY <1>1
<1>3. State(p, built, k) # Dead /\ Does(X, x, State(p, built, k), y)
  BY <1>2 DEF Doing
<1>4. x.do = "fail" /\ phase' = "error"
  BY DEF Refuse, Throw
<1>5. ~ Fine(X)
  <2> HIDE DEF x
  <2>1. QED
    BY <1>3, <1>4 DEF Does
<1>6. QED
  BY <1>4, <1>5, ReadKeeps

\* What is known without reading is noted.
LEMMA KeepReads ==
    ASSUME IInv, NEW X, Reads(X), Keep, heard' = heard
    PROVE  Reads(X)'
<1> DEFINE x == Head(todo)
<1>1. PICK p \in Nat : \E k, y, z : Doing(X, p, k, y, z)
  BY DoingNow
<1>2. PICK k, y, z : Doing(X, p, k, y, z)
  BY <1>1
<1> DEFINE a == State(p, built, k)
<1>3. Ahead(X, p) /\ HeardSo(X, k) /\ a # Dead /\ Does(X, x, a, y) /\ Path(X, Tail(todo), y, z)
  BY <1>2 DEF Doing
<1>4. /\ x.do = "push" /\ built' = Append(built, x.b) /\ todo' = Tail(todo)
      /\ srcs' = srcs /\ cache' = cache
  BY DEF Keep
<1>5. y = State(a.p, Append(a.b, x.b), a.k)
  <2> HIDE DEF a, x
  <2>1. QED
    BY <1>3, <1>4 DEF Does
<1>6. Path(X, todo', State(p, built', k), z)
  BY <1>3, <1>4, <1>5, StateParts
<1>7. Ahead(X, p)' /\ HeardSo(X, k)'
  BY <1>3, <1>4 DEF Ahead, Unread, HeardSo
<1>8. QED
  BY <1>6, <1>7 DEF Reads

\* The last things that were built.
LEMMA TopOfTwo ==
    ASSUME NEW c, NEW d, built = <<c, d>>
    PROVE  /\ top(1) = d /\ top(2) = c
           /\ SubSeq(built, 1, Len(built) - 1) = <<c>> /\ SubSeq(built, 1, Len(built) - 2) = << >>
<1> DEFINE S == {c, d}
           s == <<c, d>>
           u == <<c>>
           v == SubSeq(s, 1, 1)
<1>1. s \in Seq(S) /\ Len(s) = 2 /\ s[1] = c /\ s[2] = d /\ u \in Seq(S) /\ Len(u) = 1 /\ u[1] = c
  OBVIOUS
<1>2. v \in Seq(S) /\ Len(v) = 1 /\ v[1] = c /\ SubSeq(s, 1, 0) = << >>
  BY <1>1
<1> HIDE DEF s, u, v
<1>3. \A i \in 1 .. 1 : v[i] = u[i]
  BY <1>1, <1>2
<1>4. v = u
  BY <1>1, <1>2, <1>3, SeqEqual
<1>5. built = s /\ Len(built) - 1 = 1 /\ Len(built) - 2 = 0 /\ Len(built) + 1 - 1 = 2 /\ Len(built) + 1 - 2 = 1
  BY <1>1 DEF s
<1>6. QED
  BY <1>1, <1>2, <1>4, <1>5 DEF top, u, v

LEMMA TopOfOne ==
    ASSUME NEW c, built = <<c>>
    PROVE  top(1) = c /\ SubSeq(built, 1, Len(built) - 1) = << >>
<1>1. Len(built) = 1 /\ Len(built) + 1 - 1 = 1 /\ Len(built) - 1 = 0 /\ built[1] = c
  OBVIOUS
<1>2. SubSeq(<<c>>, 1, 0) = << >>
  BY OneTuple
<1>3. QED
  BY <1>1, <1>2 DEF top

LEMMA AppendTuples ==
    ASSUME NEW c, NEW d
    PROVE  Append(<< >>, d) = <<d>> /\ Append(<<c>>, d) = <<c, d>>
<1>1. Append(<< >>, d) = <<d>>
  OBVIOUS
<1>2. Append(<<c>>, d) = <<c>> \o <<d>>
  <2>1. <<c>> \in Seq({c, d}) /\ d \in {c, d}
    OBVIOUS
  <2>2. QED
    BY <2>1, AppendIsConcat
<1>3. QED
  BY <1>1, <1>2, PairOf

\* What was read is put together.
LEMMA ComposeReads ==
    ASSUME IInv, NEW X, Reads(X), Compose
    PROVE  Reads(X)'
<1> DEFINE x == Head(todo)
<1>1. PICK p \in Nat : \E k, y, z : Doing(X, p, k, y, z)
  BY DoingNow
<1>2. PICK k, y, z : Doing(X, p, k, y, z)
  BY <1>1
<1> DEFINE a == State(p, built, k)
<1>3. Ahead(X, p) /\ HeardSo(X, k) /\ a # Dead /\ Does(X, x, a, y) /\ Path(X, Tail(todo), y, z)
  BY <1>2 DEF Doing
<1>4. x.do = "make" /\ todo' = Tail(todo) /\ srcs' = srcs /\ cache' = cache /\ heard' = heard
  BY DEF Compose, Becomes
<1>5. Made(X, x.a, a, y)
  <2> HIDE DEF a, x
  <2>1. QED
    BY <1>3, <1>4 DEF Does
<1> DEFINE what == x.a
           cut(n) == SubSeq(built, 1, Len(built) - n)
<1>6. \/ what = "negative"  /\ built' = Append(cut(1), Val(i32(-top(1).value)))
      \/ what = "name"      /\ built' = Append(cut(2), [top(2) EXCEPT !.name = top(1).identifier])
      \/ what = "immediate" /\ built' = Append(cut(2), [top(2) EXCEPT !.n = top(1).value])
      \/ what = "method"    /\ built' = Append(cut(1), FunctionOf(top(1).identifier, << >>, << >>))
      \/ what = "arg"       /\ built' = Append(cut(2), [top(2) EXCEPT !.args = Append(@, top(1).identifier)])
      \/ what = "var"       /\ built' = Append(cut(2), [top(2) EXCEPT !.vars = Append(@, top(1).identifier)])
  BY DEF Compose, Becomes
<1>7. a.p = p /\ a.b = built /\ a.k = k
  BY StateParts
<1>8. (\A w : Ident(w).identifier = w) /\ (\A v : Val(v).value = v)
  BY DEF Ident, Val
<1>9. y = State(p, built', k)
  <2>1. CASE what = "negative"
    <3>1. PICK c, n : built = <<c, Val(n)>> /\ y = State(p, <<c, Val(i32(-n))>>, k)
      BY <1>5, <1>7, <2>1 DEF Made
    <3>2. top(1) = Val(n) /\ cut(1) = <<c>>
      BY <3>1, TopOfTwo
    <3>3. built' = Append(<<c>>, Val(i32(-n)))
      BY <1>6, <1>8, <2>1, <3>2
    <3>4. QED
      BY <3>1, <3>3, AppendTuples
  <2>2. CASE what = "name"
    <3>1. PICK c, w : built = <<c, Ident(w)>> /\ y = State(p, <<[c EXCEPT !.name = w]>>, k)
      BY <1>5, <1>7, <2>2 DEF Made
    <3>2. top(1) = Ident(w) /\ top(2) = c /\ cut(2) = << >>
      BY <3>1, TopOfTwo
    <3>3. built' = Append(<< >>, [c EXCEPT !.name = w])
      BY <1>6, <1>8, <2>2, <3>2
    <3>4. QED
      BY <3>1, <3>3, AppendTuples
  <2>3. CASE what = "immediate"
    <3>1. PICK c, n : built = <<c, Val(n)>> /\ y = State(p, <<[c EXCEPT !.n = n]>>, k)
      BY <1>5, <1>7, <2>3 DEF Made
    <3>2. top(1) = Val(n) /\ top(2) = c /\ cut(2) = << >>
      BY <3>1, TopOfTwo
    <3>3. built' = Append(<< >>, [c EXCEPT !.n = n])
      BY <1>6, <1>8, <2>3, <3>2
    <3>4. QED
      BY <3>1, <3>3, AppendTuples
  <2>4. CASE what = "method"
    <3>1. PICK w : built = <<Ident(w)>> /\ y = State(p, <<FunctionOf(w, << >>, << >>)>>, k)
      BY <1>5, <1>7, <2>4 DEF Made
    <3>2. top(1) = Ident(w) /\ cut(1) = << >>
      BY <3>1, TopOfOne
    <3>3. built' = Append(<< >>, FunctionOf(w, << >>, << >>))
      BY <1>6, <1>8, <2>4, <3>2
    <3>4. QED
      BY <3>1, <3>3, AppendTuples
  <2>5. CASE what = "arg"
    <3>1. PICK c, w : built = <<c, Ident(w)>> /\ y = State(p, <<[c EXCEPT !.args = Append(c.args, w)]>>, k)
      BY <1>5, <1>7, <2>5 DEF Made
    <3>2. top(1) = Ident(w) /\ top(2) = c /\ cut(2) = << >>
      BY <3>1, TopOfTwo
    <3>3. built' = Append(<< >>, [c EXCEPT !.args = Append(c.args, w)])
      BY <1>6, <1>8, <2>5, <3>2
    <3>4. QED
      BY <3>1, <3>3, AppendTuples
  <2>6. CASE what = "var"
    <3>1. PICK c, w : built = <<c, Ident(w)>> /\ y = State(p, <<[c EXCEPT !.vars = Append(c.vars, w)]>>, k)
      BY <1>5, <1>7, <2>6 DEF Made
    <3>2. top(1) = Ident(w) /\ top(2) = c /\ cut(2) = << >>
      BY <3>1, TopOfTwo
    <3>3. built' = Append(<< >>, [c EXCEPT !.vars = Append(c.vars, w)])
      BY <1>6, <1>8, <2>6, <3>2
    <3>4. QED
      BY <3>1, <3>3, AppendTuples
  <2>7. QED
    BY <1>6, <2>1, <2>2, <2>3, <2>4, <2>5, <2>6
<1>10. Ahead(X, p)' /\ HeardSo(X, k)'
  BY <1>3, <1>4 DEF Ahead, Unread, HeardSo
<1>11. Path(X, todo', State(p, built', k), z)
  BY <1>3, <1>4, <1>9
<1>12. QED
  BY <1>10, <1>11 DEF Reads

\* One more call was made.
LEMMA HeardGrows ==
    ASSUME NEW X, NEW c, NEW k, NEW k2, HeardSo(X, k), Heard(X, c, k, k2), heard' = Append(heard, c),
           Len(X.consts) + Len(X.code) \in Nat
    PROVE  HeardSo(X, k2)'
<1> DEFINE n == Len(X.consts) + Len(X.code)
           w == X.consts \o X.code
<1>1. PICK S : heard \in Seq(S)
  BY DEF HeardSo
<1>2. heard \in Seq(S \cup {c}) /\ c \in S \cup {c}
  BY <1>1
<1>3. /\ heard' \in Seq(S \cup {c}) /\ Len(heard) \in Nat /\ Len(heard') = Len(heard) + 1
      /\ heard'[Len(heard) + 1] = c /\ \A i \in 1 .. Len(heard) : heard'[i] = heard[i]
  BY <1>2, AppendFacts
<1>4. CASE k2 = -1
  BY <1>3, <1>4 DEF HeardSo
<1>5. CASE k2 # -1
  <2>1. k \in Nat /\ k2 = k + 1 /\ k < n /\ w[k + 1] = c
    BY <1>5 DEF Heard
  <2>2. k # -1
    BY <2>1
  <2>3. k \in 0 .. n /\ Len(heard) = k /\ \A i \in 1 .. k : heard[i] = w[i]
    BY <2>2 DEF HeardSo
  <2>4. k2 \in 0 .. n
    <3>1. n \in Nat
      OBVIOUS
    <3> HIDE DEF n
    <3>2. QED
      BY <2>1, <2>3, <3>1
  <2>5. \A i \in 1 .. k2 : heard'[i] = w[i]
    <3> HIDE DEF n, w
    <3> TAKE i \in 1 .. k2
    <3>1. i \in 1 .. k \/ i = k + 1
      BY <2>1
    <3>2. QED
      BY <1>3, <2>1, <2>3, <3>1
  <2>6. Len(heard') = k2
    BY <1>3, <2>1, <2>3
  <2>7. QED
    BY <1>3, <2>4, <2>5, <2>6 DEF HeardSo
<1>6. QED
  BY <1>4, <1>5

\* The calls that the reader makes are the ones that were written.
LEMMA SpeakReads ==
    ASSUME IInv, NEW X, Layout(X), Reads(X), Speak
    PROVE  Reads(X)'
<1> DEFINE x == Head(todo)
<1>1. PICK p \in Nat : \E k, y, z : Doing(X, p, k, y, z)
  BY DoingNow
<1>2. PICK k, y, z : Doing(X, p, k, y, z)
  BY <1>1
<1> DEFINE a == State(p, built, k)
<1>3. Ahead(X, p) /\ HeardSo(X, k) /\ a # Dead /\ Does(X, x, a, y) /\ Path(X, Tail(todo), y, z)
  BY <1>2 DEF Doing
<1>4. x.do = "make" /\ todo' = Tail(todo) /\ srcs' = srcs /\ cache' = cache
  BY DEF Speak, Calls, making
<1>5. Made(X, x.a, a, y)
  <2> HIDE DEF a, x
  <2>1. QED
    BY <1>3, <1>4 DEF Does
<1> DEFINE what == x.a
           cut(n) == SubSeq(built, 1, Len(built) - n)
<1>6. \/ what = "call"  /\ built' = cut(1) /\ heard' = Append(heard, top(1))
      \/ what = "label" /\ built' = cut(1) /\ heard' = Append(heard, NamedOf("label", top(1).identifier))
      \/ what = "constant" /\ built' = cut(2)
           /\ heard' = Append(heard, ConstantOf(top(2).identifier, top(1).value))
  BY DEF Speak, Calls, making
<1>7. a.p = p /\ a.b = built /\ a.k = k
  BY StateParts
<1>8. (\A w : Ident(w).identifier = w) /\ (\A v : Val(v).value = v)
  BY DEF Ident, Val
<1>9. \E c, k2 : /\ Heard(X, c, k, k2) /\ heard' = Append(heard, c)
                 /\ y = State(p, built', k2)
  <2>1. CASE what = "call"
    <3>1. PICK c, k2 : built = <<c>> /\ Heard(X, c, k, k2) /\ y = State(p, << >>, k2)
      BY <1>5, <1>7, <2>1 DEF Made
    <3>2. top(1) = c /\ cut(1) = << >>
      BY <3>1, TopOfOne
    <3>3. QED
      BY <1>6, <2>1, <3>1, <3>2
  <2>2. CASE what = "label"
    <3>1. PICK w, k2 : built = <<Ident(w)>> /\ Heard(X, NamedOf("label", w), k, k2) /\ y = State(p, << >>, k2)
      BY <1>5, <1>7, <2>2 DEF Made
    <3>2. top(1) = Ident(w) /\ cut(1) = << >>
      BY <3>1, TopOfOne
    <3>3. built' = << >> /\ heard' = Append(heard, NamedOf("label", w))
      BY <1>6, <1>8, <2>2, <3>2
    <3>4. QED
      BY <3>1, <3>3
  <2>3. CASE what = "constant"
    <3>1. PICK w, n, k2 : /\ built = <<Ident(w), Val(n)>> /\ Heard(X, ConstantOf(w, n), k, k2)
                          /\ y = State(p, << >>, k2)
      BY <1>5, <1>7, <2>3 DEF Made
    <3>2. top(1) = Val(n) /\ top(2) = Ident(w) /\ cut(2) = << >>
      BY <3>1, TopOfTwo
    <3>3. built' = << >> /\ heard' = Append(heard, ConstantOf(w, n))
      BY <1>6, <1>8, <2>3, <3>2
    <3>4. QED
      BY <3>1, <3>3
  <2>4. QED
    BY <1>6, <2>1, <2>2, <2>3
<1>10. PICK c, k2 : /\ Heard(X, c, k, k2) /\ heard' = Append(heard, c)
                    /\ y = State(p, built', k2)
  BY <1>9
<1>11. HeardSo(X, k2)'
  <2>1. Len(X.consts) \in Nat /\ Len(X.code) \in Nat
    BY LayoutFacts
  <2> DEFINE m == Len(X.consts)
             n == Len(X.code)
  <2>2. m + n \in Nat
    <3>1. m \in Nat /\ n \in Nat
      BY <2>1
    <3> HIDE DEF m, n
    <3>2. QED
      BY <3>1
  <2>3. QED
    BY <1>3, <1>10, <2>2, HeardGrows
<1>12. Ahead(X, p)'
  BY <1>3, <1>4 DEF Ahead, Unread
<1>13. Path(X, todo', State(p, built', k2), z)
  BY <1>3, <1>4, <1>10
<1>14. QED
  BY <1>11, <1>12, <1>13 DEF Reads

\* Behind the last block there is nothing, never something else.
LEMMA NoEndOfProgram ==
    ASSUME IInv, NEW X, Reads(X)
    PROVE  ~ EndOfProgram
<1> SUFFICES ASSUME EndOfProgram
             PROVE  FALSE
  OBVIOUS
<1> DEFINE x == Head(todo)
<1>1. PICK p \in Nat : \E k, y, z : Doing(X, p, k, y, z)
  BY DoingNow
<1>2. PICK k, y, z : Doing(X, p, k, y, z)
  BY <1>1
<1> DEFINE a == State(p, built, k)
<1>3. a # Dead /\ Does(X, x, a, y)
  BY <1>2 DEF Doing
<1>4. x.do = "make" /\ x.a = "end"
  BY DEF EndOfProgram, making
<1> HIDE DEF a, x
<1>5. Made(X, x.a, a, y)
  BY <1>3, <1>4 DEF Does
<1>6. QED
  BY <1>4, <1>5 DEF Made

\* The text that is complete is laid out, and nothing of it has been read.
LEMMA CompileReads ==
    ASSUME IInv, WInv, compile
    PROVE  RInv'
<1> SUFFICES ASSUME Protocol'
             PROVE  RInv'
  BY DEF RInv
<1>1. /\ phase = "writing" /\ said = Len(script) /\ phase' = "parsing"
      /\ script' = script /\ cache' = cache /\ todo' = todo /\ built' = built /\ heard' = heard
      /\ srcs' = OneSource(constants_text \o cs \o closing)
  <2>1. files' = [f \in {"out"} |-> constants_text \o cs \o closing]
    BY DEF compile
  <2>2. files'["out"] = constants_text \o cs \o closing
    BY <2>1
  <2>3. srcs' = OneSource(files'["out"])
    BY DEF compile, OneSource
  <2>4. QED
    BY <2>2, <2>3 DEF compile, written
<1>2. /\ CodeKept(script, said, cs, closing)
      /\ ConstantsKept(script, said, constant_order, constant_map)
      /\ cache = << >> /\ todo = <<Call("toplevel")>> /\ built = << >> /\ heard = << >>
  BY <1>1 DEF WInv
<1>3. Protocol
  BY <1>1, SameScript
<1>4. script \in Seq(JasCalls)
  BY DEF IInv
<1>5. PICK X : Texts(X) /\ X.text = constants_text \o cs \o closing
  BY <1>1, <1>2, <1>3, <1>4, TextLaid
<1> DEFINE t == X.text
           m == Len(X.consts)
           n == Len(X.code)
           a == State(0, << >>, 0)
<1>6. Layout(X) /\ t \in Seq(JasTokens) /\ Len(t) \in Nat /\ m \in Nat /\ n \in Nat
  BY <1>5, LayoutFacts DEF Texts
<1>7. Rest(t, 0, t)
  <2> HIDE DEF t
  <2>1. 0 \in 0 .. Len(t) /\ Len(t) = Len(t) - 0 /\ \A i \in 1 .. Len(t) : t[i] = t[0 + i]
    BY <1>6
  <2>2. QED
    BY <1>6, <2>1 DEF Rest
<1>8. Ahead(X, 0)'
  BY <1>1, <1>2, <1>5, <1>7 DEF Ahead, Unread
<1>9. HeardSo(X, 0)'
  <2>1. heard' \in Seq({}) /\ Len(heard') = 0 /\ heard' = << >>
    BY <1>1, <1>2
  <2>2. 0 \in 0 .. m + n
    <3> HIDE DEF m, n
    <3>1. QED
      BY <1>6
  <2>3. 0 # -1 /\ \A i \in 1 .. 0 : heard'[i] = (X.consts \o X.code)[i]
    OBVIOUS
  <2>4. \E S : heard' \in Seq(S)
    BY <2>1
  <2> HIDE DEF m, n
  <2>5. QED
    BY <2>1, <2>2, <2>3, <2>4 DEF HeardSo, m, n
<1>10. RuledToplevel(X, a)
  <2>1. CASE m > 0
    BY <2>1 DEF RuledToplevel
  <2>2. CASE m = 0
    <3>1. X.pos[1] = 0
      BY <1>6, <2>2 DEF Layout, ConstantsLaid
    <3>2. m + 1 - 1 = 0
      BY <2>2
    <3>3. Before(X, 1) = a
      BY <3>1, <3>2 DEF Before
    <3>4. QED
      BY <3>3 DEF RuledToplevel
  <2>3. m > 0 \/ m = 0
    <3> HIDE DEF m
    <3>1. QED
      BY <1>6
  <2>4. QED
    BY <2>1, <2>2, <2>3
<1>11. Does(X, Call("toplevel"), a, a)
  <2>1. Ruled(X, "toplevel", a, a)
    BY <1>10 DEF Ruled
  <2>2. Call("toplevel").do = "call" /\ Call("toplevel").a = "toplevel"
    BY Items
  <2>3. QED
    BY <2>1, <2>2 DEF Does
<1>12. Path(X, todo', State(0, built', 0), a)
  BY <1>1, <1>2, <1>11, Path1
<1>13. Reads(X)'
  BY <1>8, <1>9, <1>12 DEF Reads
<1>14. QED
  BY <1>1, <1>5, <1>13, ReadKeeps

-----------------------------------------------------------------------------
(* The theorems.                                                           *)

\* Every step keeps the invariant of the reader.
LEMMA NextRInv == IInv /\ WInv /\ RInv /\ [Next]_vars => RInv'
<1> SUFFICES ASSUME IInv, WInv, RInv, [Next]_vars, phase' # "writing", Protocol'
             PROVE  RInv'
  BY DEF RInv
<1>1. CASE constant \/ function \/ label \/ Instruction
  <2>1. phase' = "writing"
    BY <1>1 DEF constant, function, label, Instruction, Said, Make1, readVars
  <2>2. QED
    BY <2>1
<1>2. CASE compile
  BY <1>2, CompileReads
<1>3. CASE Read \/ Compose \/ Speak \/ EndOfProgram
  <2>1. phase = "parsing" /\ script' = script
    BY <1>3 DEF Read, ReadToken, OutOfTokens, Descend, Consume, Refuse, Keep, Compose, Speak, Calls,
                making, EndOfProgram, written
  <2>2. Protocol
    BY <2>1, SameScript
  <2>3. PICK X : Texts(X) /\ Reads(X)
    BY <2>1, <2>2 DEF RInv
  <2>4. Layout(X)
    BY <2>3 DEF Texts
  <2>5. Reads(X)' /\ phase' = "parsing" => RInv'
    BY <2>1, <2>3, ReadKeeps
  <2>6. CASE Read
    <3>1. heard' = heard
      BY <2>6 DEF Read
    <3>2. CASE ReadToken
      <4>1. Reads(X)' /\ phase' = "parsing"
        BY <2>1, <2>3, <2>4, <3>1, <3>2, ReadTokenReads DEF ReadToken
      <4>2. QED
        BY <2>5, <4>1
    <3>3. CASE OutOfTokens
      BY <2>1, <2>3, <3>1, <3>3, OutOfTokensReads
    <3>4. CASE Descend(Rule)
      <4>1. Reads(X)' /\ phase' = "parsing"
        BY <2>1, <2>3, <2>4, <3>1, <3>4, DescendReads DEF Descend
      <4>2. QED
        BY <2>5, <4>1
    <3>5. CASE Consume
      BY <2>1, <2>3, <3>1, <3>5, ConsumeReads
    <3>6. CASE Refuse
      BY <2>1, <2>3, <3>6, RefuseReads
    <3>7. CASE Keep
      <4>1. Reads(X)' /\ phase' = "parsing"
        BY <2>1, <2>3, <3>1, <3>7, KeepReads DEF Keep
      <4>2. QED
        BY <2>5, <4>1
    <3>8. QED
      BY <2>6, <3>2, <3>3, <3>4, <3>5, <3>6, <3>7 DEF Read
  <2>7. CASE Compose
    <3>1. phase' = "parsing"
      BY <2>1, <2>7 DEF Compose, Becomes
    <3>2. QED
      BY <2>3, <2>5, <2>7, <3>1, ComposeReads
  <2>8. CASE Speak
    <3>1. phase' = "parsing"
      BY <2>1, <2>8 DEF Speak, Calls
    <3>2. QED
      BY <2>3, <2>4, <2>5, <2>8, <3>1, SpeakReads
  <2>9. CASE EndOfProgram
    BY <2>3, <2>9, NoEndOfProgram
  <2>10. QED
    BY <1>3, <2>6, <2>7, <2>8, <2>9
<1>4. CASE UNCHANGED vars
  <2>1. /\ phase' = phase /\ script' = script /\ srcs' = srcs /\ cache' = cache /\ todo' = todo
        /\ built' = built /\ heard' = heard
    BY <1>4 DEF vars, readVars, written
  <2>2. Protocol /\ phase # "writing"
    BY <2>1, SameScript
  <2>3. PICK X : /\ Texts(X)
                 /\ phase = "parsing" => Reads(X)
                 /\ phase = "done" => heard = X.consts \o X.code
                 /\ phase = "error" => ~ Fine(X)
    BY <2>2 DEF RInv
  <2>4. Reads(X) => Reads(X)'
    BY <2>1 DEF Reads, Ahead, Unread, HeardSo
  <2>5. QED
    BY <2>1, <2>3, <2>4, ReadKeeps
<1>5. QED
  BY <1>1, <1>2, <1>3, <1>4 DEF Next, Write

\* The invariants together.
LEMMA RoundInvariant == Spec => [](IInv /\ WInv /\ RInv)
<1>1. Init => IInv /\ WInv /\ RInv
  <2>1. Init => phase = "writing"
    BY DEF Init
  <2>2. QED
    BY <2>1, InitIInv, InitWInv DEF RInv
<1>2. IInv /\ WInv /\ RInv /\ [Next]_vars => (IInv /\ WInv /\ RInv)'
  BY NextIInv, NextWInv, NextRInv
<1>3. QED
  BY <1>1, <1>2, PTL DEF Spec

(***************************************************************************)
(* What JASAssembler writes (src/src/backends/jas_assembler.cpp)           *)
(* jas_compile reads (src/src/frontends/jas/compile.cpp), whatever the     *)
(* calls are, as long as they are Readable: for programs of every length,  *)
(* with any names, numbers and constants.                                  *)
(***************************************************************************)
THEOREM WrittenIsRead == Spec => []RoundTrip
<1>1. RInv => RoundTrip
  <2> SUFFICES ASSUME RInv, Protocol, Readable
               PROVE  phase # "error"
    BY DEF RoundTrip
  <2>1. phase = "error" => phase # "writing"
    OBVIOUS
  <2>2. phase = "error" => \E X : Texts(X) /\ ~ Fine(X)
    BY <2>1 DEF RInv
  <2>3. \A X : Texts(X) => Fine(X)
    BY DEF Texts
  <2>4. QED
    BY <2>2, <2>3
<1>2. QED
  BY <1>1, RoundInvariant, PTL

(***************************************************************************)
(* A text of JASAssembler that jas_compile comes to the end of is read as  *)
(* the calls that were written: every one, in their order, with their      *)
(* names and numbers, and none besides; also when it has names in it that  *)
(* are keywords to the reader.                                             *)
(***************************************************************************)
THEOREM ReadAsWritten == Spec => []NeverMisread
<1>1. RInv => NeverMisread
  <2> SUFFICES ASSUME RInv, Protocol, phase = "done"
               PROVE  heard = Announced
    BY DEF NeverMisread
  <2>1. PICK X : Texts(X) /\ heard = X.consts \o X.code
    BY DEF RInv
  <2>2. QED
    BY <2>1 DEF Texts
<1>2. QED
  BY <1>1, RoundInvariant, PTL

=============================================================================
