--------------------------- MODULE IjParserProofs ---------------------------
(***************************************************************************)
(* The parser of ij leaves nothing half-built between two declarations,    *)
(* whatever the tokens are, and imports that meet each other do not nest   *)
(* for ever.                                                               *)
(*                                                                         *)
(* The argument is the one of JasRoundTripProofs: everything the parser    *)
(* may have to do fits between two heights of `built`, and what it has     *)
(* still to do is a thread from the height that there is to the end, which *)
(* is behind the loop over the declarations, at -1.                        *)
(***************************************************************************)
EXTENDS IjParser, ProofBasics

Levels == {"assign", "compare", "logic", "arit", "mul"}

\* The rules that give one thing more, and the ones that go on with the last.
Givers ==
    {"body", "compound", "statement", "string", "line", "for_init", "else", "basic", "operand",
     "for_condition", "for_update", "while_condition", "immediate", "constant_value"}
Goers ==
    {"names", "more_names", "jas_stmts", "stmts", "ident", "args", "more_args", "index",
     "var_init"} \cup Levels

\* What the constructors take, when they give one thing, and the declarations,
\* which give nothing.
Taking1 == {"minus", "negative", "fun", "pushing", "ret", "expr", "putc", "label"}
Taking2 == {"op", "item", "arg", "arr", "var", "arg0", "iarg0"}

Heights == Nat \cup {-1}

\* x may be done at height m, and leads to height n.
Fits(x, m, n) ==
    /\ m \in Nat /\ n \in Heights
    /\ \/ x.do = "fail"
       \/ x.do \in {"discard", "expect"} /\ n = m
       \/ x.do \in {"take", "number", "identifier", "push"} /\ n = m + 1
       \/ x.do = "call" /\ x.a = "toplevel" /\ m = 0 /\ n = -1
       \/ x.do = "call" /\ x.a \in Givers /\ n = m + 1
       \/ x.do = "call" /\ x.a \in Goers /\ m >= 1 /\ n = m
       \/ x.do = "make" /\ x.a \in Taking1 /\ m >= 1 /\ n = m
       \/ x.do = "make" /\ x.a \in Taking2 /\ m >= 2 /\ n = m - 1
       \/ x.do = "make" /\ x.a = "if" /\ m >= 3 /\ n = m - 2
       \/ x.do = "make" /\ x.a = "for" /\ m >= 4 /\ n = m - 3
       \/ x.do = "make" /\ x.a = "import" /\ m = 1 /\ n = 0
       \/ x.do = "make" /\ x.a = "constant" /\ m = 2 /\ n = 0
       \/ x.do = "make" /\ x.a = "function" /\ m = 3 /\ n = 0

\* The things in s, one after the other, lead from height m to height n.
Threads(s, m, n) ==
    /\ \E S : s \in Seq(S)
    /\ \E h \in [1 .. Len(s) + 1 -> Heights] :
          /\ h[1] = m /\ h[Len(s) + 1] = n
          /\ \A i \in 1 .. Len(s) : Fits(s[i], h[i], h[i + 1])

\* What is still to do begins at the height of what is built.
Threaded ==
    /\ \E S : built \in Seq(S)
    /\ Threads(todo, Len(built), -1)

\* Where a file is added there is one below it.
Opened ==
    /\ \E N, R : srcs \in Seq([name : N, rest : R])
    /\ phase = "parsing" => srcs # << >>
    /\ NestedOnce

-----------------------------------------------------------------------------
(* Threads.                                                                *)

LEMMA ThreadsConcat ==
    ASSUME NEW s, NEW t, NEW m, NEW k, NEW n, Threads(s, m, k), Threads(t, k, n)
    PROVE  Threads(s \o t, m, n)
<1>1. PICK S1 : s \in Seq(S1)
  BY DEF Threads
<1>2. PICK S2 : t \in Seq(S2)
  BY DEF Threads
<1>3. PICK h1 \in [1 .. Len(s) + 1 -> Heights] :
        /\ h1[1] = m /\ h1[Len(s) + 1] = k
        /\ \A i \in 1 .. Len(s) : Fits(s[i], h1[i], h1[i + 1])
  BY DEF Threads
<1>4. PICK h2 \in [1 .. Len(t) + 1 -> Heights] :
        /\ h2[1] = k /\ h2[Len(t) + 1] = n
        /\ \A i \in 1 .. Len(t) : Fits(t[i], h2[i], h2[i + 1])
  BY DEF Threads
<1>5. s \in Seq(S1 \cup S2) /\ t \in Seq(S1 \cup S2)
  BY <1>1, <1>2
<1> DEFINE S == S1 \cup S2
<1> HIDE DEF S
<1>6. /\ s \o t \in Seq(S)
      /\ Len(s) \in Nat /\ Len(t) \in Nat
      /\ Len(s \o t) = Len(s) + Len(t)
      /\ \A i \in 1 .. Len(s) + Len(t) :
            (s \o t)[i] = IF i <= Len(s) THEN s[i] ELSE t[i - Len(s)]
  BY <1>5, ConcatProperties DEF S
<1> DEFINE h == [i \in 1 .. Len(s) + Len(t) + 1 |->
                    IF i <= Len(s) THEN h1[i] ELSE h2[i - Len(s)]]
<1>7. h \in [1 .. Len(s \o t) + 1 -> Heights]
  <2>1. ASSUME NEW i \in 1 .. Len(s) + Len(t) + 1
        PROVE  (IF i <= Len(s) THEN h1[i] ELSE h2[i - Len(s)]) \in Heights
    <3>1. CASE i <= Len(s)
      <4>1. i \in 1 .. Len(s) + 1
        BY <1>6, <3>1
      <4>2. QED
        BY <1>3, <3>1, <4>1
    <3>2. CASE i > Len(s)
      <4>1. i - Len(s) \in 1 .. Len(t) + 1
        BY <1>6, <3>2
      <4>2. QED
        BY <1>4, <1>6, <3>2, <4>1
    <3>3. QED
      BY <1>6, <3>1, <3>2
  <2>2. QED
    BY <1>6, <2>1
<1>8. h[1] = m /\ h[Len(s \o t) + 1] = n
  BY <1>3, <1>4, <1>6
<1>9. ASSUME NEW i \in 1 .. Len(s \o t)
      PROVE  Fits((s \o t)[i], h[i], h[i + 1])
  <2>1. i \in 1 .. Len(s) + Len(t) /\ i + 1 \in 1 .. Len(s) + Len(t) + 1
    BY <1>6
  <2>2. CASE i < Len(s)
    <3>1. (s \o t)[i] = s[i] /\ h[i] = h1[i] /\ h[i + 1] = h1[i + 1]
      BY <1>6, <2>1, <2>2
    <3>2. QED
      BY <1>3, <1>6, <2>1, <2>2, <3>1
  <2>3. CASE i = Len(s)
    <3>1. (s \o t)[i] = s[i] /\ h[i] = h1[i] /\ h[i + 1] = h2[1]
      BY <1>6, <2>1, <2>3
    <3>2. i \in 1 .. Len(s) /\ h1[i + 1] = h2[1]
      BY <1>3, <1>4, <1>6, <2>1, <2>3
    <3>3. QED
      BY <1>3, <3>1, <3>2
  <2>4. CASE i > Len(s)
    <3> DEFINE j == i - Len(s)
    <3>1. j \in 1 .. Len(t) /\ (i + 1) - Len(s) = j + 1
      BY <1>6, <2>1, <2>4
    <3>2. (s \o t)[i] = t[j] /\ h[i] = h2[j] /\ h[i + 1] = h2[j + 1]
      BY <1>6, <2>1, <2>4, <3>1
    <3>3. QED
      BY <1>4, <3>1, <3>2
  <2>5. QED
    BY <1>6, <2>1, <2>2, <2>3, <2>4
<1> HIDE DEF h
<1>10. QED
  BY <1>6, <1>7, <1>8, <1>9 DEF Threads

LEMMA ThreadsHead ==
    ASSUME NEW s, NEW m \in Nat, Threads(s, m, -1)
    PROVE  /\ s # << >>
           /\ \E k \in Heights : Fits(Head(s), m, k) /\ Threads(Tail(s), k, -1)
<1>1. PICK S : s \in Seq(S)
  BY DEF Threads
<1>2. PICK h \in [1 .. Len(s) + 1 -> Heights] :
        /\ h[1] = m /\ h[Len(s) + 1] = -1
        /\ \A i \in 1 .. Len(s) : Fits(s[i], h[i], h[i + 1])
  BY DEF Threads
<1>3. Len(s) # 0
  BY <1>1, <1>2
<1>4. s # << >> /\ Len(s) \in Nat \ {0}
  BY <1>1, <1>3
<1>5. /\ Tail(s) \in Seq(S)
      /\ Len(Tail(s)) = Len(s) - 1
      /\ \A i \in 1 .. Len(s) - 1 : Tail(s)[i] = s[i + 1]
  BY <1>1, <1>4
<1>6. Fits(Head(s), m, h[2]) /\ h[2] \in Heights
  <2>1. 1 \in 1 .. Len(s) /\ Head(s) = s[1] /\ 2 \in 1 .. Len(s) + 1
    BY <1>1, <1>4
  <2>2. QED
    BY <1>2, <2>1
<1> DEFINE g == [i \in 1 .. Len(s) |-> h[i + 1]]
<1>7. g \in [1 .. Len(Tail(s)) + 1 -> Heights]
  BY <1>2, <1>4, <1>5
<1>8. g[1] = h[2] /\ g[Len(Tail(s)) + 1] = -1
  BY <1>2, <1>4, <1>5
<1>9. \A i \in 1 .. Len(Tail(s)) : Fits(Tail(s)[i], g[i], g[i + 1])
  <2> TAKE i \in 1 .. Len(Tail(s))
  <2>1. /\ i + 1 \in 1 .. Len(s) /\ i \in 1 .. Len(s) - 1
        /\ g[i] = h[i + 1] /\ g[i + 1] = h[(i + 1) + 1]
    BY <1>4, <1>5
  <2>2. Tail(s)[i] = s[i + 1]
    BY <1>5, <2>1
  <2>3. QED
    BY <1>2, <2>1, <2>2
<1> HIDE DEF g
<1>10. Threads(Tail(s), h[2], -1)
  BY <1>5, <1>7, <1>8, <1>9 DEF Threads
<1>11. QED
  BY <1>4, <1>6, <1>10

LEMMA ThreadsEmpty ==
    ASSUME NEW m \in Heights
    PROVE  Threads(<< >>, m, m)
<1> DEFINE h == [i \in 1 .. 1 |-> m]
<1>1. h \in [1 .. Len(<< >>) + 1 -> Heights] /\ h[1] = m /\ h[Len(<< >>) + 1] = m
  OBVIOUS
<1>2. << >> \in Seq({})
  OBVIOUS
<1> HIDE DEF h
<1>3. QED
  BY <1>1, <1>2 DEF Threads

LEMMA Threads1 ==
    ASSUME NEW a, NEW m0,
           NEW m1,
           Fits(a, m0, m1)
    PROVE  Threads(<<a>>, m0, m1)
<1> DEFINE s == <<a>>
           h == <<m0, m1>>
<1>1. /\ m0 \in Heights /\ m1 \in Heights
  BY DEF Fits, Heights
<1>2. s \in Seq({a}) /\ Len(s) = 1
  OBVIOUS
<1>3. h \in [1 .. Len(s) + 1 -> Heights] /\ h[1] = m0 /\ h[Len(s) + 1] = m1
  BY <1>1, <1>2
<1>4. \A i \in 1 .. Len(s) : Fits(s[i], h[i], h[i + 1])
  <2> TAKE i \in 1 .. Len(s)
  <2>1. i = 1
    BY <1>2
  <2>2. QED
    BY <2>1
<1> HIDE DEF s, h
<1>5. Threads(s, m0, m1)
  BY <1>2, <1>3, <1>4 DEF Threads
<1>6. QED
  BY <1>5 DEF s

LEMMA Threads2 ==
    ASSUME NEW a, NEW b, NEW m0,
           NEW m1, NEW m2,
           Fits(a, m0, m1), Fits(b, m1, m2)
    PROVE  Threads(<<a, b>>, m0, m2)
<1> DEFINE s == <<a, b>>
           h == <<m0, m1, m2>>
<1>1. /\ m0 \in Heights /\ m1 \in Heights /\ m2 \in Heights
  BY DEF Fits, Heights
<1>2. s \in Seq({a, b}) /\ Len(s) = 2
  OBVIOUS
<1>3. h \in [1 .. Len(s) + 1 -> Heights] /\ h[1] = m0 /\ h[Len(s) + 1] = m2
  BY <1>1, <1>2
<1>4. \A i \in 1 .. Len(s) : Fits(s[i], h[i], h[i + 1])
  <2> TAKE i \in 1 .. Len(s)
  <2>1. i = 1 \/ i = 2
    BY <1>2
  <2>2. QED
    BY <2>1
<1> HIDE DEF s, h
<1>5. Threads(s, m0, m2)
  BY <1>2, <1>3, <1>4 DEF Threads
<1>6. QED
  BY <1>5 DEF s

LEMMA Threads3 ==
    ASSUME NEW a, NEW b, NEW c, NEW m0,
           NEW m1, NEW m2, NEW m3,
           Fits(a, m0, m1), Fits(b, m1, m2), Fits(c, m2, m3)
    PROVE  Threads(<<a, b, c>>, m0, m3)
<1> DEFINE s == <<a, b, c>>
           h == <<m0, m1, m2, m3>>
<1>1. /\ m0 \in Heights /\ m1 \in Heights /\ m2 \in Heights /\ m3 \in Heights
  BY DEF Fits, Heights
<1>2. s \in Seq({a, b, c}) /\ Len(s) = 3
  OBVIOUS
<1>3. h \in [1 .. Len(s) + 1 -> Heights] /\ h[1] = m0 /\ h[Len(s) + 1] = m3
  BY <1>1, <1>2
<1>4. \A i \in 1 .. Len(s) : Fits(s[i], h[i], h[i + 1])
  <2> TAKE i \in 1 .. Len(s)
  <2>1. i = 1 \/ i = 2 \/ i = 3
    BY <1>2
  <2>2. QED
    BY <2>1
<1> HIDE DEF s, h
<1>5. Threads(s, m0, m3)
  BY <1>2, <1>3, <1>4 DEF Threads
<1>6. QED
  BY <1>5 DEF s

LEMMA Threads4 ==
    ASSUME NEW a, NEW b, NEW c, NEW d, NEW m0,
           NEW m1, NEW m2, NEW m3, NEW m4,
           Fits(a, m0, m1), Fits(b, m1, m2), Fits(c, m2, m3), Fits(d, m3, m4)
    PROVE  Threads(<<a, b, c, d>>, m0, m4)
<1> DEFINE s == <<a, b, c, d>>
           h == <<m0, m1, m2, m3, m4>>
<1>1. /\ m0 \in Heights /\ m1 \in Heights /\ m2 \in Heights /\ m3 \in Heights
      /\ m4 \in Heights
  BY DEF Fits, Heights
<1>2. s \in Seq({a, b, c, d}) /\ Len(s) = 4
  OBVIOUS
<1>3. h \in [1 .. Len(s) + 1 -> Heights] /\ h[1] = m0 /\ h[Len(s) + 1] = m4
  BY <1>1, <1>2
<1>4. \A i \in 1 .. Len(s) : Fits(s[i], h[i], h[i + 1])
  <2> TAKE i \in 1 .. Len(s)
  <2>1. i = 1 \/ i = 2 \/ i = 3 \/ i = 4
    BY <1>2
  <2>2. QED
    BY <2>1
<1> HIDE DEF s, h
<1>5. Threads(s, m0, m4)
  BY <1>2, <1>3, <1>4 DEF Threads
<1>6. QED
  BY <1>5 DEF s

LEMMA Threads5 ==
    ASSUME NEW a, NEW b, NEW c, NEW d, NEW e, NEW m0,
           NEW m1, NEW m2, NEW m3, NEW m4, NEW m5,
           Fits(a, m0, m1), Fits(b, m1, m2), Fits(c, m2, m3), Fits(d, m3, m4),
           Fits(e, m4, m5)
    PROVE  Threads(<<a, b, c, d, e>>, m0, m5)
<1> DEFINE s == <<a, b, c, d, e>>
           h == <<m0, m1, m2, m3, m4, m5>>
<1>1. /\ m0 \in Heights /\ m1 \in Heights /\ m2 \in Heights /\ m3 \in Heights
      /\ m4 \in Heights /\ m5 \in Heights
  BY DEF Fits, Heights
<1>2. s \in Seq({a, b, c, d, e}) /\ Len(s) = 5
  OBVIOUS
<1>3. h \in [1 .. Len(s) + 1 -> Heights] /\ h[1] = m0 /\ h[Len(s) + 1] = m5
  BY <1>1, <1>2
<1>4. \A i \in 1 .. Len(s) : Fits(s[i], h[i], h[i + 1])
  <2> TAKE i \in 1 .. Len(s)
  <2>1. i = 1 \/ i = 2 \/ i = 3 \/ i = 4 \/ i = 5
    BY <1>2
  <2>2. QED
    BY <2>1
<1> HIDE DEF s, h
<1>5. Threads(s, m0, m5)
  BY <1>2, <1>3, <1>4 DEF Threads
<1>6. QED
  BY <1>5 DEF s

LEMMA Threads6 ==
    ASSUME NEW a, NEW b, NEW c, NEW d, NEW e, NEW f, NEW m0,
           NEW m1, NEW m2, NEW m3, NEW m4, NEW m5, NEW m6,
           Fits(a, m0, m1), Fits(b, m1, m2), Fits(c, m2, m3), Fits(d, m3, m4),
           Fits(e, m4, m5), Fits(f, m5, m6)
    PROVE  Threads(<<a, b, c, d, e, f>>, m0, m6)
<1> DEFINE s == <<a, b, c, d, e, f>>
           h == <<m0, m1, m2, m3, m4, m5, m6>>
<1>1. /\ m0 \in Heights /\ m1 \in Heights /\ m2 \in Heights /\ m3 \in Heights
      /\ m4 \in Heights /\ m5 \in Heights /\ m6 \in Heights
  BY DEF Fits, Heights
<1>2. s \in Seq({a, b, c, d, e, f}) /\ Len(s) = 6
  OBVIOUS
<1>3. h \in [1 .. Len(s) + 1 -> Heights] /\ h[1] = m0 /\ h[Len(s) + 1] = m6
  BY <1>1, <1>2
<1>4. \A i \in 1 .. Len(s) : Fits(s[i], h[i], h[i + 1])
  <2> TAKE i \in 1 .. Len(s)
  <2>1. i = 1 \/ i = 2 \/ i = 3 \/ i = 4 \/ i = 5 \/ i = 6
    BY <1>2
  <2>2. QED
    BY <2>1
<1> HIDE DEF s, h
<1>5. Threads(s, m0, m6)
  BY <1>2, <1>3, <1>4 DEF Threads
<1>6. QED
  BY <1>5 DEF s

LEMMA Threads7 ==
    ASSUME NEW a, NEW b, NEW c, NEW d, NEW e, NEW f, NEW g, NEW m0,
           NEW m1, NEW m2, NEW m3, NEW m4, NEW m5, NEW m6, NEW m7,
           Fits(a, m0, m1), Fits(b, m1, m2), Fits(c, m2, m3), Fits(d, m3, m4),
           Fits(e, m4, m5), Fits(f, m5, m6), Fits(g, m6, m7)
    PROVE  Threads(<<a, b, c, d, e, f, g>>, m0, m7)
<1> DEFINE s == <<a, b, c, d, e, f, g>>
           h == <<m0, m1, m2, m3, m4, m5, m6, m7>>
<1>1. /\ m0 \in Heights /\ m1 \in Heights /\ m2 \in Heights /\ m3 \in Heights
      /\ m4 \in Heights /\ m5 \in Heights /\ m6 \in Heights /\ m7 \in Heights
  BY DEF Fits, Heights
<1>2. s \in Seq({a, b, c, d, e, f, g}) /\ Len(s) = 7
  OBVIOUS
<1>3. h \in [1 .. Len(s) + 1 -> Heights] /\ h[1] = m0 /\ h[Len(s) + 1] = m7
  BY <1>1, <1>2
<1>4. \A i \in 1 .. Len(s) : Fits(s[i], h[i], h[i + 1])
  <2> TAKE i \in 1 .. Len(s)
  <2>1. i = 1 \/ i = 2 \/ i = 3 \/ i = 4 \/ i = 5 \/ i = 6 \/ i = 7
    BY <1>2
  <2>2. QED
    BY <2>1
<1> HIDE DEF s, h
<1>5. Threads(s, m0, m7)
  BY <1>2, <1>3, <1>4 DEF Threads
<1>6. QED
  BY <1>5 DEF s

LEMMA Threads8 ==
    ASSUME NEW x1, NEW x2, NEW x3, NEW x4, NEW x5, NEW x6, NEW x7, NEW x8, NEW m0,
           NEW m1, NEW m2, NEW m3, NEW m4, NEW m5, NEW m6, NEW m7, NEW m8,
           Fits(x1, m0, m1), Fits(x2, m1, m2), Fits(x3, m2, m3), Fits(x4, m3, m4),
           Fits(x5, m4, m5), Fits(x6, m5, m6), Fits(x7, m6, m7), Fits(x8, m7, m8)
    PROVE  Threads(<<x1, x2, x3, x4, x5, x6, x7, x8>>, m0, m8)
<1>1. Threads(<<x1, x2, x3, x4>>, m0, m4)
  BY Threads4
<1>2. Threads(<<x5, x6, x7, x8>>, m4, m8)
  BY Threads4
<1>3. <<x1, x2, x3, x4, x5, x6, x7, x8>> = <<x1, x2, x3, x4>> \o <<x5, x6, x7, x8>>
  OBVIOUS
<1>4. QED
  BY <1>1, <1>2, <1>3, ThreadsConcat

LEMMA Threads10 ==
    ASSUME NEW x1, NEW x2, NEW x3, NEW x4, NEW x5, NEW x6, NEW x7, NEW x8, NEW x9, NEW x10, NEW m0,
           NEW m1, NEW m2, NEW m3, NEW m4, NEW m5, NEW m6, NEW m7, NEW m8, NEW m9, NEW m10,
           Fits(x1, m0, m1), Fits(x2, m1, m2), Fits(x3, m2, m3), Fits(x4, m3, m4),
           Fits(x5, m4, m5), Fits(x6, m5, m6), Fits(x7, m6, m7), Fits(x8, m7, m8),
           Fits(x9, m8, m9), Fits(x10, m9, m10)
    PROVE  Threads(<<x1, x2, x3, x4, x5, x6, x7, x8, x9, x10>>, m0, m10)
<1>1. Threads(<<x1, x2, x3, x4, x5>>, m0, m5)
  BY Threads5
<1>2. Threads(<<x6, x7, x8, x9, x10>>, m5, m10)
  BY Threads5
<1>3. <<x1, x2, x3, x4, x5, x6, x7, x8, x9, x10>> = <<x1, x2, x3, x4, x5>> \o <<x6, x7, x8, x9, x10>>
  OBVIOUS
<1>4. QED
  BY <1>1, <1>2, <1>3, ThreadsConcat

-----------------------------------------------------------------------------
(* What the things to do need, and lead to.                                *)

LEMMA NatHeights == \A m \in Nat : m \in Heights
  BY DEF Heights

LEMMA ItemFits ==
    ASSUME NEW m \in Nat
    PROVE  /\ Fits(Discard, m, m)
           /\ \A ty : Fits(Expect(ty), m, m)
           /\ \A ty, v : Fits(ExpectOne(ty, v), m, m)
           /\ \A n \in Heights : Fits(Fail, m, n)
<1>1. m \in Heights
  BY DEF Heights
<1>2. QED
  BY <1>1 DEF Fits, Discard, Expect, ExpectOne, Fail, Item

LEMMA GiverFits ==
    ASSUME NEW m \in Nat, NEW n \in Nat, n = m + 1
    PROVE  /\ \A lo, hi : Fits(Number(lo, hi), m, n)
           /\ Fits(parse_identifier, m, n)
           /\ Fits(Take, m, n)
           /\ \A x : Fits(Push(x), m, n)
           /\ \A r \in Givers : Fits(Call(r), m, n)
<1>1. n \in Heights
  BY DEF Heights
<1>2. QED
  BY <1>1 DEF Fits, Number, parse_identifier, Take, Push, Call, Item

LEMMA GoerFits ==
    ASSUME NEW m \in Nat, m >= 1
    PROVE  /\ \A r \in Goers : Fits(Call(r), m, m)
           /\ \A what \in Taking1 : Fits(Make(what), m, m)
           /\ \A x : \A what \in Taking1 : Fits(MakeOf(what, x), m, m)
<1>1. m \in Heights
  BY DEF Heights
<1>2. QED
  BY <1>1 DEF Fits, Call, Make, MakeOf, Item

LEMMA MakeFits ==
    ASSUME NEW m \in Nat, NEW n \in Nat
    PROVE  /\ m >= 2 /\ n = m - 1 => \A what \in Taking2 : Fits(Make(what), m, n)
           /\ m >= 2 /\ n = m - 1 => \A x : \A what \in Taking2 : Fits(MakeOf(what, x), m, n)
           /\ m >= 3 /\ n = m - 2 => Fits(Make("if"), m, n)
           /\ m >= 4 /\ n = m - 3 => Fits(Make("for"), m, n)
<1>1. n \in Heights
  BY DEF Heights
<1>2. QED
  BY <1>1 DEF Fits, Make, MakeOf, Item

LEMMA DeclarationFits ==
    /\ Fits(Call("toplevel"), 0, -1)
    /\ Fits(Make("import"), 1, 0)
    /\ Fits(Make("constant"), 2, 0)
    /\ Fits(Make("function"), 3, 0)
  BY DEF Fits, Call, Make, Item, Heights

LEMMA CallFitsOnly ==
    ASSUME NEW r, NEW m, NEW n, Fits(Call(r), m, n)
    PROVE  /\ m \in Nat /\ n \in Heights
           /\ \/ r = "toplevel" /\ m = 0 /\ n = -1
              \/ r \in Givers /\ n = m + 1
              \/ r \in Goers /\ m >= 1 /\ n = m
  BY DEF Fits, Call, Item

-----------------------------------------------------------------------------
(* Expressions.                                                            *)

LEMMA FromThreads ==
    ASSUME NEW k \in 1 .. 6, NEW m \in Nat, NEW n \in Nat, n = m + 1
    PROVE  Threads(From(k), m, n)
<1>1. Threads(<<Call("basic")>>, m, n)
  <2>1. Fits(Call("basic"), m, n)
    BY GiverFits DEF Givers
  <2>2. QED
    BY <2>1, Threads1
<1> DEFINE loops == [j \in 1 .. 6 - k |-> Call(Level[6 - j])]
           h == [i \in 1 .. (6 - k) + 1 |-> n]
<1>2. \A j \in 1 .. 6 - k : Level[6 - j] \in Levels
  <2> TAKE j \in 1 .. 6 - k
  <2>1. 6 - j \in 1 .. 5
    OBVIOUS
  <2>2. \A i \in 1 .. 5 : Level[i] = <<"assign", "compare", "logic", "arit", "mul">>[i]
    BY DEF Level, LevelOps
  <2>3. \A i \in 1 .. 5 : <<"assign", "compare", "logic", "arit", "mul">>[i] \in Levels
    <3> TAKE i \in 1 .. 5
    <3>1. i = 1 \/ i = 2 \/ i = 3 \/ i = 4 \/ i = 5
      OBVIOUS
    <3>2. QED
      BY <3>1 DEF Levels
  <2>4. QED
    BY <2>1, <2>2, <2>3
<1>3. 6 - k \in Nat
  OBVIOUS
<1>4. loops \in Seq({Call(r) : r \in Levels}) /\ Len(loops) = 6 - k
  <2> DEFINE T == {Call(r) : r \in Levels}
             c == 6 - k
  <2>1. c \in Nat /\ \A j \in 1 .. c : Call(Level[6 - j]) \in T
    BY <1>2, <1>3
  <2> HIDE DEF T, c
  <2>2. /\ [j \in 1 .. c |-> Call(Level[6 - j])] \in Seq(T)
        /\ Len([j \in 1 .. c |-> Call(Level[6 - j])]) = c
    BY <2>1
  <2>3. QED
    BY <2>2 DEF T, c
<1>5. h \in [1 .. Len(loops) + 1 -> Heights] /\ h[1] = n /\ h[Len(loops) + 1] = n
  BY <1>3, <1>4, NatHeights
<1>6. \A i \in 1 .. Len(loops) : Fits(loops[i], h[i], h[i + 1])
  <2> TAKE i \in 1 .. Len(loops)
  <2>1. i \in 1 .. 6 - k /\ h[i] = n /\ h[i + 1] = n
    BY <1>3, <1>4
  <2>2. loops[i] = Call(Level[6 - i]) /\ Level[6 - i] \in Goers
    BY <1>2, <2>1 DEF Goers
  <2>3. QED
    BY <2>1, <2>2, GoerFits
<1>7. Threads(loops, n, n)
  <2> HIDE DEF loops, h
  <2>1. QED
    BY <1>4, <1>5, <1>6 DEF Threads
<1>8. From(k) = <<Call("basic")>> \o loops
  BY DEF From
<1> HIDE DEF loops, h
<1>9. QED
  BY <1>1, <1>7, <1>8, ThreadsConcat

LEMMA ExprThreads ==
    ASSUME NEW m \in Nat, NEW n \in Nat, n = m + 1
    PROVE  Threads(parse_expr, m, n)
  BY FromThreads DEF parse_expr

\* A thing in front of an expression, and up to four behind it.
LEMMA AroundExpr ==
    ASSUME NEW s, NEW t, NEW k \in Nat, NEW l \in Nat, NEW m, NEW n, l = k + 1,
           Threads(s, m, k), Threads(t, l, n)
    PROVE  Threads(s \o parse_expr \o t, m, n)
<1>1. Threads(s \o parse_expr, m, l)
  BY ExprThreads, ThreadsConcat
<1>2. QED
  BY <1>1, ThreadsConcat

LEMMA MoreOperatorsThreads ==
    ASSUME NEW k \in 1 .. 5, NEW t, NEW m \in Nat, m >= 1
    PROVE  Threads(more_operators(k, t), m, m)
<1> DEFINE last == <<MakeOf("op", t.value), Call(Level[k])>>
<1>1. m + 1 \in Nat /\ m + 1 >= 2 /\ m = (m + 1) - 1 /\ k + 1 \in 1 .. 6 /\ m \in Heights
  BY DEF Heights
<1>2. Threads(<<Discard>>, m, m)
  BY ItemFits, Threads1
<1>3. Threads(From(k + 1), m, m + 1)
  BY <1>1, FromThreads
<1>4. Threads(last, m + 1, m)
  <2>1. Fits(MakeOf("op", t.value), m + 1, m)
    BY <1>1, MakeFits DEF Taking2
  <2>2. Level[k] \in Goers
    <3>1. k = 1 \/ k = 2 \/ k = 3 \/ k = 4 \/ k = 5
      OBVIOUS
    <3>2. QED
      BY <3>1 DEF Level, LevelOps, Goers, Levels
  <2>3. Fits(Call(Level[k]), m, m)
    BY <2>2, GoerFits
  <2>4. QED
    BY <2>1, <2>3, Threads2
<1>5. more_operators(k, t) = IF is_next(t, "Operator", LevelOps[k])
                             THEN <<Discard>> \o From(k + 1) \o last ELSE << >>
  BY DEF more_operators
<1> HIDE DEF last
<1>6. Threads(<<Discard>> \o From(k + 1), m, m + 1)
  BY <1>2, <1>3, ThreadsConcat
<1>7. Threads(<<Discard>> \o From(k + 1) \o last, m, m)
  BY <1>4, <1>6, ThreadsConcat
<1>8. QED
  BY <1>1, <1>5, <1>7, ThreadsEmpty

LEMMA ParseValueThreads ==
    ASSUME NEW t, NEW lo, NEW hi, NEW m \in Nat, NEW n \in Nat, n = m + 1
    PROVE  Threads(parse_value(t, lo, hi), m, n)
<1>1. Fits(Discard, m, m) /\ Fits(Number(lo, hi), m, n) /\ Fits(Make("negative"), n, n)
  BY ItemFits, GiverFits, GoerFits DEF Taking1
<1>2. Threads(<<Discard, Number(lo, hi), Make("negative")>>, m, n)
  BY <1>1, Threads3
<1>3. Threads(<<Number(lo, hi)>>, m, n)
  BY <1>1, Threads1
<1>4. QED
  BY <1>2, <1>3 DEF parse_value

LEMMA MagicThreads ==
    ASSUME NEW m \in Nat
    PROVE  Threads(magic, m, m)
  BY ItemFits, Threads3 DEF magic

LEMMA MagicWithThreads ==
    ASSUME NEW o, NEW m \in Nat, NEW n \in Nat, n = m + 1
    PROVE  Threads(magic_with(o), m, n)
<1> DEFINE first == <<Discard, Expect("BracesOpen")>>
           last == <<MakeOf("pushing", o), Expect("BracesClose")>>
<1>1. Threads(first, m, m)
  BY ItemFits, Threads2
<1>2. Threads(last, n, n)
  <2>1. Fits(MakeOf("pushing", o), n, n) /\ Fits(Expect("BracesClose"), n, n)
    BY ItemFits, GoerFits DEF Taking1
  <2>2. QED
    BY <2>1, Threads2
<1>3. magic_with(o) = first \o parse_expr \o last
  BY DEF magic_with
<1> HIDE DEF first, last
<1>4. QED
  BY <1>1, <1>2, <1>3, AroundExpr

LEMMA OperandThreads ==
    ASSUME NEW t, NEW m \in Nat, NEW n \in Nat, n = m + 1
    PROVE  Threads(parse_operand(t), m, n)
<1>1. \A x : Threads(magic \o <<Push(x)>>, m, n)
  <2> TAKE x
  <2>1. Threads(<<Push(x)>>, m, n)
    BY GiverFits, Threads1
  <2>2. QED
    BY <2>1, MagicThreads, ThreadsConcat
<1>2. \A o : Threads(magic_with(o), m, n)
  BY MagicWithThreads
<1>3. Threads(<<Discard>> \o parse_expr \o <<Expect("BracesClose")>>, m, n)
  <2>1. Threads(<<Discard>>, m, m)
    BY ItemFits, Threads1
  <2>2. Threads(<<Expect("BracesClose")>>, n, n)
    BY ItemFits, Threads1
  <2>3. QED
    BY <2>1, <2>2, AroundExpr
<1>4. Threads(parse_value(t, INT32_MIN, INT32_MAX), m, n)
  BY ParseValueThreads
<1>5. Threads(<<parse_identifier, Call("ident")>>, m, n)
  <2>1. Fits(parse_identifier, m, n) /\ Fits(Call("ident"), n, n)
    BY GiverFits, GoerFits DEF Goers
  <2>2. QED
    BY <2>1, Threads2
<1>6. Threads(<<Fail>>, m, n)
  BY ItemFits, NatHeights, Threads1
<1>7. QED
  BY <1>1, <1>2, <1>3, <1>4, <1>5, <1>6 DEF parse_operand

LEMMA BasicThreads ==
    ASSUME NEW t, NEW m \in Nat, NEW n \in Nat, n = m + 1
    PROVE  Threads(parse_basic_expr(t), m, n)
<1>1. /\ Fits(Discard, m, m) /\ Fits(Call("operand"), m, n) /\ Fits(Call("index"), n, n)
      /\ Fits(Make("minus"), n, n)
  BY ItemFits, GiverFits, GoerFits DEF Givers, Goers, Taking1
<1>2. Threads(<<Discard, Call("operand"), Call("index"), Make("minus")>>, m, n)
  BY <1>1, Threads4
<1>3. Threads(<<Call("operand"), Call("index")>>, m, n)
  BY <1>1, Threads2
<1>4. QED
  BY <1>2, <1>3 DEF parse_basic_expr

\* The loops over arguments and indices, behind what they add to.
LEMMA ArgumentThreads ==
    ASSUME NEW t, NEW m \in Nat, m >= 1
    PROVE  /\ Threads(parse_ident_expr(t), m, m)
           /\ Threads(parse_fcall_args(t), m, m)
           /\ Threads(more_args(t), m, m)
           /\ Threads(more_indices(t), m, m)
<1>0. m \in Heights /\ m + 1 \in Nat /\ m + 1 >= 2 /\ m = (m + 1) - 1
  BY DEF Heights
<1>1. Threads(parse_ident_expr(t), m, m)
  <2>1. /\ Fits(Discard, m, m) /\ Fits(Make("fun"), m, m) /\ Fits(Call("args"), m, m)
        /\ Fits(Expect("BracesClose"), m, m)
    BY ItemFits, GoerFits DEF Goers, Taking1
  <2>2. Threads(<<Discard, Make("fun"), Call("args"), Expect("BracesClose")>>, m, m)
    BY <2>1, Threads4
  <2>3. QED
    BY <1>0, <2>2, ThreadsEmpty DEF parse_ident_expr
<1>2. Threads(<<Make("arg"), Call("more_args")>>, m + 1, m)
  <2>1. Fits(Make("arg"), m + 1, m) /\ Fits(Call("more_args"), m, m)
    BY <1>0, MakeFits, GoerFits DEF Goers, Taking2
  <2>2. QED
    BY <2>1, Threads2
<1>3. Threads(<<Discard>>, m, m)
  BY ItemFits, Threads1
<1>4. Threads(parse_fcall_args(t), m, m)
  <2>1. Threads(parse_expr \o <<Make("arg"), Call("more_args")>>, m, m)
    BY <1>0, <1>2, ExprThreads, ThreadsConcat
  <2>2. QED
    BY <1>0, <2>1, ThreadsEmpty DEF parse_fcall_args
<1>5. Threads(more_args(t), m, m)
  <2>1. Threads(<<Discard>> \o parse_expr \o <<Make("arg"), Call("more_args")>>, m, m)
    BY <1>0, <1>2, <1>3, AroundExpr
  <2>2. QED
    BY <1>0, <2>1, ThreadsEmpty DEF more_args
<1>6. Threads(more_indices(t), m, m)
  <2>1. /\ Fits(Make("arr"), m + 1, m) /\ Fits(Expect("BlockClose"), m, m)
        /\ Fits(Call("index"), m, m)
    BY <1>0, MakeFits, ItemFits, GoerFits DEF Goers, Taking2
  <2>2. Threads(<<Make("arr"), Expect("BlockClose"), Call("index")>>, m + 1, m)
    BY <2>1, Threads3
  <2>3. Threads(<<Discard>> \o parse_expr \o <<Make("arr"), Expect("BlockClose"), Call("index")>>,
                m, m)
    BY <1>0, <1>3, <2>2, AroundExpr
  <2>4. QED
    BY <1>0, <2>3, ThreadsEmpty DEF more_indices
<1>7. QED
  BY <1>1, <1>4, <1>5, <1>6

-----------------------------------------------------------------------------
(* Statements.                                                             *)

LEMMA VarThreads ==
    ASSUME NEW t, NEW m \in Nat, NEW n \in Nat, n = m + 1
    PROVE  /\ Threads(parse_var_stmt, m, n)
           /\ Threads(parse_var_init(t), n, n)
<1>0. n >= 1 /\ n + 1 \in Nat /\ n + 1 >= 2 /\ n = (n + 1) - 1
  OBVIOUS
<1>1. Threads(parse_var_stmt, m, n)
  <2>1. Fits(Discard, m, m) /\ Fits(parse_identifier, m, n) /\ Fits(Call("var_init"), n, n)
    BY <1>0, ItemFits, GiverFits, GoerFits DEF Goers
  <2>2. QED
    BY <2>1, Threads3 DEF parse_var_stmt
<1>2. Fits(Make("var"), n + 1, n)
  BY <1>0, MakeFits DEF Taking2
<1>3. Threads(<<Discard>> \o parse_expr \o <<Make("var")>>, n, n)
  <2>1. Threads(<<Discard>>, n, n)
    BY ItemFits, Threads1
  <2>2. Threads(<<Make("var")>>, n + 1, n)
    BY <1>2, Threads1
  <2>3. QED
    BY <1>0, <2>1, <2>2, AroundExpr
<1>4. Threads(<<Push(Val(0)), Make("var")>>, n, n)
  <2>1. Fits(Push(Val(0)), n, n + 1)
    BY <1>0, GiverFits
  <2>2. QED
    BY <1>2, <2>1, Threads2
<1>5. QED
  BY <1>1, <1>3, <1>4 DEF parse_var_init

LEMMA ExprStmtThreads ==
    ASSUME NEW pop, NEW m \in Nat, NEW n \in Nat, n = m + 1
    PROVE  Threads(parse_expr_stmt(pop), m, n)
<1>1. Threads(<<MakeOf("expr", pop)>>, n, n)
  BY GoerFits, Threads1 DEF Taking1
<1>2. QED
  BY <1>1, ExprThreads, ThreadsConcat DEF parse_expr_stmt

LEMMA PrintThreads ==
    ASSUME NEW string \in {"string", "line"}, NEW newline, NEW t, NEW m \in Nat, NEW n \in Nat, n = m + 1
    PROVE  /\ Threads(parse_magic_print(string), m, n)
           /\ Threads(parse_string(newline, t), m, n)
<1>1. /\ Fits(Discard, m, m) /\ Fits(Expect("BracesOpen"), m, m) /\ Fits(Call(string), m, n)
      /\ Fits(Expect("BracesClose"), n, n)
  BY ItemFits, GiverFits DEF Givers
<1>2. Threads(parse_magic_print(string), m, n)
  BY <1>1, Threads4 DEF parse_magic_print
<1>3. Threads(<<Discard, Push(printed(t.chars \o newline))>>, m, n)
  BY <1>1, GiverFits, Threads2
<1>4. Threads(<<Fail>>, m, n)
  BY ItemFits, NatHeights, Threads1
<1>5. QED
  BY <1>2, <1>3, <1>4 DEF parse_string

LEMMA StopThreads ==
    ASSUME NEW op, NEW m \in Nat, NEW n \in Nat, n = m + 1
    PROVE  Threads(parse_stop(op), m, n)
<1>1. Threads(<<Push(JasStmt(op, "", 0))>>, m, n)
  BY GiverFits, Threads1
<1>2. QED
  BY <1>1, MagicThreads, ThreadsConcat DEF parse_stop

LEMMA PutcPushThreads ==
    ASSUME NEW m \in Nat, NEW n \in Nat, n = m + 1
    PROVE  /\ Threads(parse_magic_putc, m, n)
           /\ Threads(parse_magic_push, m, n)
<1> DEFINE first == <<Discard, Expect("BracesOpen")>>
<1>1. Threads(first \o parse_expr_stmt(FALSE), m, n)
  <2>1. Threads(first, m, m)
    BY ItemFits, Threads2
  <2> HIDE DEF first
  <2>2. QED
    BY <2>1, ExprStmtThreads, ThreadsConcat
<1>2. Threads(<<Make("putc"), Expect("BracesClose")>>, n, n)
  <2>1. Fits(Make("putc"), n, n) /\ Fits(Expect("BracesClose"), n, n)
    BY ItemFits, GoerFits DEF Taking1
  <2>2. QED
    BY <2>1, Threads2
<1>3. Threads(<<Expect("BracesClose")>>, n, n)
  BY ItemFits, Threads1
<1>4. /\ parse_magic_putc = first \o parse_expr_stmt(FALSE) \o <<Make("putc"), Expect("BracesClose")>>
      /\ parse_magic_push = first \o parse_expr_stmt(FALSE) \o <<Expect("BracesClose")>>
  BY DEF parse_magic_putc, parse_magic_push
<1> HIDE DEF first
<1>5. QED
  BY <1>1, <1>2, <1>3, <1>4, ThreadsConcat

LEMMA SimpleThreads ==
    ASSUME NEW t, NEW m \in Nat, NEW n \in Nat, n = m + 1
    PROVE  Threads(parse_simple(t), m, n)
<1>1. Threads(<<Discard>> \o parse_expr \o <<Make("ret")>>, m, n)
  <2>1. Threads(<<Discard>>, m, m)
    BY ItemFits, Threads1
  <2>2. Threads(<<Make("ret")>>, n, n)
    BY GoerFits, Threads1 DEF Taking1
  <2>3. QED
    BY <2>1, <2>2, AroundExpr
<1>2. Threads(parse_var_stmt, m, n)
  BY VarThreads
<1>3. Threads(parse_magic_print("string"), m, n) /\ Threads(parse_magic_print("line"), m, n)
  BY PrintThreads
<1>4. Threads(parse_stop("HALT"), m, n) /\ Threads(parse_stop("ERR"), m, n)
  BY StopThreads
<1>5. Threads(parse_magic_putc, m, n) /\ Threads(parse_magic_push, m, n)
  BY PutcPushThreads
<1>6. Threads(parse_expr_stmt(TRUE), m, n)
  BY ExprStmtThreads
<1>7. QED
  BY <1>1, <1>2, <1>3, <1>4, <1>5, <1>6 DEF parse_simple

LEMMA ForThreads ==
    ASSUME NEW m \in Nat, NEW n \in Nat, n = m + 1
    PROVE  Threads(parse_for_stmt, m, n) /\ Threads(parse_while_stmt, m, n)
<1> DEFINE n2 == m + 2
           n3 == m + 3
           n4 == m + 4
<1>0. /\ n2 \in Nat /\ n3 \in Nat /\ n4 \in Nat
      /\ n2 = n + 1 /\ n3 = n2 + 1 /\ n4 = n3 + 1 /\ n4 >= 4 /\ n = n4 - 3
  OBVIOUS
<1> HIDE DEF n2, n3, n4
<1>1. /\ Fits(Discard, m, m) /\ Fits(Expect("BracesOpen"), m, m)
      /\ Fits(Call("for_init"), m, n) /\ Fits(Push(nullptr), m, n)
      /\ Fits(Expect("SemiColon"), n, n)
      /\ Fits(Call("for_condition"), n, n2) /\ Fits(Call("while_condition"), n, n2)
      /\ Fits(Expect("SemiColon"), n2, n2) /\ Fits(Expect("BracesClose"), n2, n2)
      /\ Fits(Call("for_update"), n2, n3) /\ Fits(Push(nullptr), n2, n3)
      /\ Fits(Expect("BracesClose"), n3, n3)
      /\ Fits(Call("compound"), n3, n4)
  BY <1>0, ItemFits, GiverFits DEF Givers
<1>2. Fits(Make("for"), n4, n)
  BY <1>0, MakeFits
<1>3. Threads(parse_for_stmt, m, n)
  BY <1>1, <1>2, Threads10 DEF parse_for_stmt
<1>4. Threads(parse_while_stmt, m, n)
  BY <1>1, <1>2, Threads8 DEF parse_while_stmt
<1>5. QED
  BY <1>3, <1>4

LEMMA IfThreads ==
    ASSUME NEW m \in Nat, NEW n \in Nat, n = m + 1
    PROVE  Threads(parse_if_stmt, m, n)
<1> DEFINE n2 == m + 2
           n3 == m + 3
           first == <<Discard, Expect("BracesOpen")>>
           last == <<Expect("BracesClose"), Call("compound"), Call("else"), Make("if")>>
<1>0. n2 \in Nat /\ n3 \in Nat /\ n2 = n + 1 /\ n3 = n2 + 1 /\ n3 >= 3 /\ n = n3 - 2
  OBVIOUS
<1> HIDE DEF n2, n3
<1>1. Threads(first, m, m)
  BY ItemFits, Threads2
<1>2. Threads(last, n, n)
  <2>1. /\ Fits(Expect("BracesClose"), n, n) /\ Fits(Call("compound"), n, n2)
        /\ Fits(Call("else"), n2, n3)
    BY <1>0, ItemFits, GiverFits DEF Givers
  <2>2. Fits(Make("if"), n3, n)
    BY <1>0, MakeFits
  <2>3. QED
    BY <2>1, <2>2, Threads4
<1>3. parse_if_stmt = first \o parse_expr \o last
  BY DEF parse_if_stmt
<1> HIDE DEF first, last
<1>4. QED
  BY <1>1, <1>2, <1>3, AroundExpr

LEMMA StatementThreads ==
    ASSUME NEW t, NEW m \in Nat, NEW n \in Nat, n = m + 1
    PROVE  Threads(parse_statement(t), m, n)
<1>1. \A x : Threads(<<Discard, Expect("SemiColon"), Push(x)>>, m, n)
  BY ItemFits, GiverFits, Threads3
<1>2. Threads(parse_simple(t) \o <<Expect("SemiColon")>>, m, n)
  <2>1. Threads(<<Expect("SemiColon")>>, n, n)
    BY ItemFits, Threads1
  <2>2. QED
    BY <2>1, SimpleThreads, ThreadsConcat
<1>3. /\ Threads(parse_for_stmt, m, n) /\ Threads(parse_while_stmt, m, n)
      /\ Threads(parse_if_stmt, m, n)
  BY ForThreads, IfThreads
<1>4. QED
  BY <1>1, <1>2, <1>3 DEF parse_statement

\* The loops over statements, behind the block they add to.
LEMMA StmtsThreads ==
    ASSUME NEW t, NEW m \in Nat, m >= 1
    PROVE  Threads(parse_stmts(t), m, m)
<1>0. m + 1 \in Nat /\ m + 1 >= 2 /\ m = (m + 1) - 1
  OBVIOUS
<1>1. Threads(<<Discard>>, m, m)
  BY ItemFits, Threads1
<1>2. Threads(<<Call("stmts")>>, m, m)
  BY GoerFits, Threads1 DEF Goers
<1>3. Threads(<<Call("statement"), Make("item"), Call("stmts")>>, m, m)
  <2>1. Fits(Call("statement"), m, m + 1)
    BY <1>0, GiverFits DEF Givers
  <2>2. Fits(Make("item"), m + 1, m)
    BY <1>0, MakeFits DEF Taking2
  <2>3. Fits(Call("stmts"), m, m)
    BY GoerFits DEF Goers
  <2>4. QED
    BY <2>1, <2>2, <2>3, Threads3
<1>4. QED
  BY <1>1, <1>2, <1>3 DEF parse_stmts

LEMMA CompoundThreads ==
    ASSUME NEW t, NEW m \in Nat, NEW n \in Nat, n = m + 1
    PROVE  Threads(parse_compound_stmt(t), m, n)
<1>0. n >= 1 /\ n + 1 \in Nat /\ n + 1 >= 2 /\ n = (n + 1) - 1
  OBVIOUS
<1>1. Fits(Discard, m, m) /\ Fits(Push(Comp(<< >>)), m, n) /\ Fits(Call("stmts"), n, n)
  BY <1>0, ItemFits, GiverFits, GoerFits DEF Goers
<1>2. Fits(Call("statement"), n, n + 1) /\ Fits(Make("item"), n + 1, n)
  BY <1>0, GiverFits, MakeFits DEF Givers, Taking2
<1>3. Threads(<<Discard, Push(Comp(<< >>)), Call("stmts")>>, m, n)
  BY <1>1, Threads3
<1>4. Threads(<<Push(Comp(<< >>)), Call("statement"), Make("item")>>, m, n)
  BY <1>1, <1>2, Threads3
<1>5. QED
  BY <1>3, <1>4 DEF parse_compound_stmt

LEMMA JasStmtThreads ==
    ASSUME NEW t, NEW m \in Nat, NEW n \in Nat, n = m + 1
    PROVE  Threads(parse_jas_stmt(t), m, n)
<1> DEFINE known == t.type = "Identifier" /\ t.value \in jas_type_mapping
           begin == <<Discard, Push(JasStmt(t.value, "", 0))>>
           named == IF t.value \in NameOps THEN <<parse_identifier, Make("arg0")>> ELSE << >>
           imm   == IF t.value \in ImmOps THEN <<Call("immediate"), Make("iarg0")>> ELSE << >>
<1>0. n \in Heights /\ n + 1 \in Nat /\ n + 1 >= 2 /\ n = (n + 1) - 1
  BY DEF Heights
<1>1. Threads(begin, m, n)
  BY ItemFits, GiverFits, Threads2
<1>2. Threads(named, n, n)
  <2>1. Fits(parse_identifier, n, n + 1) /\ Fits(Make("arg0"), n + 1, n)
    BY <1>0, GiverFits, MakeFits DEF Taking2
  <2>2. Threads(<<parse_identifier, Make("arg0")>>, n, n)
    BY <2>1, Threads2
  <2>3. QED
    BY <1>0, <2>2, ThreadsEmpty
<1>3. Threads(imm, n, n)
  <2>1. Fits(Call("immediate"), n, n + 1) /\ Fits(Make("iarg0"), n + 1, n)
    BY <1>0, GiverFits, MakeFits DEF Givers, Taking2
  <2>2. Threads(<<Call("immediate"), Make("iarg0")>>, n, n)
    BY <2>1, Threads2
  <2>3. QED
    BY <1>0, <2>2, ThreadsEmpty
<1>4. Threads(<<Fail>>, m, n)
  BY <1>0, ItemFits, Threads1
<1>5. parse_jas_stmt(t) = IF known THEN begin \o named \o imm ELSE <<Fail>>
  BY DEF parse_jas_stmt
<1> HIDE DEF known, begin, named, imm
<1>6. Threads(begin \o named, m, n)
  BY <1>1, <1>2, ThreadsConcat
<1>7. Threads(begin \o named \o imm, m, n)
  BY <1>3, <1>6, ThreadsConcat
<1>8. QED
  BY <1>4, <1>5, <1>7

LEMMA JasBlockThreads ==
    ASSUME NEW t, NEW m \in Nat, m >= 1
    PROVE  Threads(parse_jas_block(t), m, m)
<1> DEFINE last == <<Make("item"), Call("jas_stmts")>>
<1>0. m + 1 \in Nat /\ m + 1 >= 2 /\ m + 1 >= 1 /\ m = (m + 1) - 1
  OBVIOUS
<1>1. Threads(<<Discard>>, m, m)
  BY ItemFits, Threads1
<1>2. Fits(Call("jas_stmts"), m, m)
  BY GoerFits DEF Goers
<1>3. Threads(<<Discard, Call("jas_stmts")>>, m, m)
  BY <1>2, ItemFits, Threads2
<1>4. Threads(last, m + 1, m)
  <2>1. Fits(Make("item"), m + 1, m)
    BY <1>0, MakeFits DEF Taking2
  <2>2. QED
    BY <1>2, <2>1, Threads2
<1>5. Threads(parse_var_stmt, m, m + 1)
  BY <1>0, VarThreads
<1>6. Threads(parse_label_stmt, m, m + 1)
  <2>1. /\ Fits(Discard, m, m) /\ Fits(Take, m, m + 1) /\ Fits(Expect("Colon"), m + 1, m + 1)
        /\ Fits(Make("label"), m + 1, m + 1)
    BY <1>0, ItemFits, GiverFits, GoerFits DEF Taking1
  <2>2. QED
    BY <2>1, Threads4 DEF parse_label_stmt
<1>7. Threads(parse_jas_stmt(t), m, m + 1)
  BY <1>0, JasStmtThreads
<1> HIDE DEF last
<1>8. /\ Threads(parse_var_stmt \o last, m, m)
      /\ Threads(parse_label_stmt \o last, m, m)
      /\ Threads(parse_jas_stmt(t) \o last, m, m)
  BY <1>4, <1>5, <1>6, <1>7, ThreadsConcat
<1>9. QED
  BY <1>1, <1>3, <1>8 DEF parse_jas_block, last

LEMMA BodyThreads ==
    ASSUME NEW t, NEW m \in Nat, NEW n \in Nat, n = m + 1
    PROVE  Threads(parse_body(t), m, n)
<1>1. /\ Fits(Discard, m, m) /\ Fits(Expect("CurlyOpen"), m, m) /\ Fits(Push(Comp(<< >>)), m, n)
      /\ Fits(Call("jas_stmts"), n, n) /\ Fits(Call("compound"), m, n)
  BY ItemFits, GiverFits, GoerFits DEF Givers, Goers
<1>2. Threads(<<Discard, Expect("CurlyOpen"), Push(Comp(<< >>)), Call("jas_stmts")>>, m, n)
  BY <1>1, Threads4
<1>3. Threads(<<Call("compound")>>, m, n)
  BY <1>1, Threads1
<1>4. QED
  BY <1>2, <1>3 DEF parse_body

-----------------------------------------------------------------------------
(* Declarations.                                                           *)

LEMMA NamesThreads ==
    ASSUME NEW t, NEW m \in Nat, m >= 1
    PROVE  Threads(parse_identifier_list(t), m, m) /\ Threads(more_names(t), m, m)
<1>0. m \in Heights /\ m + 1 \in Nat /\ m + 1 >= 2 /\ m = (m + 1) - 1
  BY DEF Heights
<1>1. /\ Fits(Discard, m, m) /\ Fits(parse_identifier, m, m + 1) /\ Fits(Make("item"), m + 1, m)
      /\ Fits(Call("more_names"), m, m)
  BY <1>0, ItemFits, GiverFits, MakeFits, GoerFits DEF Goers, Taking2
<1>2. Threads(<<parse_identifier, Make("item"), Call("more_names")>>, m, m)
  BY <1>1, Threads3
<1>3. Threads(<<Discard, parse_identifier, Make("item"), Call("more_names")>>, m, m)
  BY <1>1, Threads4
<1>4. Threads(<<Call("more_names")>>, m, m)
  BY <1>1, Threads1
<1>5. QED
  BY <1>0, <1>2, <1>3, <1>4, ThreadsEmpty DEF parse_identifier_list, more_names

LEMMA ToplevelThreads ==
    ASSUME NEW t
    PROVE  Threads(parse_toplevel(t), 0, -1)
<1>1. /\ Fits(Discard, 0, 0) /\ Fits(Take, 0, 1) /\ Fits(parse_identifier, 0, 1)
      /\ Fits(Expect("BracesOpen"), 1, 1) /\ Fits(ExpectOne("Operator", "="), 1, 1)
      /\ Fits(Push(Comp(<< >>)), 1, 2) /\ Fits(Call("constant_value"), 1, 2)
      /\ Fits(Call("names"), 2, 2) /\ Fits(Expect("SemiColon"), 2, 2)
      /\ Fits(Expect("BracesClose"), 2, 2) /\ Fits(Call("body"), 2, 3)
  BY ItemFits, GiverFits, GoerFits DEF Givers, Goers
<1>2. Threads(<<Call("toplevel")>>, 0, -1)
  BY DeclarationFits, Threads1
<1>3. Threads(<<Discard, Take, Make("import"), Call("toplevel")>>, 0, -1)
  BY <1>1, DeclarationFits, Threads4
<1>4. Threads(parse_constant, 0, 0)
  BY <1>1, DeclarationFits, Threads6 DEF parse_constant
<1>5. Threads(parse_function, 0, 0)
  BY <1>1, DeclarationFits, Threads8 DEF parse_function
<1>6. Threads(parse_constant \o <<Call("toplevel")>>, 0, -1)
      /\ Threads(parse_function \o <<Call("toplevel")>>, 0, -1)
  BY <1>2, <1>4, <1>5, ThreadsConcat
<1>7. Threads(<<Fail>>, 0, -1)
  BY ItemFits, Threads1 DEF Heights
<1>8. QED
  BY <1>3, <1>6, <1>7 DEF parse_toplevel

LEMMA RuleThreads ==
    ASSUME NEW r, NEW t, NEW m, NEW n, Fits(Call(r), m, n)
    PROVE  Threads(Rule(r, t), m, n)
<1>1. /\ m \in Nat /\ n \in Heights
      /\ \/ r = "toplevel" /\ m = 0 /\ n = -1
         \/ r \in Givers /\ n = m + 1
         \/ r \in Goers /\ m >= 1 /\ n = m
  BY CallFitsOnly
<1>2. CASE r = "toplevel" /\ m = 0 /\ n = -1
  BY <1>2, ToplevelThreads DEF Rule
<1>3. CASE r \in Givers /\ n = m + 1
  <2>0. n \in Nat /\ n = m + 1 /\ m \in Nat
    BY <1>1, <1>3
  <2>1. /\ Threads(parse_body(t), m, n) /\ Threads(parse_compound_stmt(t), m, n)
        /\ Threads(parse_statement(t), m, n) /\ Threads(parse_string(<< >>, t), m, n)
        /\ Threads(parse_string(<<10>>, t), m, n)
        /\ Threads(parse_basic_expr(t), m, n) /\ Threads(parse_operand(t), m, n)
        /\ Threads(parse_value(t, I8_MIN, I8_MAX), m, n)
        /\ Threads(parse_value(t, INT32_MIN, INT32_MAX), m, n)
    BY <2>0, BodyThreads, CompoundThreads, StatementThreads, PrintThreads, BasicThreads,
       OperandThreads, ParseValueThreads
  <2>2. Threads(<<Push(nullptr)>>, m, n) /\ Threads(<<Push(Comp(<< >>))>>, m, n)
    BY <2>0, GiverFits, Threads1
  <2>3. Threads(for_init(t), m, n)
    BY <2>0, <2>2, VarThreads, ExprStmtThreads DEF for_init
  <2>4. Threads(parse_else(t), m, n)
    <3>1. Fits(Discard, m, m) /\ Fits(Call("compound"), m, n)
      BY <2>0, ItemFits, GiverFits DEF Givers
    <3>2. Threads(<<Discard, Call("compound")>>, m, n)
      BY <3>1, Threads2
    <3>3. QED
      BY <2>2, <3>2 DEF parse_else
  <2>5. \A ty : Threads(unless(ty, t), m, n)
    BY <2>0, <2>2, ExprThreads DEF unless
  <2>6. \/ Rule(r, t) = parse_body(t) \/ Rule(r, t) = parse_compound_stmt(t)
        \/ Rule(r, t) = parse_statement(t) \/ Rule(r, t) = parse_string(<< >>, t)
        \/ Rule(r, t) = parse_string(<<10>>, t) \/ Rule(r, t) = for_init(t)
        \/ Rule(r, t) = parse_else(t) \/ Rule(r, t) = parse_basic_expr(t)
        \/ Rule(r, t) = parse_operand(t) \/ Rule(r, t) = unless("SemiColon", t)
        \/ Rule(r, t) = unless("BracesClose", t)
        \/ Rule(r, t) = parse_value(t, I8_MIN, I8_MAX)
        \/ Rule(r, t) = parse_value(t, INT32_MIN, INT32_MAX)
    BY <1>3 DEF Rule, Givers
  <2>7. QED
    BY <2>1, <2>3, <2>4, <2>5, <2>6
<1>4. CASE r \in Goers /\ m >= 1 /\ n = m
  <2>1. CASE r \in Levels
    <3>1. PICK k \in 1 .. 5 : Level[k] = r
      <4>1. /\ 1 \in 1 .. 5 /\ 2 \in 1 .. 5 /\ 3 \in 1 .. 5 /\ 4 \in 1 .. 5 /\ 5 \in 1 .. 5
            /\ Level[1] = "assign" /\ Level[2] = "compare" /\ Level[3] = "logic"
            /\ Level[4] = "arit" /\ Level[5] = "mul"
        BY DEF Level, LevelOps
      <4>2. QED
        BY <2>1, <4>1 DEF Levels
    <3>2. level_of(r) \in 1 .. 5
      <4>1. DOMAIN Level = 1 .. 5
        BY DEF Level, LevelOps
      <4>2. QED
        BY <3>1, <4>1 DEF level_of
    <3>3. Rule(r, t) = more_operators(level_of(r), t)
      BY <2>1 DEF Rule, Levels
    <3>4. QED
      BY <1>1, <1>4, <3>2, <3>3, MoreOperatorsThreads
  <2>2. CASE r \notin Levels
    <3>1. /\ Threads(parse_identifier_list(t), m, n) /\ Threads(more_names(t), m, n)
          /\ Threads(parse_jas_block(t), m, n) /\ Threads(parse_stmts(t), m, n)
          /\ Threads(parse_ident_expr(t), m, n) /\ Threads(parse_fcall_args(t), m, n)
          /\ Threads(more_args(t), m, n) /\ Threads(more_indices(t), m, n)
      BY <1>1, <1>4, NamesThreads, JasBlockThreads, StmtsThreads, ArgumentThreads
    <3>2. Threads(parse_var_init(t), m, n)
      <4>1. m - 1 \in Nat /\ m = (m - 1) + 1
        BY <1>1, <1>4
      <4>2. QED
        BY <1>1, <1>4, <4>1, VarThreads
    <3>3. \/ Rule(r, t) = parse_identifier_list(t) \/ Rule(r, t) = more_names(t)
          \/ Rule(r, t) = parse_jas_block(t) \/ Rule(r, t) = parse_stmts(t)
          \/ Rule(r, t) = parse_ident_expr(t) \/ Rule(r, t) = parse_fcall_args(t)
          \/ Rule(r, t) = more_args(t) \/ Rule(r, t) = more_indices(t)
          \/ Rule(r, t) = parse_var_init(t)
      BY <1>4, <2>2 DEF Rule, Goers
    <3>4. QED
      BY <3>1, <3>2, <3>3
  <2>3. QED
    BY <2>1, <2>2
<1>5. QED
  BY <1>1, <1>2, <1>3, <1>4

-----------------------------------------------------------------------------
(* What is built, step by step.                                            *)

LEMMA NextThing ==
    ASSUME Threaded
    PROVE  /\ Len(built) \in Nat /\ todo # << >>
           /\ \E k \in Heights : Fits(Head(todo), Len(built), k) /\ Threads(Tail(todo), k, -1)
<1>1. PICK S : built \in Seq(S)
  BY DEF Threaded
<1>2. Len(built) \in Nat
  BY <1>1
<1>3. QED
  BY <1>2, ThreadsHead DEF Threaded

LEMMA BuiltShorter ==
    ASSUME NEW S, NEW b \in Seq(S), NEW k \in Nat, k <= Len(b)
    PROVE  SubSeq(b, 1, Len(b) - k) \in Seq(S) /\ Len(SubSeq(b, 1, Len(b) - k)) = Len(b) - k
<1>1. Len(b) - k \in Nat /\ \A i \in 1 .. Len(b) - k : b[i] \in S
  OBVIOUS
<1>2. QED
  BY <1>1

\* One more thing is built.
LEMMA BuiltLonger ==
    ASSUME Threaded, NEW x, built' = Append(built, x), todo' = Tail(todo),
           Threads(Tail(todo), Len(built) + 1, -1)
    PROVE  Threaded'
<1>1. PICK S : built \in Seq(S)
  BY DEF Threaded
<1> DEFINE T == S \cup {x}
<1>2. built \in Seq(T) /\ x \in T
  BY <1>1
<1> HIDE DEF T
<1>3. Append(built, x) \in Seq(T) /\ Len(Append(built, x)) = Len(built) + 1
  BY <1>2
<1>4. QED
  BY <1>3 DEF Threaded

LEMMA BecomesKeeps ==
    ASSUME Threaded, NEW k \in Nat, NEW x, Becomes(k, x), Len(built) >= k,
           Threads(Tail(todo), Len(built) - k + 1, -1)
    PROVE  Threaded'
<1>1. PICK S : built \in Seq(S)
  BY DEF Threaded
<1> DEFINE rest == SubSeq(built, 1, Len(built) - k)
           T == S \cup {x}
<1>2. rest \in Seq(S) /\ Len(rest) = Len(built) - k
  BY <1>1, BuiltShorter
<1>3. todo' = Tail(todo) /\ built' = Append(rest, x)
  BY DEF Becomes
<1> HIDE DEF rest
<1>4. Append(rest, x) \in Seq(T) /\ Len(Append(rest, x)) = Len(rest) + 1
  <2>1. rest \in Seq(T) /\ x \in T
    BY <1>2
  <2> HIDE DEF T
  <2>2. QED
    BY <2>1
<1>5. QED
  BY <1>2, <1>3, <1>4 DEF Threaded

LEMMA DeclaredKeeps ==
    ASSUME Threaded, NEW k \in Nat, Declared(k), Len(built) >= k,
           Threads(Tail(todo), Len(built) - k, -1)
    PROVE  Threaded'
<1>1. PICK S : built \in Seq(S)
  BY DEF Threaded
<1>2. /\ SubSeq(built, 1, Len(built) - k) \in Seq(S)
      /\ Len(SubSeq(built, 1, Len(built) - k)) = Len(built) - k
  BY <1>1, BuiltShorter
<1>3. QED
  BY <1>2 DEF Threaded, Declared

LEMMA SameThread ==
    ASSUME Threaded, built' = built, todo' = todo
    PROVE  Threaded'
  BY DEF Threaded

LEMMA InitThreaded == Init => Threaded
<1> SUFFICES ASSUME Init
             PROVE  Threaded
  OBVIOUS
<1>1. built \in Seq({}) /\ Len(built) = 0
  BY DEF Init
<1>2. Threads(todo, Len(built), -1)
  BY <1>1, DeclarationFits, Threads1 DEF Init
<1>3. QED
  BY <1>1, <1>2 DEF Threaded

LEMMA DescendThreaded == Threaded /\ Descend(Rule) => Threaded'
<1> SUFFICES ASSUME Threaded, Descend(Rule)
             PROVE  Threaded'
  OBVIOUS
<1> DEFINE r == Head(todo).a
           t == cache[1]
<1>1. built' = built /\ todo' = Rule(r, t) \o Tail(todo) /\ Head(todo).do = "call"
  BY DEF Descend
<1>2. PICK k \in Heights : Fits(Head(todo), Len(built), k) /\ Threads(Tail(todo), k, -1)
  BY NextThing
<1>3. Fits(Call(r), Len(built), k)
  BY <1>1, <1>2 DEF Fits, Call, Item
<1> HIDE DEF r, t
<1>4. Threads(Rule(r, t), Len(built), k)
  BY <1>3, RuleThreads
<1>5. Threads(todo', Len(built'), -1)
  BY <1>1, <1>2, <1>4, ThreadsConcat
<1>6. QED
  BY <1>1, <1>5 DEF Threaded

LEMMA ConsumeThreaded == Threaded /\ Consume => Threaded'
<1> SUFFICES ASSUME Threaded, Consume
             PROVE  Threaded'
  OBVIOUS
<1> DEFINE t == cache[1]
           item == Head(todo)
<1>1. /\ item.do \in {"discard", "take", "expect", "number", "identifier"}
      /\ \/ Throw
         \/ todo' = Tail(todo) /\ built' = built \o kept(item, t)
  BY DEF Consume, Peeking
<1>2. CASE Throw
  BY <1>2, SameThread DEF Throw
<1>3. CASE todo' = Tail(todo) /\ built' = built \o kept(item, t)
  <2>1. PICK k \in Heights : Fits(item, Len(built), k) /\ Threads(Tail(todo), k, -1)
    BY NextThing
  <2>2. PICK S : built \in Seq(S)
    BY DEF Threaded
  <2>3. CASE item.do \in {"discard", "expect"}
    <3>1. k = Len(built)
      BY <2>1, <2>3 DEF Fits
    <3>2. kept(item, t) = << >>
      BY <2>3 DEF kept
    <3>3. built' = built
      BY <1>3, <2>2, <3>2
    <3>4. QED
      BY <1>3, <2>1, <2>2, <3>1, <3>3 DEF Threaded
  <2>4. CASE item.do \in {"take", "number", "identifier"}
    <3>1. k = Len(built) + 1
      BY <2>1, <2>4 DEF Fits
    <3>2. PICK x : kept(item, t) = <<x>>
      BY <2>4 DEF kept
    <3>3. built' = Append(built, x)
      BY <1>3, <2>2, <3>2, AppendIsConcat
    <3>4. QED
      BY <1>3, <2>1, <3>1, <3>3, BuiltLonger
  <2>5. QED
    BY <1>1, <2>3, <2>4
<1>4. QED
  BY <1>1, <1>2, <1>3

LEMMA KeepThreaded == Threaded /\ Keep => Threaded'
<1> SUFFICES ASSUME Threaded, Keep
             PROVE  Threaded'
  OBVIOUS
<1>1. todo' = Tail(todo) /\ built' = Append(built, Head(todo).b) /\ Head(todo).do = "push"
  BY DEF Keep
<1>2. PICK k \in Heights : Fits(Head(todo), Len(built), k) /\ Threads(Tail(todo), k, -1)
  BY NextThing
<1>3. k = Len(built) + 1
  BY <1>1, <1>2 DEF Fits
<1>4. QED
  BY <1>1, <1>2, <1>3, BuiltLonger

LEMMA MakeTreeThreaded == Threaded /\ MakeTree => Threaded'
<1> SUFFICES ASSUME Threaded, MakeTree
             PROVE  Threaded'
  OBVIOUS
<1> DEFINE what == Head(todo).a
<1>1. /\ Head(todo).do = "make"
      /\ \/ what \in Taking1 /\ \E x : Becomes(1, x)
         \/ what \in Taking2 /\ \E x : Becomes(2, x)
         \/ what = "if" /\ \E x : Becomes(3, x)
         \/ what = "for" /\ \E x : Becomes(4, x)
  BY DEF MakeTree, Taking1, Taking2
<1>2. PICK k \in Heights : Fits(Head(todo), Len(built), k) /\ Threads(Tail(todo), k, -1)
  BY NextThing
<1>3. Len(built) \in Nat
  BY NextThing
<1>4. CASE what \in Taking1 /\ \E x : Becomes(1, x)
  <2>1. Len(built) >= 1 /\ k = Len(built) - 1 + 1
    BY <1>1, <1>2, <1>3, <1>4 DEF Fits, Taking1, Taking2
  <2>2. QED
    BY <1>2, <1>4, <2>1, BecomesKeeps
<1>5. CASE what \in Taking2 /\ \E x : Becomes(2, x)
  <2>1. Len(built) >= 2 /\ k = Len(built) - 2 + 1
    BY <1>1, <1>2, <1>3, <1>5 DEF Fits, Taking1, Taking2
  <2>2. QED
    BY <1>2, <1>5, <2>1, BecomesKeeps
<1>6. CASE what = "if" /\ \E x : Becomes(3, x)
  <2>1. Len(built) >= 3 /\ k = Len(built) - 3 + 1
    BY <1>1, <1>2, <1>3, <1>6 DEF Fits, Taking1, Taking2
  <2>2. QED
    BY <1>2, <1>6, <2>1, BecomesKeeps
<1>7. CASE what = "for" /\ \E x : Becomes(4, x)
  <2>1. Len(built) >= 4 /\ k = Len(built) - 4 + 1
    BY <1>1, <1>2, <1>3, <1>7 DEF Fits, Taking1, Taking2
  <2>2. QED
    BY <1>2, <1>7, <2>1, BecomesKeeps
<1>8. QED
  BY <1>1, <1>4, <1>5, <1>6, <1>7

LEMMA DeclareThreaded ==
    Threaded /\ (DeclareImport \/ DeclareConstant \/ DeclareFunction) => Threaded'
<1> SUFFICES ASSUME Threaded, DeclareImport \/ DeclareConstant \/ DeclareFunction
             PROVE  Threaded'
  OBVIOUS
<1> DEFINE what == Head(todo).a
<1>1. /\ Head(todo).do = "make"
      /\ \/ Throw
         \/ what = "import" /\ Declared(1)
         \/ what = "constant" /\ Declared(2)
         \/ what = "function" /\ Declared(3)
  BY DEF DeclareImport, DeclareConstant, DeclareFunction, making
<1>2. PICK k \in Heights : Fits(Head(todo), Len(built), k) /\ Threads(Tail(todo), k, -1)
  BY NextThing
<1>3. CASE Throw
  BY <1>3, SameThread DEF Throw
<1>4. CASE what = "import" /\ Declared(1)
  <2>1. Len(built) = 1 /\ k = 0
    BY <1>1, <1>2, <1>4 DEF Fits, Taking1, Taking2
  <2>2. QED
    BY <1>2, <1>4, <2>1, DeclaredKeeps
<1>5. CASE what = "constant" /\ Declared(2)
  <2>1. Len(built) = 2 /\ k = 0
    BY <1>1, <1>2, <1>5 DEF Fits, Taking1, Taking2
  <2>2. QED
    BY <1>2, <1>5, <2>1, DeclaredKeeps
<1>6. CASE what = "function" /\ Declared(3)
  <2>1. Len(built) = 3 /\ k = 0
    BY <1>1, <1>2, <1>6 DEF Fits, Taking1, Taking2
  <2>2. QED
    BY <1>2, <1>6, <2>1, DeclaredKeeps
<1>7. QED
  BY <1>1, <1>3, <1>4, <1>5, <1>6

LEMMA NextThreaded == Threaded /\ [Next]_vars => Threaded'
<1> SUFFICES ASSUME Threaded, [Next]_vars
             PROVE  Threaded'
  OBVIOUS
<1>1. CASE ReadToken \/ OutOfTokens
  BY <1>1, SameThread DEF ReadToken, OutOfTokens
<1>2. CASE Descend(Rule)
  BY <1>2, DescendThreaded
<1>3. CASE Consume
  BY <1>3, ConsumeThreaded
<1>4. CASE Refuse
  BY <1>4, SameThread DEF Refuse, Throw
<1>5. CASE Keep
  BY <1>5, KeepThreaded
<1>6. CASE MakeTree
  BY <1>6, MakeTreeThreaded
<1>7. CASE DeclareImport \/ DeclareConstant \/ DeclareFunction
  BY <1>7, DeclareThreaded
<1>8. CASE UNCHANGED vars
  BY <1>8, SameThread DEF vars, readVars
<1>9. QED
  BY <1>1, <1>2, <1>3, <1>4, <1>5, <1>6, <1>7, <1>8 DEF Next, Read

LEMMA ThreadedSettled == Threaded => Settled
<1> SUFFICES ASSUME Threaded, Head(todo).do = "call", Head(todo).a = "toplevel"
             PROVE  Len(todo) = 1 /\ built = << >>
  BY DEF Settled
<1>1. PICK S : built \in Seq(S)
  BY DEF Threaded
<1>2. PICK k \in Heights : Fits(Head(todo), Len(built), k) /\ Threads(Tail(todo), k, -1)
  BY NextThing
<1>3. Len(built) = 0 /\ k = -1
  BY <1>2 DEF Fits, Givers, Goers, Levels
<1>4. PICK S1 : todo \in Seq(S1)
  BY DEF Threaded, Threads
<1>5. todo # << >>
  BY NextThing
<1>6. Len(Tail(todo)) = Len(todo) - 1 /\ Len(todo) \in Nat \ {0} /\ Tail(todo) \in Seq(S1)
  BY <1>4, <1>5
<1>7. Len(Tail(todo)) = 0
  <2>1. PICK h \in [1 .. Len(Tail(todo)) + 1 -> Heights] :
          /\ h[1] = -1
          /\ \A i \in 1 .. Len(Tail(todo)) : Fits(Tail(todo)[i], h[i], h[i + 1])
    BY <1>2, <1>3 DEF Threads
  <2>2. 1 \in 1 .. Len(Tail(todo)) => h[1] \in Nat
    BY <2>1 DEF Fits
  <2>3. QED
    BY <1>6, <2>1, <2>2
<1>8. built = << >>
  BY <1>1, <1>3
<1>9. Len(todo) = 1
  <2> DEFINE l == Len(todo)
             rest == Len(Tail(todo))
  <2>1. rest = l - 1 /\ l \in Nat /\ rest = 0
    BY <1>6, <1>7
  <2> HIDE DEF l, rest
  <2>2. l = 1
    BY <2>1
  <2>3. QED
    BY <2>2 DEF l
<1>10. QED
  BY <1>8, <1>9

-----------------------------------------------------------------------------
(* The files that are open.                                                *)

\* Dropping the exhausted sources leaves the ones below them.
LEMMA HasSymbolIsPrefix ==
    ASSUME NEW S, NEW ss \in Seq(S)
    PROVE  \E k \in 0 .. Len(ss) : has_symbol(ss) = SubSeq(ss, 1, k)
<1> DEFINE U == {i \in DOMAIN ss : ss[i].rest # << >>} \cup {0}
           T == {Len(ss) - i : i \in U}
<1>1. U \subseteq 0 .. Len(ss) /\ 0 \in U /\ Len(ss) \in Nat
  OBVIOUS
<1>2. T \in SUBSET Nat /\ T # {}
  BY <1>1
<1>3. PICK d \in T : \A y \in T : d <= y
  BY <1>2, LeastElement
<1>4. PICK x \in U : d = Len(ss) - x
  BY <1>3
<1>5. \A y \in U : x >= y
  <2> TAKE y \in U
  <2>1. Len(ss) - x <= Len(ss) - y
    BY <1>3, <1>4
  <2>2. x \in Int /\ y \in Int
    BY <1>1
  <2>3. QED
    BY <1>1, <2>1, <2>2
<1> HIDE DEF U
<1>6. Max(U) \in U
  BY <1>5 DEF Max
<1>7. has_symbol(ss) = SubSeq(ss, 1, Max(U))
  BY DEF has_symbol, U
<1>8. QED
  BY <1>1, <1>6, <1>7

LEMMA InitOpened == Init => Opened
<1> SUFFICES ASSUME Init
             PROVE  Opened
  OBVIOUS
<1> DEFINE s == [name |-> Root, rest |-> files[Root]]
<1>1. srcs = <<s>>
  BY DEF Init, add_source
<1>2. s \in [name : {Root}, rest : {files[Root]}] /\ s.name = Root
  OBVIOUS
<1> HIDE DEF s
<1>3. srcs \in Seq([name : {Root}, rest : {files[Root]}]) /\ srcs # << >>
  BY <1>1, <1>2
<1>4. DOMAIN srcs = {1} /\ srcs[1].name = Root
  BY <1>1, <1>2
<1>5. NestedOnce
  BY <1>4 DEF NestedOnce
<1>6. QED
  BY <1>3, <1>5 DEF Opened

LEMMA SameSources ==
    ASSUME Opened, srcs' = srcs, phase' = phase \/ phase' = "error", imports' = imports
    PROVE  Opened'
  BY DEF Opened, NestedOnce

LEMMA ReadTokenOpened == Opened /\ ReadToken /\ imports' = imports => Opened'
<1> SUFFICES ASSUME Opened, ReadToken, imports' = imports
             PROVE  Opened'
  OBVIOUS
<1> DEFINE ss == has_symbol(srcs)
<1>1. ss # << >> /\ srcs' = [ss EXCEPT ![Len(ss)].rest = Tail(@)] /\ phase' = phase
  BY DEF ReadToken
<1>2. PICK N, R : srcs \in Seq([name : N, rest : R])
  BY DEF Opened
<1>3. PICK k \in 0 .. Len(srcs) : ss = SubSeq(srcs, 1, k)
  BY <1>2, HasSymbolIsPrefix
<1> HIDE DEF ss
<1>4. /\ ss \in Seq([name : N, rest : R]) /\ Len(ss) = k
      /\ \A i \in 1 .. k : ss[i] = srcs[i] /\ ss[i] \in [name : N, rest : R]
      /\ Len(srcs) \in Nat /\ k \in Nat
  <2> DEFINE M == [name : N, rest : R]
  <2>1. srcs \in Seq(M)
    BY <1>2
  <2> HIDE DEF M
  <2>2. Len(srcs) \in Nat /\ k \in Nat /\ k <= Len(srcs) /\ \A i \in 1 .. k : srcs[i] \in M
    BY <1>3, <2>1
  <2>3. /\ SubSeq(srcs, 1, k) \in Seq(M) /\ Len(SubSeq(srcs, 1, k)) = k
        /\ \A i \in 1 .. k : SubSeq(srcs, 1, k)[i] = srcs[i]
    BY <2>1, <2>2
  <2>4. QED
    BY <1>3, <2>2, <2>3 DEF M
<1>5. k \in 1 .. Len(srcs)
  BY <1>1, <1>3, <1>4
<1> DEFINE T == R \cup {Tail(ss[k].rest)}
<1>6. /\ DOMAIN srcs' = 1 .. k
      /\ \A i \in 1 .. k : srcs'[i] \in [name : N, rest : T] /\ srcs'[i].name = srcs[i].name
  <2>1. DOMAIN ss = 1 .. k /\ Len(ss) = k
    BY <1>4
  <2>2. srcs' = [ss EXCEPT ![k] = [ss[k] EXCEPT !.rest = Tail(ss[k].rest)]]
    BY <1>1, <1>4, <1>5, <2>1
  <2>3. DOMAIN srcs' = 1 .. k
    BY <2>1, <2>2
  <2>4. ASSUME NEW i \in 1 .. k
        PROVE  srcs'[i] \in [name : N, rest : T] /\ srcs'[i].name = srcs[i].name
    <3>1. ss[i] = srcs[i] /\ ss[i] \in [name : N, rest : R]
      BY <1>4
    <3>2. CASE i = k
      BY <2>1, <2>2, <3>1, <3>2
    <3>3. CASE i # k
      BY <2>1, <2>2, <3>1, <3>3
    <3>4. QED
      BY <3>2, <3>3
  <2>5. QED
    BY <2>3, <2>4
<1> HIDE DEF T
<1>7. srcs' \in Seq([name : N, rest : T]) /\ srcs' # << >>
  <2>1. srcs' = [i \in 1 .. k |-> srcs'[i]]
    <3>1. srcs' = [i \in DOMAIN srcs' |-> srcs'[i]]
      BY <1>1
    <3>2. QED
      BY <1>6, <3>1
  <2> DEFINE M == [name : N, rest : T]
  <2>2. \A i \in 1 .. k : srcs'[i] \in M
    BY <1>6
  <2> HIDE DEF M
  <2>3. [i \in 1 .. k |-> srcs'[i]] \in Seq(M)
    BY <1>4, <2>2
  <2>4. srcs' \in Seq(M)
    BY <2>1, <2>3
  <2>5. srcs' # << >>
    BY <1>5, <1>6
  <2>6. QED
    BY <2>4, <2>5 DEF M
<1>8. NestedOnce'
  <2>1. DOMAIN srcs = 1 .. Len(srcs)
    BY <1>2
  <2>2. \A i \in DOMAIN srcs' : i \in DOMAIN srcs /\ srcs'[i].name = srcs[i].name
    BY <1>4, <1>5, <1>6, <2>1
  <2>3. NestedOnce
    BY DEF Opened
  <2>4. QED
    BY <2>2, <2>3 DEF NestedOnce
<1>9. QED
  BY <1>7, <1>8 DEF Opened

LEMMA ImportOpened == Opened /\ DeclareImport => Opened'
<1> SUFFICES ASSUME Opened, DeclareImport
             PROVE  Opened'
  OBVIOUS
<1> DEFINE f == top(1).identifier
           s == [name |-> f, rest |-> files[f]]
<1>1. CASE Throw /\ imports' = imports
  BY <1>1, SameSources DEF Throw
<1>2. CASE phase' = phase /\ add_import(f)
  <2>1. CASE f \in imports
    <3>1. srcs' = srcs /\ imports' = imports
      BY <1>2, <2>1 DEF add_import
    <3>2. QED
      BY <1>2, <3>1, SameSources
  <2>2. CASE f \notin imports
    <3>1. srcs' = Append(srcs, s) /\ imports' = imports \cup {f}
      BY <1>2, <2>2 DEF add_import, add_source
    <3>2. PICK N, R : srcs \in Seq([name : N, rest : R])
      BY DEF Opened
    <3>3. phase = "parsing" /\ srcs # << >>
      BY DEF DeclareImport, making, Opened
    <3> DEFINE M == [name : N \cup {f}, rest : R \cup {files[f]}]
    <3>4. srcs \in Seq(M) /\ s \in M /\ s.name = f
      <4> DEFINE M1 == [name : N, rest : R]
      <4>1. M1 \subseteq M
        OBVIOUS
      <4>2. srcs \in Seq(M1)
        BY <3>2
      <4>3. s \in M /\ s.name = f
        OBVIOUS
      <4> HIDE DEF M, M1
      <4>4. srcs \in Seq(M)
        BY <4>1, <4>2
      <4>5. QED
        BY <4>3, <4>4
    <3> HIDE DEF M, s, f
    <3>5. /\ srcs' \in Seq(M) /\ srcs' # << >>
          /\ DOMAIN srcs' = 1 .. Len(srcs) + 1 /\ DOMAIN srcs = 1 .. Len(srcs)
          /\ \A i \in 1 .. Len(srcs) : srcs'[i] = srcs[i]
          /\ srcs'[Len(srcs) + 1] = s
          /\ Len(srcs) \in Nat \ {0}
      BY <3>1, <3>3, <3>4
    <3>6. NestedOnce
      BY DEF Opened
    <3>7. NestedOnce'
      <4>1. ASSUME NEW i \in DOMAIN srcs'
            PROVE  /\ i = 1 => srcs'[i].name = Root
                   /\ i > 1 => srcs'[i].name \in imports'
                   /\ \A j \in DOMAIN srcs' : 1 < i /\ i < j => srcs'[i].name # srcs'[j].name
        <5>1. CASE i = Len(srcs) + 1
          BY <3>1, <3>4, <3>5, <5>1
        <5>2. CASE i \in 1 .. Len(srcs)
          <6>1. i \in DOMAIN srcs /\ srcs'[i] = srcs[i]
            BY <3>5, <5>2
          <6>2. /\ i = 1 => srcs'[i].name = Root
                /\ i > 1 => srcs'[i].name \in imports
            BY <3>6, <6>1 DEF NestedOnce
          <6>3. ASSUME NEW j \in DOMAIN srcs', 1 < i, i < j
                PROVE  srcs'[i].name # srcs'[j].name
            <7>1. CASE j \in 1 .. Len(srcs)
              BY <3>5, <3>6, <6>1, <6>3, <7>1 DEF NestedOnce
            <7>2. CASE j = Len(srcs) + 1
              BY <2>2, <3>4, <3>5, <6>2, <6>3, <7>2
            <7>3. QED
              BY <3>5, <7>1, <7>2
          <6>4. QED
            BY <3>1, <6>2, <6>3
        <5>3. QED
          BY <3>5, <5>1, <5>2
      <4>2. QED
        BY <4>1 DEF NestedOnce
    <3>8. QED
      BY <3>5, <3>7 DEF Opened, M
  <2>3. QED
    BY <2>1, <2>2
<1>3. QED
  BY <1>1, <1>2 DEF DeclareImport

LEMMA NextOpened == Opened /\ [Next]_vars => Opened'
<1> SUFFICES ASSUME Opened, [Next]_vars
             PROVE  Opened'
  OBVIOUS
<1>1. CASE Read
  <2>1. imports' = imports
    BY <1>1 DEF Read
  <2>2. CASE ReadToken
    BY <2>1, <2>2, ReadTokenOpened
  <2>3. CASE OutOfTokens
    <3>1. srcs' = << >> /\ phase' \in {"done", "error"}
      BY <2>3 DEF OutOfTokens
    <3>2. srcs' \in Seq([name : {}, rest : {}]) /\ DOMAIN srcs' = {}
      BY <3>1
    <3>3. QED
      BY <3>1, <3>2 DEF Opened, NestedOnce
  <2>4. CASE Descend(Rule) \/ Consume \/ Refuse \/ Keep
    <3>1. srcs' = srcs /\ (phase' = phase \/ phase' = "error")
      BY <2>4 DEF Descend, Consume, Refuse, Keep, Throw
    <3>2. QED
      BY <2>1, <3>1, SameSources
  <2>5. QED
    BY <1>1, <2>2, <2>3, <2>4 DEF Read
<1>2. CASE MakeTree
  <2>1. srcs' = srcs /\ phase' = phase /\ imports' = imports
    BY <1>2 DEF MakeTree, Becomes
  <2>2. QED
    BY <2>1, SameSources
<1>3. CASE DeclareImport
  BY <1>3, ImportOpened
<1>4. CASE DeclareConstant
  <2>1. srcs' = srcs /\ (phase' = phase \/ phase' = "error") /\ imports' = imports
    BY <1>4 DEF DeclareConstant, Throw
  <2>2. QED
    BY <2>1, SameSources
<1>5. CASE DeclareFunction
  <2>1. srcs' = srcs /\ (phase' = phase \/ phase' = "error") /\ imports' = imports
    BY <1>5 DEF DeclareFunction, Throw
  <2>2. QED
    BY <2>1, SameSources
<1>6. CASE UNCHANGED vars
  <2>1. srcs' = srcs /\ phase' = phase /\ imports' = imports
    BY <1>6 DEF vars, readVars
  <2>2. QED
    BY <2>1, SameSources
<1>7. QED
  BY <1>1, <1>2, <1>3, <1>4, <1>5, <1>6 DEF Next

-----------------------------------------------------------------------------
(* The theorems.                                                           *)

(***************************************************************************)
(* Whatever the tokens are, when parse_program's loop                      *)
(* (src/src/frontends/ij/parse.cpp) goes round, the declaration that was   *)
(* read has taken everything the functions below it have built: no         *)
(* expression, statement or name is left over or taken twice.              *)
(***************************************************************************)
THEOREM DeclarationsAreComplete == Spec => []Settled
<1>1. Init => Threaded
  BY InitThreaded
<1>2. Threaded /\ [Next]_vars => Threaded'
  BY NextThreaded
<1>3. Threaded => Settled
  BY ThreadedSettled
<1>4. QED
  BY <1>1, <1>2, <1>3, PTL DEF Spec

(***************************************************************************)
(* However the files import each other, the lexer                          *)
(* (src/src/frontends/common/lexer.cpp) has no imported file open twice:   *)
(* imports that form a cycle come to an end, and its sources are never     *)
(* more than the files there are, and the first one once more.             *)
(***************************************************************************)
THEOREM ImportsNestOnce == Spec => []NestedOnce
<1>1. Init => Opened
  BY InitOpened
<1>2. Opened /\ [Next]_vars => Opened'
  BY NextOpened
<1>3. Opened => NestedOnce
  BY DEF Opened
<1>4. QED
  BY <1>1, <1>2, <1>3, PTL DEF Spec

=============================================================================
