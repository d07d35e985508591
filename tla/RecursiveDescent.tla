-------------------------- MODULE RecursiveDescent --------------------------
(***************************************************************************)
(* A recursive-descent parser at work: the lexer's stack of sources and    *)
(* its one token of lookahead (src/src/frontends/common/lexer.cpp), what   *)
(* the active functions of the parser still have to do (`todo`, innermost  *)
(* first) and what they have built so far (`built`, last one last).        *)
(*                                                                         *)
(* A function of the parser is the operator Rule(its name, the next        *)
(* token), which gives the sequence of things it does from there.          *)
(***************************************************************************)
EXTENDS Tokens, IjTrees, SequencesExt

CONSTANTS
    I8_MAX,     \* the largest numbers of a byte and of a word; the smallest
    INT32_MAX,  \* ones are -MAX - 1
    LONG_MAX    \* the largest number that stol can read

ASSUME WidthAssumption == I8_MAX \in Nat /\ INT32_MAX \in Nat /\ I8_MAX < INT32_MAX

ASSUME LongAssumption == LONG_MAX \in Nat /\ 2 * INT32_MAX < LONG_MAX

VARIABLES
    files,      \* file name -> its tokens
    srcs,       \* Lexer::srcs: [name, rest], the one being read last
    cache,      \* Lexer::cache: at most one token
    todo,
    built,
    phase,      \* "parsing", "done" or "error"
    taken       \* history: the tokens the parser has consumed

readVars == <<files, srcs, cache, todo, built, phase, taken>>

-----------------------------------------------------------------------------
(* Things to do.                                                           *)

Item(do, a, b) == [do |-> do, a |-> a, b |-> b]

Call(rule)      == Item("call", rule, 0)
Discard         == Item("discard", "any", 0)
Take            == Item("take", "any", 0)             \* l.get().value
Expect(ty)      == Item("expect", ty, {})            \* l.expect(ty, true)
ExpectOne(ty, v) == Item("expect", ty, {v})
Number(lo, hi)  == Item("number", "range", <<lo, hi>>)
Push(x)         == Item("push", "value", x)
Make(what)      == Item("make", what, 0)
MakeOf(what, x) == Item("make", what, x)
Fail            == Item("fail", "any", 0)

parse_identifier == Item("identifier", "any", 0)

\* Things that look at the next token.
Peeking == {"call", "discard", "take", "expect", "number", "identifier"}

I8_MIN    == -I8_MAX - 1
INT32_MIN == -INT32_MAX - 1

\* What is left of a number in an i32.
i32(k) == ((k + INT32_MAX + 1) % (2 * (INT32_MAX + 1))) - (INT32_MAX + 1)

\* parse_value: a sign in front, and the range of what comes behind it.
parse_value(t, lo, hi) ==
    IF is_next(t, "Operator", {"-"})
    THEN <<Discard, Number(lo, hi), Make("negative")>>
    ELSE <<Number(lo, hi)>>

-----------------------------------------------------------------------------
(* The lexer.                                                              *)

add_source(ss, f) == Append(ss, [name |-> f, rest |-> files[f]])

\* The sources that are left once has_symbol has dropped the exhausted ones.
has_symbol(ss) ==
    LET unread == {i \in DOMAIN ss : ss[i].rest # << >>}
    IN  SubSeq(ss, 1, Max(unread \cup {0}))

\* peek() reads when there is no token in the cache.
ReadToken ==
    /\ phase = "parsing" /\ cache = << >> /\ Head(todo).do \in Peeking
    /\ \E ss \in {has_symbol(srcs)} :
          /\ ss # << >>
          /\ LET t == Head(Last(ss).rest)
             IN  /\ srcs' = [ss EXCEPT ![Len(ss)].rest = Tail(@)]
                 /\ cache' = IF t.type \in skip_list THEN << >> ELSE <<t>>
    /\ UNCHANGED <<files, todo, built, phase, taken>>

\* Nothing is left to read: read_token throws, has_token says so.
OutOfTokens ==
    /\ phase = "parsing" /\ cache = << >> /\ Head(todo).do \in Peeking
    /\ has_symbol(srcs) = << >>
    /\ srcs' = << >>
    /\ phase' = IF Head(todo).a = "toplevel" THEN "done" ELSE "error"
    /\ UNCHANGED <<files, cache, todo, built, taken>>

-----------------------------------------------------------------------------
(* The parser.                                                             *)

\* A function looks at the next token and decides.
Descend(Rule(_, _)) ==
    /\ phase = "parsing" /\ cache # << >> /\ Head(todo).do = "call"
    /\ todo' = Rule(Head(todo).a, cache[1]) \o Tail(todo)
    /\ UNCHANGED <<files, srcs, cache, built, phase, taken>>

Throw ==
    /\ phase' = "error"
    /\ UNCHANGED <<files, srcs, cache, todo, built, taken>>

NumberTypes == {"Decimal", "Hexadecimal", "Character_literal"}

\* A number that stol can read, or a character with a meaning.
readable(t) ==
    \/ t.type \in {"Decimal", "Hexadecimal"} /\ t.n <= LONG_MAX
    \/ t.type = "Character_literal" /\ t # UnknownEscape

\* Mutant of within: the number is compared before it is stored in an i32.
within_Unstored(t, lo, hi) ==
    readable(t) /\ (t.type = "Character_literal" \/ (lo <= t.n /\ t.n <= hi))

\* The number as an i32, which is what is compared with the range.
within(t, lo, hi) ==
    readable(t) /\ (t.type = "Character_literal" \/ (lo <= i32(t.n) /\ i32(t.n) <= hi))

accepts(item, t) ==
    CASE item.do = "expect"     -> t.type = item.a /\ (item.b # {} => t.value \in item.b)
      [] item.do = "identifier" -> t.type = "Identifier"
      [] item.do = "number"     -> within(t, item.b[1], item.b[2])
      [] OTHER -> TRUE

\* What the parser keeps of a token: a name or a number.
kept(item, t) ==
    CASE item.do \in {"identifier", "take"} -> <<Ident(t.value)>>
      [] item.do = "number" -> <<Val(i32(t.n))>>
      [] OTHER -> << >>

Consume ==
    /\ phase = "parsing" /\ cache # << >>
    /\ Head(todo).do \in Peeking \ {"call"}
    /\ \E t \in {cache[1]}, item \in {Head(todo)} :
          IF accepts(item, t)
          THEN /\ cache' = << >>
               /\ todo' = Tail(todo)
               /\ built' = built \o kept(item, t)
               /\ taken' = Append(taken, t)
               /\ UNCHANGED <<files, srcs, phase>>
          ELSE Throw

Refuse ==
    /\ phase = "parsing" /\ Head(todo).do = "fail"
    /\ Throw

Keep ==
    /\ phase = "parsing" /\ Head(todo).do = "push"
    /\ built' = Append(built, Head(todo).b)
    /\ todo' = Tail(todo)
    /\ UNCHANGED <<files, srcs, cache, phase, taken>>

-----------------------------------------------------------------------------
\* The top of `built`, counted from the end.
top(k) == built[Len(built) + 1 - k]

\* The last k things become one.
Becomes(k, x) ==
    /\ todo' = Tail(todo)
    /\ built' = Append(SubSeq(built, 1, Len(built) - k), x)
    /\ UNCHANGED <<files, srcs, cache, phase, taken>>

=============================================================================
