------------------------------ MODULE IjSyntax ------------------------------
(***************************************************************************)
(* How a program of ij is written down: the tokens of a syntax tree, by    *)
(* the grammar of src/README.md with the precedence of ordinary            *)
(* expressions, *, then + -, then & |, then comparisons, then assignments, *)
(* all of them grouping to the left.  What that grammar leaves out is      *)
(* written as the comments and rules of parse.cpp have it: while, break,   *)
(* continue, products, arrays, unary minus, the functions that begin with  *)
(* a $, bodies without braces.  Bodies in jas follow the comment at        *)
(* parse.cpp:120-124, not README.md:115-116: the parser asks for no        *)
(* semicolon in them, and they may have labels.  A program has two         *)
(* spellings: the terse one leaves out all it may (parentheses, braces     *)
(* around one statement, an initial 0, the 0 in front of a minus, the      *)
(* parts of a for that has only a condition, semicolons in jas), the other *)
(* writes everything.                                                      *)
(***************************************************************************)
EXTENDS IjAst, Tokens, SequencesExt

Precedence(o) ==
    CASE o = "*" -> 5 [] o \in {"+", "-"} -> 4 [] o \in {"&", "|"} -> 3
      [] o \in Comparators -> 2 [] OTHER -> 1

Unary  == 6
Atomic == 7

is_negation(e) ==
    e.kind = "op" /\ e.op = "-" /\ e.left = Val(0) /\ e.right.kind # "value"

Binds(e, terse) ==
    CASE e.kind = "op" /\ terse /\ is_negation(e) -> Unary
      [] e.kind = "op" -> Precedence(e.op)
      [] e.kind = "value" /\ e.value < 0 -> Unary
      [] OTHER -> Atomic

Literal(v) == IF v < 0 THEN <<Operator("-"), Decimal(-v)>> ELSE <<Decimal(v)>>

Parenthesised(ts) == <<BracesOpen>> \o ts \o <<BracesClose>>

\* Token sequences with commas between them.
Listed(tss) ==
    FlattenSeq([i \in DOMAIN tss |-> IF i = 1 THEN tss[i] ELSE <<Comma>> \o tss[i]])

\* Tokens of an expression where one is wanted that binds as tight as k.
RECURSIVE Written(_, _, _)
Written(e, k, terse) ==
    LET own == Binds(e, terse)
        magic(s) ==
            CASE s.kind = "jas"   -> <<Keyword("$getc"), BracesOpen, BracesClose>>
              [] s.stmts = << >>  -> <<Keyword("$pop"), BracesOpen, BracesClose>>
              [] OTHER -> <<Keyword(IF s.stmts[2].op = "DUP" THEN "$push" ELSE "$malloc")>>
                            \o Parenthesised(Written(s.stmts[1].expr, 1, terse))
        tokens ==
            CASE e.kind = "value" -> Literal(e.value)
              [] e.kind = "ident" -> <<Identifier(e.identifier)>>
              [] e.kind = "op" /\ own = Unary -> <<Operator("-")>> \o Written(e.right, Atomic, terse)
              [] e.kind = "op" /\ own < Unary ->
                    Written(e.left, own, terse) \o <<Operator(e.op)>> \o Written(e.right, own + 1, terse)
              [] e.kind = "fun" ->
                    <<Identifier(e.fname)>>
                      \o Parenthesised(Listed([i \in DOMAIN e.args |-> Written(e.args[i], 1, terse)]))
              [] e.kind = "stmtexpr" -> magic(e.stmt)
              [] e.kind = "arr" ->
                    Written(e.array, Atomic, terse)
                      \o <<BlockOpen>> \o Written(e.index, 1, terse) \o <<BlockClose>>
    IN  IF own < k \/ (e.kind = "op" /\ ~ terse) THEN Parenthesised(tokens) ELSE tokens

Optional(e, terse) == IF e = nullptr THEN << >> ELSE Written(e, 1, terse)

\* A statement that an else behind it would become part of.
RECURSIVE OpenEnded(_)
OpenEnded(s) ==
    CASE s.kind = "if"  -> \/ s.elses.stmts = << >>
                           \/ Len(s.elses.stmts) = 1 /\ OpenEnded(s.elses.stmts[1])
      [] s.kind = "for" -> Len(s.body.stmts) = 1 /\ OpenEnded(s.body.stmts[1])
      [] OTHER -> FALSE

VarTokens(s, terse) ==
    <<Keyword("var"), Identifier(s.identifier)>>
      \o (IF terse /\ s.expr = Val(0) THEN << >> ELSE <<Operator("=")>> \o Written(s.expr, 1, terse))

\* A compound statement the parser makes for $putc, $print and $puts.
MagicTokens(ss, terse) ==
    LET chars == [i \in 1 .. Len(ss) \div 2 |-> ss[2 * i - 1].iarg0]
        puts  == chars # << >> /\ Last(chars) = 10
    IN  IF ss # << >> /\ ss[1].kind = "expr"
        THEN <<Keyword("$putc")>> \o Parenthesised(Written(ss[1].expr, 1, terse))
        ELSE <<Keyword(IF puts THEN "$puts" ELSE "$print")>>
               \o Parenthesised(<<String("text", IF puts THEN Front(chars) ELSE chars)>>)

\* An expression as a statement: $push in front would be the statement $push.
Evaluated(ts) == IF Head(ts) = Keyword("$push") THEN Parenthesised(ts) ELSE ts

JasTokens(s) ==
    <<Identifier(s.op)>>
      \o (IF s.arg0 = "" THEN << >> ELSE <<Identifier(s.arg0)>>)
      \o (IF s.op \in {"IINC", "BIPUSH"} THEN Literal(s.iarg0) ELSE << >>)

RECURSIVE Statement(_, _), Body(_, _, _)
Statement(s, terse) ==
    CASE s.kind = "if" ->
            <<Keyword("if")>> \o Parenthesised(Written(s.condition, 1, terse))
              \o Body(s.thens, terse, s.elses.stmts # << >>)
              \o (IF s.elses.stmts = << >> THEN << >>
                  ELSE <<Keyword("else")>> \o Body(s.elses, terse, FALSE))
      [] s.kind = "for" /\ terse /\ s.initial = nullptr /\ s.update = nullptr ->
            <<Keyword("while")>> \o Parenthesised(Optional(s.condition, terse))
              \o Body(s.body, terse, FALSE)
      [] s.kind = "for" ->
            <<Keyword("for")>>
              \o Parenthesised(
                    (CASE s.initial.kind = "var"  -> VarTokens(s.initial, terse)
                       [] s.initial.kind = "expr" -> Written(s.initial.expr, 1, terse)
                       [] OTHER -> << >>)
                      \o <<SemiColon>> \o Optional(s.condition, terse)
                      \o <<SemiColon>> \o Optional(s.update, terse))
              \o Body(s.body, terse, FALSE)
      [] OTHER ->
            (CASE s.kind = "var"   -> VarTokens(s, terse)
               [] s.kind = "ret"   -> <<Keyword("return")>> \o Written(s.expr, 1, terse)
               [] s.kind = "break" -> <<Keyword("break")>>
               [] s.kind = "continue" -> <<Keyword("continue")>>
               [] s.kind = "jas"   -> <<Keyword(IF s.op = "ERR" THEN "$err" ELSE "$halt"),
                                        BracesOpen, BracesClose>>
               [] s.kind = "comp"  -> MagicTokens(s.stmts, terse)
               [] s.kind = "expr" /\ s.pop -> Evaluated(Written(s.expr, 1, terse))
               [] OTHER -> <<Keyword("$push")>> \o Parenthesised(Written(s.expr, 1, terse)))
              \o <<SemiColon>>

\* A body; `closed` when an else comes behind it.
Body(c, terse, closed) ==
    IF terse /\ Len(c.stmts) = 1 /\ ~ (closed /\ OpenEnded(c.stmts[1]))
    THEN Statement(c.stmts[1], terse)
    ELSE <<CurlyOpen>> \o FlattenSeq([i \in DOMAIN c.stmts |-> Statement(c.stmts[i], terse)])
           \o <<CurlyClose>>

\* A function in jas: variables, labels and instructions.  The parser skips
\* the semicolons that README.md:115 demands and takes labels,
\* which the same lines call unsupported.
JasBody(c, terse) ==
    LET line(s) == CASE s.kind = "label" -> <<Keyword("label"), Identifier(s.label_name), Colon>>
                     [] s.kind = "var"   -> VarTokens(s, terse)
                     [] OTHER            -> JasTokens(s)
    IN  <<Keyword("jas"), CurlyOpen>>
          \o FlattenSeq([i \in DOMAIN c.stmts |->
                 line(c.stmts[i]) \o IF terse THEN << >> ELSE <<SemiColon>>])
          \o <<CurlyClose>>

\* A function with a statement that only jas functions have.
is_jas(f) ==
    \E i \in DOMAIN f.stmts.stmts :
        LET s == f.stmts.stmts[i]
        IN  s.kind = "label" \/ (s.kind = "jas" /\ s.op \notin {"HALT", "ERR"})

FunctionTokens(f, terse) ==
    <<Keyword("function"), Identifier(f.name)>>
      \o Parenthesised(Listed([i \in DOMAIN f.args |-> <<Identifier(f.args[i])>>]))
      \o IF is_jas(f) THEN JasBody(f.stmts, terse) ELSE Body(f.stmts, terse, FALSE)

ConstantTokens(c) ==
    <<Keyword("constant"), Identifier(c.name), Operator("=")>> \o Literal(c.value) \o <<SemiColon>>

ProgramTokens(p, terse) ==
    FlattenSeq([i \in DOMAIN p.consts |-> ConstantTokens(p.consts[i])])
      \o FlattenSeq([i \in DOMAIN p.funcs |-> FunctionTokens(p.funcs[i], terse)])

=============================================================================
