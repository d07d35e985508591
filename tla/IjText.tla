------------------------------- MODULE IjText -------------------------------
(***************************************************************************)
(* The parser of ij against the text it reads: what it consumes is the     *)
(* text with its imports put in place, and what it builds has every name   *)
(* and number of it.                                                       *)
(***************************************************************************)
EXTENDS IjParser

Skipped(ts) == SelectSeq(ts, LAMBDA t : t # Nl)

\* The text with each file put where it is first imported.
RECURSIVE Spliced(_, _)
Spliced(ts, read) ==
    LET places == {i \in 1 .. Len(ts) - 1 : ts[i] = Keyword("import")}
        i == Min(places)
        f == ts[i + 1].value
    IN  IF places = {} \/ f \notin DOMAIN files THEN ts
        ELSE SubSeq(ts, 1, i + 1)
               \o Spliced((IF f \in read THEN << >> ELSE Skipped(files[f])) \o SubSeq(ts, i + 2, Len(ts)),
                          read \cup {f})

\* Imports are textual: the parser reads each file in the place of its first
\* import, even one that ends in the middle of a declaration or imports the
\* file it is imported from, and reads no file twice but the one it started
\* with.
ReadInPlace ==
    /\ NestedOnce
    /\ phase # "parsing" =>
          LET text == Spliced(Skipped(files[Root]), {})
          IN  /\ IsPrefix(taken, text)
              /\ phase = "done" => taken = text

-----------------------------------------------------------------------------
\* The names and numbers of a tree, in the order of the text; a 0 may be one
\* that the parser added.
number(v) == IF v = 0 THEN << >> ELSE <<Decimal(IF v < 0 THEN -v ELSE v)>>

RECURSIVE leaves(_)
leaves(s) ==
    LET all(ss) == FlattenSeq([i \in DOMAIN ss |-> leaves(ss[i])])
    IN  CASE s.kind = "value" -> number(s.value)
          [] s.kind = "ident" -> <<Identifier(s.identifier)>>
          [] s.kind = "op"    -> leaves(s.left) \o leaves(s.right)
          [] s.kind = "fun"   -> <<Identifier(s.fname)>> \o all(s.args)
          [] s.kind = "arr"   -> leaves(s.array) \o leaves(s.index)
          [] s.kind = "stmtexpr" -> leaves(s.stmt)
          [] s.kind = "comp"  -> all(s.stmts)
          [] s.kind = "var"   -> <<Identifier(s.identifier)>> \o leaves(s.expr)
          [] s.kind \in {"ret", "expr"} -> leaves(s.expr)
          [] s.kind = "if"    -> all(<<s.condition, s.thens, s.elses>>)
          [] s.kind = "for"   -> all(<<s.initial, s.condition, s.update, s.body>>)
          [] OTHER -> << >>

\* Whatever the parser accepts, it loses nothing of it: every declaration takes
\* all that was built for it, and the names and numbers of the functions are
\* those of the text, in its order.  (Of functions without jas, strings and
\* constants, which have other leaves.)
NothingLost ==
    Settled /\
    LET plain == \A i \in DOMAIN taken :
            /\ ~ is_next(taken[i], "Keyword", {"jas", "constant", "import"})
            /\ taken[i].type # "StringLiteral"
        named(t) == t.type = "Identifier" \/ (t.type = "Decimal" /\ t.n # 0)
        text(f)  == <<Identifier(f.name)>>
                      \o [i \in DOMAIN f.args |-> Identifier(f.args[i])] \o leaves(f.stmts)
    IN  phase = "done" /\ plain =>
            SelectSeq(taken, named)
              = FlattenSeq([i \in DOMAIN program.funcs |-> text(program.funcs[i])])

=============================================================================
