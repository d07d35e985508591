------------------------------ MODULE IjTrees ------------------------------
(***************************************************************************)
(* The syntax trees of the ij language (src/src/frontends/ij/data.hpp), as *)
(* nested records, and the classes of its operators.                       *)
(***************************************************************************)

-----------------------------------------------------------------------------
(* Expressions and statements, one constructor per class.                  *)

Val(v)      == [kind |-> "value", value |-> v]
Ident(n)    == [kind |-> "ident", identifier |-> n]
Op(o, l, r) == [kind |-> "op", op |-> o, left |-> l, right |-> r]
Fun(f, as)  == [kind |-> "fun", fname |-> f, args |-> as]
StmtE(s)    == [kind |-> "stmtexpr", stmt |-> s]
Arr(a, i)   == [kind |-> "arr", array |-> a, index |-> i]

Comp(ss)      == [kind |-> "comp", stmts |-> ss]
Var(n, e)     == [kind |-> "var", identifier |-> n, expr |-> e]
Ret(e)        == [kind |-> "ret", expr |-> e]
ExprS(e, p)   == [kind |-> "expr", expr |-> e, pop |-> p]
If(c, t, e)   == [kind |-> "if", condition |-> c, thens |-> t, elses |-> e]
Jas(o)        == [kind |-> "jas", op |-> o]
Break         == [kind |-> "break"]
Continue      == [kind |-> "continue"]
For(i, c, u, b) ==
    [kind |-> "for", initial |-> i, condition |-> c, update |-> u, body |-> b]

\* A part of a for statement that was left out.
nullptr == [kind |-> "nullptr"]

-----------------------------------------------------------------------------
(* Classes of operators.                                                   *)

Comparators == {"==", "!=", "<", "<=", ">", ">="}
Updaters    == {"+=", "-=", "&=", "|="}
Arithmetic  == {"+", "-", "&", "|"}

=============================================================================
