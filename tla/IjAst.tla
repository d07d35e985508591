------------------------------- MODULE IjAst -------------------------------
(***************************************************************************)
(* The questions the code generator asks of the syntax trees               *)
(* (src/src/frontends/ij/data.cpp).                                        *)
(***************************************************************************)
EXTENDS IjTrees, Integers, Sequences

\* The operator of an update: its first character.
arith_of(o) == [u \in Updaters |->
    CASE u = "+=" -> "+" [] u = "-=" -> "-" [] u = "&=" -> "&" [] u = "|=" -> "|"][o]

is_comparison(e) == e.kind = "op" /\ e.op \in Comparators

leaves_on_stack(e) == e.op \in Arithmetic \cup {"*", "/"}

-----------------------------------------------------------------------------
(* The value of a constant expression, if it has one: `isset`, `value`, and *)
(* `thrown` when asking for it panics or throws.                           *)

Unknown == [isset |-> FALSE, value |-> 0, thrown |-> FALSE]
Thrown  == [isset |-> FALSE, value |-> 0, thrown |-> TRUE]
Known(v) == [isset |-> TRUE, value |-> v, thrown |-> FALSE]

Truth(b) == IF b THEN 1 ELSE 0

RECURSIVE val(_)
val(e) ==
    IF e.kind = "value" THEN Known(e.value)
    ELSE IF e.kind # "op" THEN Unknown
    ELSE LET l == val(e.left)
             r == val(e.right)
         IN  CASE l.thrown \/ r.thrown -> Thrown
               [] ~ (l.isset /\ r.isset) -> Unknown
               [] e.op = "==" -> Known(Truth(l.value = r.value))
               [] e.op = "<=" -> Known(Truth(l.value <= r.value))
               [] e.op = "<"  -> Known(Truth(l.value < r.value))
               [] e.op = ">"  -> Known(Truth(l.value > r.value))
               [] e.op = ">=" -> Known(Truth(l.value >= r.value))
               [] OTHER -> Thrown

RECURSIVE has_side_effects(_)
has_side_effects(e) ==
    CASE e.kind \in {"fun", "stmtexpr", "arr"} -> TRUE
      [] e.kind = "op" -> has_side_effects(e.left) \/ has_side_effects(e.right)
      [] OTHER -> FALSE

-----------------------------------------------------------------------------
(* Whether control never reaches the end of a compound statement.          *)

\* Mutant of is_terminal: a loop that contains a terminal statement counts.
RECURSIVE is_terminal_Loops(_)
is_terminal_Loops(c) ==
    \E i \in DOMAIN c.stmts :
        LET s == c.stmts[i]
        IN  CASE s.kind = "comp" -> is_terminal_Loops(s)
              [] s.kind = "for"  -> is_terminal_Loops(s.body)
              [] s.kind = "jas"  -> s.op \in {"IRETURN", "ERR", "HALT"}
              [] OTHER -> s.kind \in {"break", "continue", "ret"}

RECURSIVE is_terminal(_)
is_terminal(c) ==
    \E i \in DOMAIN c.stmts :
        LET s == c.stmts[i]
        IN  CASE s.kind = "comp" -> is_terminal(s)
              [] s.kind = "jas"  -> s.op \in {"IRETURN", "ERR", "HALT"}
              [] OTHER -> s.kind \in {"break", "continue", "ret"}

-----------------------------------------------------------------------------
(* The variables that the statements of a function declare.                *)

RECURSIVE find_vars(_)
find_vars(s) ==
    CASE s.kind = "comp" -> UNION {find_vars(s.stmts[i]) : i \in DOMAIN s.stmts}
      [] s.kind = "var"  -> {s.identifier}
      [] s.kind = "for"  -> find_vars(s.initial) \cup find_vars(s.body)
      [] s.kind = "if"   -> find_vars(s.thens) \cup find_vars(s.elses)
      [] OTHER -> {}

=============================================================================
