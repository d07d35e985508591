----------------------------- MODULE IjCodegen -----------------------------
(***************************************************************************)
(* Code generation of one ij function (src/src/frontends/ij/compile.cpp):  *)
(* every Stmt::compile and Expr::compile as an operator from the state of  *)
(* the compiler to its next state.  An instruction is a record; labels are *)
(* the positions the assembler notes for them.                             *)
(*                                                                         *)
(* RECURSIVE follows the recursion over the syntax tree.                   *)
(***************************************************************************)
EXTENDS IjAst, TLC

CONSTANTS
    Constants,   \* the declared constants: a function from name to value
    ImmMax       \* 127: the largest immediate of IINC

ASSUME CodegenAssumption == ImmMax \in Nat

\* The state of the compiler inside one function: the instructions so far,
\* where each label lies, the counters of id_gen, the variables the assembler
\* knows, and "" or what was thrown.
Fresh(vars) == [code |-> << >>, labels |-> << >>, forid |-> 0, ifid |-> 0,
                vars |-> vars, error |-> ""]

-----------------------------------------------------------------------------
(* Calls of the assembler.                                                 *)

emit(c, op, name, value) ==
    [c EXCEPT !.code = Append(@, [op |-> op, name |-> name, value |-> value])]

plain(c, op)        == emit(c, op, "", 0)
named(c, op, name)  == emit(c, op, name, 0)
goto(c, op, label)  == emit(c, op, label, 0)
PUSH_VAL(c, v)      == emit(c, "PUSH", "", v)

label(c, l) == [c EXCEPT !.labels = (l :> Len(c.code) + 1) @@ @]

throw(c, what) == [c EXCEPT !.error = IF @ = "" THEN what ELSE @]

is_var(c, n)   == n \in c.vars
is_constant(n) == n \in DOMAIN Constants

-----------------------------------------------------------------------------
(* id_gen: numbers for the labels of loops and branches.                   *)

for_label(id, part) == "for" \o ToString(id) \o "_" \o part
if_label(id, part)  == "if" \o ToString(id) \o "_" \o part

\* Mutant of gfor: the number is not used up.
gfor_Same(c) == c

gfor(c)     == [c EXCEPT !.forid = @ + 1]
gif(c)      == [c EXCEPT !.ifid = @ + 1]
last_for(c) == c.forid - 1

-----------------------------------------------------------------------------
(* IMUL(value): multiplication by a constant, by shifting and adding.  Each *)
(* set bit below the highest leaves a copy to be added at the end.          *)

\* Mutant of shift_add: the copy is taken after the doubling.
RECURSIVE shift_add_Late(_, _, _)
shift_add_Late(c, n, bits) ==
    IF n > 1
      THEN LET doubled == plain(plain(c, "DUP"), "IADD")
               copied  == IF n % 2 = 1 THEN plain(doubled, "DUP") ELSE doubled
           IN  shift_add_Late(copied, n \div 2, bits + (n % 2))
    ELSE IF bits > 0 THEN shift_add_Late(plain(c, "IADD"), n, bits - 1)
    ELSE c

RECURSIVE shift_add(_, _, _)
shift_add(c, n, bits) ==
    IF n > 1
      THEN LET copied == IF n % 2 = 1 THEN plain(c, "DUP") ELSE c
           IN  shift_add(plain(plain(copied, "DUP"), "IADD"),
                         n \div 2, bits + (n % 2))
    ELSE IF bits > 0 THEN shift_add(plain(c, "IADD"), n, bits - 1)
    ELSE c

\* Mutant of IMUL: the product with 0 leaves the other operand.
IMUL_KeepsOperand(c, n) ==
    CASE n = 0 -> PUSH_VAL(c, 0)
      [] n > 0 -> shift_add(c, n, 0)
      [] n < 0 -> plain(shift_add(plain(PUSH_VAL(c, 0), "SWAP"), -n, 0), "ISUB")

IMUL(c, n) ==
    CASE n = 0 -> PUSH_VAL(plain(c, "POP"), 0)
      [] n > 0 -> shift_add(c, n, 0)
      [] n < 0 -> plain(shift_add(plain(PUSH_VAL(c, 0), "SWAP"), -n, 0), "ISUB")

-----------------------------------------------------------------------------
(* Expressions and statements.                                             *)

arit_instruction == [o \in Arithmetic |->
    CASE o = "+" -> "IADD" [] o = "-" -> "ISUB" [] o = "&" -> "IAND" [] o = "|" -> "IOR"]

compile_arit_op(c, o) == plain(c, arit_instruction[o])

\* The amount by which x += e or x -= e changes x.
increment(e) == IF e.op = "-=" THEN - e.right.value ELSE e.right.value

\* Mutant of fits_iinc: nothing keeps a decrement small.
fits_iinc_Below(e) ==
    /\ e.op \in {"+=", "-="}
    /\ e.right.kind = "value"
    /\ increment(e) <= ImmMax

\* A constant update that a single IINC performs.
fits_iinc(e) ==
    /\ e.op \in {"+=", "-="}
    /\ e.right.kind = "value"
    /\ increment(e) \in -ImmMax .. ImmMax

RECURSIVE compile(_, _), compile_all(_, _)

\* The elements of a sequence, one after another.
compile_all(ss, c) ==
    IF ss = << >> THEN c ELSE compile_all(Tail(ss), compile(Head(ss), c))

\* "=" assigns a variable or an element of an array.
compile_assign(e, c) ==
    CASE e.left.kind = "ident" ->
           IF is_var(c, e.left.identifier)
             THEN named(compile(e.right, c), "ISTORE", e.left.identifier)
             ELSE throw(c, "only local variables can be assigned")
      [] e.left.kind = "arr" ->
           plain(compile_all(<<e.right, e.left.index, e.left.array>>, c), "IASTORE")
      [] OTHER -> throw(c, "you can only reassign variables and arrays")

compile_update(e, c) ==
    CASE e.left.kind = "ident" ->
           LET x == e.left.identifier
           IN  IF ~ is_var(c, x) THEN throw(c, "only local variables can be reassigned")
               ELSE IF fits_iinc(e) THEN emit(c, "IINC", x, increment(e))
               ELSE named(compile_arit_op(compile(e.right, named(c, "ILOAD", x)),
                                          arith_of(e.op)), "ISTORE", x)
      [] e.left.kind = "arr" ->
           LET element == <<e.left.index, e.left.array>>
               loaded  == plain(compile_all(element, c), "IALOAD")
               updated == compile_arit_op(compile(e.right, loaded), arith_of(e.op))
           IN  plain(compile_all(element, updated), "IASTORE")
      [] OTHER -> throw(c, "you can only reassign variables")

\* One side of a product must be a literal.
compile_product(e, c) ==
    CASE e.left.kind = "value"  -> IMUL(compile(e.right, c), e.left.value)
      [] e.right.kind = "value" -> IMUL(compile(e.left, c), e.right.value)
      [] OTHER -> throw(c, "multiplication only supported with constant")

compile_op(e, c) ==
    CASE e.op \in Comparators -> throw(c, "no support outside of conditionals")
      [] e.op = "="           -> compile_assign(e, c)
      [] e.op \in Updaters    -> compile_update(e, c)
      [] e.op \in Arithmetic  ->
           compile_arit_op(compile(e.right, compile(e.left, c)), e.op)
      [] e.op = "*"           -> compile_product(e, c)
      [] OTHER                -> throw(c, "unsupported operator found")

compile_ident(e, c) ==
    CASE is_var(c, e.identifier)     -> named(c, "ILOAD", e.identifier)
      [] is_constant(e.identifier)   -> named(c, "LDC_W", e.identifier)
      [] OTHER -> throw(c, "couldn't find reference")

\* The constant __OBJREF__ is added to the pool at the first call.
compile_call(e, c) ==
    named(compile_all(e.args, named(c, "LDC_W", "__OBJREF__")),
          "INVOKEVIRTUAL", e.fname)

\* Mutant of compile_expr_stmt: the value of an assignment is popped.
compile_expr_stmt_AlwaysPops(s, c) ==
    IF s.pop THEN plain(compile(s.expr, c), "POP") ELSE compile(s.expr, c)

\* An assignment leaves nothing to pop.
compile_expr_stmt(s, c) ==
    LET after == compile(s.expr, c)
    IN  IF \/ s.expr.kind = "op" /\ ~ leaves_on_stack(s.expr)
           \/ ~ s.pop
          THEN after
          ELSE plain(after, "POP")

-----------------------------------------------------------------------------
(* Conditions: jump to `no` when false; when true, to `yes`, which is the   *)
(* code that follows.                                                      *)

\* Mutant of compares_swapped: <= subtracts like >=.
compares_swapped_Greater(o) == o = ">"

\* a > b and a <= b are decided by the sign of b - a ...
compares_swapped(o) == o \in {">", "<="}

\* ... and these jump when the test fails.
compares_negated(o) == o \in {">=", "<=", "!="}

compile_comparison(e, yes, no, c) ==
    LET sides == IF compares_swapped(e.op) THEN <<e.right, e.left>>
                                           ELSE <<e.left, e.right>>
        both  == compile_all(sides, c)
        holds == IF compares_negated(e.op) THEN no ELSE yes
        fails == IF compares_negated(e.op) THEN yes ELSE no
    IN  IF e.op \in {"==", "!="}
          THEN goto(goto(both, "ICMPEQ", holds), "GOTO", fails)
          ELSE goto(goto(plain(both, "ISUB"), "IFLT", holds), "GOTO", fails)

compile_condition(e, yes, no, c) ==
    CASE e.kind = "nullptr" -> c
      [] is_comparison(e)   -> compile_comparison(e, yes, no, c)
      [] OTHER              -> goto(compile(e, c), "IFEQ", no)

-----------------------------------------------------------------------------
(* Control flow.                                                           *)

\* Mutant of compile_for: continue lands behind the update.
compile_for_UpdateFirst(s, c) ==
    LET id      == c.forid
        start   == label(gfor(c), for_label(id, "start"))
        tested  == label(compile(s.initial, start), for_label(id, "condition"))
        entered == label(compile_condition(s.condition, for_label(id, "body"),
                                           for_label(id, "end"), tested),
                         for_label(id, "body"))
        updated == compile(s.update, compile(s.body, entered))
    IN  label(goto(label(updated, for_label(id, "update")),
                   "GOTO", for_label(id, "condition")), for_label(id, "end"))

\* The value of the update expression stays on the stack.
compile_for(s, c) ==
    LET id      == c.forid
        start   == label(gfor(c), for_label(id, "start"))
        tested  == label(compile(s.initial, start), for_label(id, "condition"))
        entered == label(compile_condition(s.condition, for_label(id, "body"),
                                           for_label(id, "end"), tested),
                         for_label(id, "body"))
        updated == compile(s.update,
                           label(compile(s.body, entered), for_label(id, "update")))
    IN  label(goto(updated, "GOTO", for_label(id, "condition")),
              for_label(id, "end"))

\* A condition with a value at compile time chooses a branch ...
compile_known_if(s, known, c) ==
    LET effects == IF has_side_effects(s.condition)
                     THEN plain(compile(s.condition, c), "POP")
                     ELSE c
    IN  compile(IF known.value # 0 THEN s.thens ELSE s.elses, effects)

\* Mutant of compile_tested_if: without an else branch, its label is still
\* where a failed test goes.
compile_tested_if_NoEnd(s, c) ==
    LET id       == c.ifid
        has_else == s.elses.stmts # << >>
        end      == if_label(id, "end")
        else     == if_label(id, "else")
        start    == label(gif(c), if_label(id, "condition"))
        then     == compile(s.thens, label(compile_condition(s.condition,
                        if_label(id, "then"), else, start), if_label(id, "then")))
        over     == IF is_terminal(s.thens) THEN then ELSE goto(then, "GOTO", end)
    IN  label(IF has_else THEN compile(s.elses, label(over, else)) ELSE then, end)

\* ... any other is tested; the jump over the else branch is left out when
\* control cannot get there.
compile_tested_if(s, c) ==
    LET id       == c.ifid
        has_else == s.elses.stmts # << >>
        end      == if_label(id, "end")
        else     == IF has_else THEN if_label(id, "else") ELSE end
        start    == label(gif(c), if_label(id, "condition"))
        then     == compile(s.thens, label(compile_condition(s.condition,
                        if_label(id, "then"), else, start), if_label(id, "then")))
        over     == IF is_terminal(s.thens) THEN then ELSE goto(then, "GOTO", end)
    IN  label(IF has_else THEN compile(s.elses, label(over, else)) ELSE then, end)

compile_if(s, c) ==
    LET known == val(s.condition)
    IN  CASE known.thrown -> throw(c, "no value")
          [] known.isset  -> compile_known_if(s, known, c)
          [] OTHER        -> compile_tested_if(s, c)

\* break and continue go to the loop that was numbered last.
compile_leave(part, c) ==
    IF last_for(c) = -1
      THEN throw(c, "break outside for detected")
      ELSE goto(c, "GOTO", for_label(last_for(c), part))

compile(n, c) ==
    CASE n.kind = "nullptr"  -> c
      [] n.kind = "value"    -> PUSH_VAL(c, n.value)
      [] n.kind = "ident"    -> compile_ident(n, c)
      [] n.kind = "op"       -> compile_op(n, c)
      [] n.kind = "fun"      -> compile_call(n, c)
      [] n.kind = "stmtexpr" -> compile(n.stmt, c)
      [] n.kind = "arr"      -> plain(compile_all(<<n.index, n.array>>, c), "IALOAD")
      [] n.kind = "comp"     -> compile_all(n.stmts, c)
      [] n.kind = "expr"     -> compile_expr_stmt(n, c)
      [] n.kind = "var"      -> named(compile(n.expr, c), "ISTORE", n.identifier)
      [] n.kind = "ret"      -> plain(compile(n.expr, c), "IRETURN")
      [] n.kind = "if"       -> compile_if(n, c)
      [] n.kind = "for"      -> compile_for(n, c)
      [] n.kind = "jas"      -> plain(c, n.op)
      [] n.kind = "break"    -> compile_leave("end", c)
      [] n.kind = "continue" -> compile_leave("update", c)

\* Function::compile.
compile_function(args, body) == compile(body, Fresh(args \cup find_vars(body)))

=============================================================================
