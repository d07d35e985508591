------------------------------ MODULE IjSource ------------------------------
(***************************************************************************)
(* What an ij function means, whatever code is made for it.                *)
(*                                                                         *)
(* A function talks to its environment: it calls functions, reads and      *)
(* writes characters and arrays.  Each such event has operands, and the    *)
(* answer the environment chose.  `meaning` replays a log of events        *)
(* through the syntax tree and says what the function does next: one more  *)
(* event, or how it ends.  The state machine at the end lets the           *)
(* environment answer.                                                     *)
(*                                                                         *)
(* Unspecified are a comparison whose difference is no word, and a         *)
(* constant update that leaves the words (the JIT adds in 64 bits).        *)
(***************************************************************************)
EXTENDS IjAst, Words, FiniteSets

CONSTANTS
    Constants,   \* the declared constants: a function from name to value
    ObjRef,      \* the value of __OBJREF__, the operand below the arguments
    Answers,     \* what the environment may answer
    MaxLog       \* bound: events of a run

VARIABLES
    program,     \* the function: its parameters and its body
    start,       \* what parameters and variables hold on entry
    outcome,     \* "source", "rejected", "running", or how the run ended
    result,      \* the value returned
    log          \* the events so far

source_vars == <<program, start, outcome, result, log>>

-----------------------------------------------------------------------------
(* The state of a replay: the variables, how many events of the log are     *)
(* used, the last value, and `next`: "run", an unfinished statement         *)
(* ("break", "continue"), or what the function does after the log.          *)

Replay(env, events) ==
    [env |-> env, log |-> events, used |-> 0, val |-> 0, next |-> "run",
     event |-> [op |-> "", name |-> "", operands |-> << >>]]

yields(r, v)  == [r EXCEPT !.val = v]
becomes(r, s) == [r EXCEPT !.next = s]

\* F of x, with x evaluated once.
with(x, F(_)) == CHOOSE y \in {F(v) : v \in {x}} : TRUE

\* F after r: nothing more happens once the replay has stopped.
then(r, F(_)) == with(r, LAMBDA v : IF v.next = "run" THEN F(v) ELSE v)

asks(r, op, name, operands) ==
    IF r.used < Len(r.log)
      THEN [r EXCEPT !.used = @ + 1, !.val = r.log[r.used + 1].answer]
      ELSE [r EXCEPT !.next = "asks",
                     !.event = [op |-> op, name |-> name, operands |-> operands]]

\* The instructions behind $getc, $putc, $malloc and $halt, $err.
asks_jas(op, r) ==
    CASE op = "IN"       -> asks(r, "IN", "", << >>)
      [] op = "OUT"      -> asks(r, "OUT", "", <<r.val>>)
      [] op = "NEWARRAY" -> asks(r, "NEWARRAY", "", <<r.val>>)
      [] op = "HALT"     -> becomes(r, "halted")
      [] op = "ERR"      -> becomes(r, "error")

\* A comparison is exact only when the difference is a word.
compares(o, a, b, r) ==
    IF o \in {"==", "!="} \/ (a - b \in Word /\ b - a \in Word)
      THEN yields(r, Truth(CASE o = "==" -> a = b [] o = "!=" -> a # b
                             [] o = "<"  -> a < b [] o = "<=" -> a <= b
                             [] o = ">"  -> a > b [] o = ">=" -> a >= b))
      ELSE becomes(r, "unspecified")

-----------------------------------------------------------------------------
RECURSIVE evaluate(_, _), operands_of(_, _, _), execute(_, _), execute_all(_, _), loop(_, _, _)

\* The values of es, from left to right; vs are the ones already there.
operands_of(es, vs, r) ==
    IF es = << >> \/ r.next # "run" THEN [replay |-> r, values |-> vs]
    ELSE with(evaluate(Head(es), r),
              LAMBDA e : operands_of(Tail(es), Append(vs, e.val), e))

\* F of the values of es and of the replay after them.
taking(es, vs, r, F(_, _)) ==
    with(operands_of(es, vs, r),
         LAMBDA o : IF o.replay.next = "run" THEN F(o.values, o.replay) ELSE o.replay)

stores(x, v, r) == yields([r EXCEPT !.env[x] = v], v)

\* x op= v; x is read before v is known.
updates(e, x, before, v, r) ==
    LET leaves(n) == e.right.kind = "value" /\ n \notin Word
    IN  IF \/ e.op = "+=" /\ leaves(before + v)
           \/ e.op = "-=" /\ leaves(before - v)
          THEN becomes(r, "unspecified")
          ELSE stores(x, arith(arith_of(e.op), before, v), r)

\* a[i] op= e; index and array are evaluated again for the store.
evaluate_element_update(e, r) ==
    LET place == <<e.left.index, e.left.array>>
        store(v, q) == taking(place, <<v>>, q, LAMBDA vs, t : asks(t, "IASTORE", "", vs))
        update(old) == then(evaluate(e.right, old),
                            LAMBDA q : store(arith(arith_of(e.op), old.val, q.val), q))
    IN  taking(place, << >>, r,
               LAMBDA vs, q : then(asks(q, "IALOAD", "", vs), update))

evaluate_assign(e, r) ==
    IF e.left.kind = "arr"
      THEN taking(<<e.right, e.left.index, e.left.array>>, << >>, r,
                  LAMBDA vs, q : asks(q, "IASTORE", "", vs))
      ELSE then(evaluate(e.right, r), LAMBDA q : stores(e.left.identifier, q.val, q))

evaluate_op(e, r) ==
    CASE e.op = "=" -> evaluate_assign(e, r)
      [] e.op \in Updaters ->
           IF e.left.kind = "arr" THEN evaluate_element_update(e, r)
           ELSE then(evaluate(e.right, r), LAMBDA q :
                     updates(e, e.left.identifier, r.env[e.left.identifier], q.val, q))
      [] OTHER -> taking(<<e.left, e.right>>, << >>, r,
                         LAMBDA vs, q : yields(q, arith(e.op, vs[1], vs[2])))

evaluate(e, r) ==
    CASE e.kind = "value" -> yields(r, e.value)
      [] e.kind = "ident" -> yields(r, IF e.identifier \in DOMAIN r.env
                                         THEN r.env[e.identifier]
                                         ELSE Constants[e.identifier])
      [] e.kind = "op"    -> evaluate_op(e, r)
      [] e.kind = "fun"   -> taking(e.args, <<ObjRef>>, r,
                                    LAMBDA vs, q : asks(q, "INVOKEVIRTUAL", e.fname, vs))
      [] e.kind = "arr"   -> taking(<<e.index, e.array>>, << >>, r,
                                    LAMBDA vs, q : asks(q, "IALOAD", "", vs))
      [] e.kind = "stmtexpr" -> execute(e.stmt, r)

\* Whether a condition holds: 0 is false.  > and <= look at their right side
\* first.
decides(e, r) ==
    IF e.kind = "nullptr" THEN yields(r, 1)
    ELSE IF ~ is_comparison(e) THEN evaluate(e, r)
    ELSE IF e.op \in {">", "<="}
      THEN taking(<<e.right, e.left>>, << >>, r,
                  LAMBDA vs, q : compares(e.op, vs[2], vs[1], q))
      ELSE taking(<<e.left, e.right>>, << >>, r,
                  LAMBDA vs, q : compares(e.op, vs[1], vs[2], q))

\* The iterations of a loop.  A loop that comes around without an event and
\* with the same variables never ends, and neither does one that outlives
\* `fuel` rounds, more than there are values of the variables and events.
loop(s, r, fuel) ==
    LET update(q) == IF s.update.kind = "nullptr" THEN q ELSE evaluate(s.update, q)
        again(q)  == IF fuel = 0 \/ (q.env = r.env /\ q.used = r.used)
                       THEN becomes(q, "loops") ELSE loop(s, q, fuel - 1)
        leave(q)  == CASE q.next = "break" -> becomes(q, "run")
                       [] q.next \in {"run", "continue"} ->
                            then(update(becomes(q, "run")), again)
                       [] OTHER -> q
    IN  then(decides(s.condition, r),
             LAMBDA test : IF test.val = 0 THEN test
                                           ELSE with(execute(s.body, test), leave))

rounds(r) == (MaxLog + 1) * (2^WordBits) ^ Cardinality(DOMAIN r.env)

execute_all(ss, r) ==
    IF ss = << >> THEN r
    ELSE then(execute(Head(ss), r), LAMBDA q : execute_all(Tail(ss), q))

execute(s, r) ==
    CASE s.kind = "nullptr"  -> r
      [] s.kind = "comp"     -> execute_all(s.stmts, r)
      [] s.kind = "expr"     -> evaluate(s.expr, r)
      [] s.kind = "jas"      -> asks_jas(s.op, r)
      [] s.kind = "break"    -> becomes(r, "break")
      [] s.kind = "continue" -> becomes(r, "continue")
      [] s.kind = "var" -> then(evaluate(s.expr, r),
                                LAMBDA q : stores(s.identifier, q.val, q))
      [] s.kind = "ret" -> then(evaluate(s.expr, r), LAMBDA q : becomes(q, "returned"))
      [] s.kind = "if"  -> then(decides(s.condition, r), LAMBDA q :
                                execute(IF q.val # 0 THEN s.thens ELSE s.elses, q))
      [] s.kind = "for" -> then(execute(s.initial, r), LAMBDA q : loop(s, q, rounds(q)))

\* What a function does next, after the events of a log.
meaning(p, env, events) ==
    with(execute(p.body, Replay(env, events)),
         LAMBDA r : IF r.next = "run" THEN becomes(r, "fell") ELSE r)

meant == meaning(program, start, log)

-----------------------------------------------------------------------------
(* What the language leaves out, and a compiler may therefore refuse.       *)

\* The expressions of a tree whose value is used; a comparison that is a
\* condition only counts through its two sides.
RECURSIVE values_in(_)
values_in(n) ==
    LET test == IF is_comparison(n.condition)
                  THEN values_in(n.condition.left) \cup values_in(n.condition.right)
                  ELSE values_in(n.condition)
        all(ss) == UNION {values_in(ss[i]) : i \in DOMAIN ss}
    IN  CASE n.kind \in {"value", "ident"} -> {n}
          [] n.kind = "op"       -> {n} \cup values_in(n.left) \cup values_in(n.right)
          [] n.kind = "fun"      -> {n} \cup all(n.args)
          [] n.kind = "arr"      -> {n} \cup values_in(n.array) \cup values_in(n.index)
          [] n.kind = "stmtexpr" -> values_in(n.stmt)
          [] n.kind = "comp"     -> all(n.stmts)
          [] n.kind \in {"expr", "var", "ret"} -> values_in(n.expr)
          [] n.kind = "if"       -> test \cup all(<<n.thens, n.elses>>)
          [] n.kind = "for"      -> test \cup all(<<n.initial, n.update, n.body>>)
          [] OTHER -> {}

\* A break or continue outside of every loop.
RECURSIVE strays(_)
strays(s) ==
    CASE s.kind \in {"break", "continue"} -> TRUE
      [] s.kind = "comp" -> \E i \in DOMAIN s.stmts : strays(s.stmts[i])
      [] s.kind = "if"   -> strays(s.thens) \/ strays(s.elses)
      [] OTHER -> FALSE

\* A condition made of literals only, in which something is computed.
computed_condition(e) == val(e).thrown

RECURSIVE conditions(_)
conditions(s) ==
    CASE s.kind = "comp" -> UNION {conditions(s.stmts[i]) : i \in DOMAIN s.stmts}
      [] s.kind = "if"   -> {s.condition} \cup conditions(s.thens) \cup conditions(s.elses)
      [] s.kind = "for"  -> conditions(s.body)
      [] OTHER -> {}

variables_of(p) == p.args \cup find_vars(p.body)

unsupported_value(e, p) ==
    CASE e.kind = "ident" -> e.identifier \notin variables_of(p) \cup DOMAIN Constants
      [] e.kind = "op" ->
           \/ e.op \in Comparators
           \/ e.op = "*" /\ "value" \notin {e.left.kind, e.right.kind}
           \/ e.op \in Updaters \cup {"="} /\ e.left.kind # "arr"
                 /\ ~ (e.left.kind = "ident" /\ e.left.identifier \in variables_of(p))
      [] OTHER -> FALSE

Unsupported(p) ==
    \/ \E e \in values_in(p.body) : unsupported_value(e, p)
    \/ \E e \in conditions(p.body) : computed_condition(e)
    \/ strays(p.body)

-----------------------------------------------------------------------------
(* The language as a state machine.                                         *)

answers_to(op) == IF op \in {"OUT", "IASTORE"} THEN {0} ELSE Answers

\* Any function, and any garbage in its variables.
Init ==
    /\ start \in [variables_of(program) -> Word]
    /\ outcome = "source"
    /\ result = 0
    /\ log = << >>

Accept ==
    /\ outcome = "source"
    /\ outcome' = "running"
    /\ UNCHANGED <<program, start, result, log>>

Refuse ==
    /\ outcome = "source"
    /\ Unsupported(program)
    /\ outcome' = "rejected"
    /\ UNCHANGED <<program, start, result, log>>

\* The event the function asks for, with any answer.
Observe ==
    /\ outcome = "running"
    /\ Len(log) < MaxLog
    /\ meant.next = "asks"
    /\ \E a \in answers_to(meant.event.op) :
          log' = Append(log, [op |-> meant.event.op, name |-> meant.event.name,
                              operands |-> meant.event.operands, answer |-> a])
    /\ UNCHANGED <<program, start, outcome, result>>

Finish ==
    /\ outcome = "running"
    /\ meant.next \in {"returned", "halted", "error", "fell"}
    /\ outcome' = meant.next
    /\ result' = IF meant.next = "returned" THEN meant.val ELSE 0
    /\ UNCHANGED <<program, start, log>>

\* Past an unspecified operation anything may happen.
Stray ==
    /\ outcome = "running"
    /\ meant.next = "unspecified"

Next == Accept \/ Refuse \/ Observe \/ Finish \/ Stray

\* The function does not keep its environment waiting: while its meaning goes
\* on, with an event or an end, it gets there.
Spec == Init /\ [][Next]_source_vars /\ WF_source_vars(Observe \/ Finish)

=============================================================================
