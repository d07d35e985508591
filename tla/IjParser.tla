------------------------------ MODULE IjParser ------------------------------
(***************************************************************************)
(* The parser of ij (src/src/frontends/ij/parse.cpp), from the tokens of   *)
(* one or more files to the syntax trees of IjAst.  The sources are the    *)
(* elements of Sources: [files, wanted], where wanted is the program that  *)
(* was written down, or Nothing when the tokens are arbitrary.             *)
(***************************************************************************)
EXTENDS RecursiveDescent

CONSTANTS
    Sources,
    Root        \* the file named on the command line

VARIABLES
    imports,    \* parse_program's sets of names
    constants,
    program,    \* [consts, funcs]
    wanted      \* history: the program the source was written from

vars == <<readVars, imports, constants, program, wanted>>

Nothing == [consts |-> << >>, funcs |-> << >>]

JasStmt(o, a, i) == [kind |-> "jas", op |-> o, arg0 |-> a, iarg0 |-> i]
LabelStmt(n)     == [kind |-> "label", label_name |-> n]

Init ==
    /\ \E s \in Sources : files = s.files /\ wanted = s.wanted
    /\ srcs = add_source(<< >>, Root)
    /\ cache = << >>
    /\ todo = <<Call("toplevel")>>
    /\ built = << >>
    /\ phase = "parsing"
    /\ taken = << >>
    /\ imports = {}
    /\ constants = {"main"}
    /\ program = Nothing

-----------------------------------------------------------------------------
(* Expressions.  Each level parses the level above it, then loops over its *)
(* own operators.                                                          *)

LevelOps == <<{"=", "+=", "-=", "&=", "|="}, Comparators, {"&", "|"}, {"+", "-"}, {"*"}>>
Level    == [k \in DOMAIN LevelOps |-> <<"assign", "compare", "logic", "arit", "mul">>[k]]
level_of(name) == CHOOSE k \in DOMAIN Level : Level[k] = name

\* parse_expr is From(1), parse_compare_expr is From(2), ..
From(k) == <<Call("basic")>> \o [j \in 1 .. 6 - k |-> Call(Level[6 - j])]

parse_expr == From(1)

\* Mutant of more_operators: the right operand takes operators of its own level.
more_operators_Right(k, t) ==
    IF is_next(t, "Operator", LevelOps[k])
    THEN <<Discard>> \o From(k) \o <<MakeOf("op", t.value), Call(Level[k])>>
    ELSE << >>

\* The loop at the end of the k-th level.
more_operators(k, t) ==
    IF is_next(t, "Operator", LevelOps[k])
    THEN <<Discard>> \o From(k + 1) \o <<MakeOf("op", t.value), Call(Level[k])>>
    ELSE << >>

numeric(t) ==
    \/ is_next(t, "Operator", {"-"})
    \/ t.type \in NumberTypes

parse_basic_expr(t) ==
    IF is_next(t, "Operator", {"-"})
    THEN <<Discard, Call("operand"), Call("index"), Make("minus")>>
    ELSE <<Call("operand"), Call("index")>>

\* `$name()` and `$name(e)`: an expression made of statements.
magic == <<Discard, Expect("BracesOpen"), Expect("BracesClose")>>
magic_with(o) ==
    <<Discard, Expect("BracesOpen")>> \o parse_expr
      \o <<MakeOf("pushing", o), Expect("BracesClose")>>

parse_operand(t) ==
    CASE is_next(t, "Keyword", {"$getc"})   -> magic \o <<Push(StmtE(JasStmt("IN", "", 0)))>>
      [] is_next(t, "Keyword", {"$push"})   -> magic_with("DUP")
      [] is_next(t, "Keyword", {"$pop"})    -> magic \o <<Push(StmtE(Comp(<< >>)))>>
      [] is_next(t, "Keyword", {"$malloc"}) -> magic_with("NEWARRAY")
      [] t.type = "BracesOpen" -> <<Discard>> \o parse_expr \o <<Expect("BracesClose")>>
      [] numeric(t)            -> parse_value(t, INT32_MIN, INT32_MAX)
      [] t.type = "Identifier" -> <<parse_identifier, Call("ident")>>
      [] OTHER -> <<Fail>>

parse_ident_expr(t) ==
    IF t.type = "BracesOpen"
    THEN <<Discard, Make("fun"), Call("args"), Expect("BracesClose")>>
    ELSE << >>

parse_fcall_args(t) ==
    IF t.type = "BracesClose" THEN << >> ELSE parse_expr \o <<Make("arg"), Call("more_args")>>

more_args(t) ==
    IF t.type = "Comma"
    THEN <<Discard>> \o parse_expr \o <<Make("arg"), Call("more_args")>>
    ELSE << >>

more_indices(t) ==
    IF t.type = "BlockOpen"
    THEN <<Discard>> \o parse_expr \o <<Make("arr"), Expect("BlockClose"), Call("index")>>
    ELSE << >>

-----------------------------------------------------------------------------
(* Statements.                                                             *)

parse_compound_stmt(t) ==
    IF t.type = "CurlyOpen"
    THEN <<Discard, Push(Comp(<< >>)), Call("stmts")>>
    ELSE <<Push(Comp(<< >>)), Call("statement"), Make("item")>>

\* A semicolon is left where it is: the loop goes round without an end.
parse_stmts(t) ==
    CASE t.type = "CurlyClose" -> <<Discard>>
      [] t.type = "SemiColon"  -> <<Call("stmts")>>
      [] OTHER -> <<Call("statement"), Make("item"), Call("stmts")>>

parse_var_stmt == <<Discard, parse_identifier, Call("var_init")>>

parse_var_init(t) ==
    IF is_next(t, "Operator", {"="})
    THEN <<Discard>> \o parse_expr \o <<Make("var")>>
    ELSE <<Push(Val(0)), Make("var")>>

parse_expr_stmt(pop) == parse_expr \o <<MakeOf("expr", pop)>>

out(c) == <<JasStmt("BIPUSH", "", c), JasStmt("OUT", "", 0)>>

\* The statements that write the characters of a string.
printed(cs) == Comp(FlattenSeq([i \in DOMAIN cs |-> out(cs[i])]))

parse_magic_print(string) ==
    <<Discard, Expect("BracesOpen"), Call(string), Expect("BracesClose")>>

parse_string(newline, t) ==
    IF t.type = "StringLiteral"
    THEN <<Discard, Push(printed(t.chars \o newline))>>
    ELSE <<Fail>>

parse_stop(op) == magic \o <<Push(JasStmt(op, "", 0))>>

parse_magic_putc ==
    <<Discard, Expect("BracesOpen")>> \o parse_expr_stmt(FALSE)
      \o <<Make("putc"), Expect("BracesClose")>>

parse_magic_push ==
    <<Discard, Expect("BracesOpen")>> \o parse_expr_stmt(FALSE) \o <<Expect("BracesClose")>>

\* The kinds of statement that a semicolon ends.
parse_simple(t) ==
    CASE is_next(t, "Keyword", {"var"})    -> parse_var_stmt
      [] is_next(t, "Keyword", {"return"}) -> <<Discard>> \o parse_expr \o <<Make("ret")>>
      [] is_next(t, "Keyword", {"$print"}) -> parse_magic_print("string")
      [] is_next(t, "Keyword", {"$puts"})  -> parse_magic_print("line")
      [] is_next(t, "Keyword", {"$halt"})  -> parse_stop("HALT")
      [] is_next(t, "Keyword", {"$err"})   -> parse_stop("ERR")
      [] is_next(t, "Keyword", {"$putc"})  -> parse_magic_putc
      [] is_next(t, "Keyword", {"$push"})  -> parse_magic_push
      [] OTHER -> parse_expr_stmt(TRUE)

parse_for_stmt ==
    <<Discard, Expect("BracesOpen"), Call("for_init"), Expect("SemiColon"),
      Call("for_condition"), Expect("SemiColon"), Call("for_update"),
      Expect("BracesClose"), Call("compound"), Make("for")>>

for_init(t) ==
    CASE is_next(t, "Keyword", {"var"}) -> parse_var_stmt
      [] t.type = "SemiColon" -> <<Push(nullptr)>>
      [] OTHER -> parse_expr_stmt(TRUE)

\* A condition or an update, which may be left out.
unless(ty, t) == IF t.type = ty THEN <<Push(nullptr)>> ELSE parse_expr

parse_while_stmt ==
    <<Discard, Expect("BracesOpen"), Push(nullptr), Call("while_condition"),
      Expect("BracesClose"), Push(nullptr), Call("compound"), Make("for")>>

parse_if_stmt ==
    <<Discard, Expect("BracesOpen")>> \o parse_expr
      \o <<Expect("BracesClose"), Call("compound"), Call("else"), Make("if")>>

parse_else(t) ==
    IF is_next(t, "Keyword", {"else"})
    THEN <<Discard, Call("compound")>>
    ELSE <<Push(Comp(<< >>))>>

parse_statement(t) ==
    CASE is_next(t, "Keyword", {"for"})      -> parse_for_stmt
      [] is_next(t, "Keyword", {"while"})    -> parse_while_stmt
      [] is_next(t, "Keyword", {"if"})       -> parse_if_stmt
      [] is_next(t, "Keyword", {"break"})    -> <<Discard, Expect("SemiColon"), Push(Break)>>
      [] is_next(t, "Keyword", {"continue"}) -> <<Discard, Expect("SemiColon"), Push(Continue)>>
      [] OTHER -> parse_simple(t) \o <<Expect("SemiColon")>>

-----------------------------------------------------------------------------
(* Functions written in jas.                                               *)

VarOps   == {"ILOAD", "ISTORE", "IINC"}
ImmOps   == {"IINC", "BIPUSH"}
LabelOps == {"GOTO", "IFEQ", "IFLT", "ICMPEQ", "IF_ICMPEQ"}
NameOps  == VarOps \cup LabelOps \cup {"LDC_W", "INVOKEVIRTUAL"}
PlainOps == {"DUP", "ERR", "HALT", "IADD", "IAND", "IN", "IOR", "IRETURN", "ISUB", "NOP",
             "OUT", "POP", "SWAP", "WIDE", "NEWARRAY", "IALOAD", "IASTORE", "NETBIND",
             "NETCONNECT", "NETIN", "NETOUT", "NETCLOSE", "SHL", "SHR", "IMUL", "IDIV"}
jas_type_mapping == NameOps \cup ImmOps \cup PlainOps

parse_label_stmt == <<Discard, Take, Expect("Colon"), Make("label")>>

parse_jas_stmt(t) ==
    IF t.type = "Identifier" /\ t.value \in jas_type_mapping
    THEN <<Discard, Push(JasStmt(t.value, "", 0))>>
           \o (IF t.value \in NameOps THEN <<parse_identifier, Make("arg0")>> ELSE << >>)
           \o (IF t.value \in ImmOps THEN <<Call("immediate"), Make("iarg0")>> ELSE << >>)
    ELSE <<Fail>>

\* Mutant of parse_jas_block: a semicolon is left where it is, as elsewhere.
parse_jas_block_Spins(t) ==
    CASE t.type = "CurlyClose" -> <<Discard>>
      [] t.type = "SemiColon"  -> <<Call("jas_stmts")>>
      [] is_next(t, "Keyword", {"var"})   -> parse_var_stmt \o <<Make("item"), Call("jas_stmts")>>
      [] is_next(t, "Keyword", {"label"}) -> parse_label_stmt \o <<Make("item"), Call("jas_stmts")>>
      [] OTHER -> parse_jas_stmt(t) \o <<Make("item"), Call("jas_stmts")>>

parse_jas_block(t) ==
    CASE t.type = "CurlyClose" -> <<Discard>>
      [] t.type = "SemiColon"  -> <<Discard, Call("jas_stmts")>>
      [] is_next(t, "Keyword", {"var"})   -> parse_var_stmt \o <<Make("item"), Call("jas_stmts")>>
      [] is_next(t, "Keyword", {"label"}) -> parse_label_stmt \o <<Make("item"), Call("jas_stmts")>>
      [] OTHER -> parse_jas_stmt(t) \o <<Make("item"), Call("jas_stmts")>>

parse_body(t) ==
    IF is_next(t, "Keyword", {"jas"})
    THEN <<Discard, Expect("CurlyOpen"), Push(Comp(<< >>)), Call("jas_stmts")>>
    ELSE <<Call("compound")>>

-----------------------------------------------------------------------------
(* Declarations.                                                           *)

parse_identifier_list(t) ==
    IF t.type = "Identifier"
    THEN <<parse_identifier, Make("item"), Call("more_names")>>
    ELSE <<Call("more_names")>>

more_names(t) ==
    IF t.type = "Comma"
    THEN <<Discard, parse_identifier, Make("item"), Call("more_names")>>
    ELSE << >>

parse_function ==
    <<Discard, parse_identifier, Expect("BracesOpen"), Push(Comp(<< >>)), Call("names"),
      Expect("BracesClose"), Call("body"), Make("function")>>

parse_constant ==
    <<Discard, parse_identifier, ExpectOne("Operator", "="), Call("constant_value"),
      Expect("SemiColon"), Make("constant")>>

parse_toplevel(t) ==
    CASE is_next(t, "Keyword", {"import"})   -> <<Discard, Take, Make("import"), Call("toplevel")>>
      [] is_next(t, "Keyword", {"constant"}) -> parse_constant \o <<Call("toplevel")>>
      [] is_next(t, "Keyword", {"function"}) -> parse_function \o <<Call("toplevel")>>
      [] OTHER -> <<Fail>>

Rule(r, t) ==
    CASE r = "toplevel"  -> parse_toplevel(t)
      [] r = "names"     -> parse_identifier_list(t)
      [] r = "more_names" -> more_names(t)
      [] r = "body"      -> parse_body(t)
      [] r = "jas_stmts" -> parse_jas_block(t)
      [] r = "compound"  -> parse_compound_stmt(t)
      [] r = "stmts"     -> parse_stmts(t)
      [] r = "statement" -> parse_statement(t)
      [] r = "var_init"  -> parse_var_init(t)
      [] r = "string"    -> parse_string(<< >>, t)
      [] r = "line"      -> parse_string(<<10>>, t)
      [] r = "for_init"  -> for_init(t)
      [] r = "else"      -> parse_else(t)
      [] r = "basic"     -> parse_basic_expr(t)
      [] r = "operand"   -> parse_operand(t)
      [] r = "index"     -> more_indices(t)
      [] r = "ident"     -> parse_ident_expr(t)
      [] r = "args"      -> parse_fcall_args(t)
      [] r = "more_args" -> more_args(t)
      [] r = "for_condition"   -> unless("SemiColon", t)
      [] r \in {"for_update", "while_condition"} -> unless("BracesClose", t)
      [] r = "immediate"       -> parse_value(t, I8_MIN, I8_MAX)
      [] r = "constant_value"  -> parse_value(t, INT32_MIN, INT32_MAX)
      [] OTHER -> more_operators(level_of(r), t)

-----------------------------------------------------------------------------
(* What the constructors make of the things that were built.               *)

negated(e) == IF e.kind = "value" THEN Val(i32(-e.value)) ELSE Op("-", Val(0), e)

\* Mutant of push_back: the last statement replaces the others.
push_back_Last(block, s) == Comp(<<s>>)

push_back(block, s) == Comp(Append(block.stmts, s))

MakeTree ==
    /\ phase = "parsing" /\ Head(todo).do = "make"
    /\ LET what == Head(todo).a
           with == Head(todo).b
       IN  \/ what = "op"    /\ Becomes(2, Op(with, top(2), top(1)))
           \/ what = "minus" /\ Becomes(1, negated(top(1)))
           \/ what = "negative" /\ Becomes(1, Val(i32(-top(1).value)))
           \/ what = "item"  /\ Becomes(2, push_back(top(2), top(1)))
           \/ what = "fun"   /\ Becomes(1, Fun(top(1).identifier, << >>))
           \/ what = "arg"   /\ Becomes(2, Fun(top(2).fname, Append(top(2).args, top(1))))
           \/ what = "arr"   /\ Becomes(2, Arr(top(2), top(1)))
           \/ what = "pushing" /\ Becomes(1, StmtE(Comp(<<ExprS(top(1), FALSE), JasStmt(with, "", 0)>>)))
           \/ what = "var"   /\ Becomes(2, Var(top(2).identifier, top(1)))
           \/ what = "ret"   /\ Becomes(1, Ret(top(1)))
           \/ what = "expr"  /\ Becomes(1, ExprS(top(1), with))
           \/ what = "putc"  /\ Becomes(1, Comp(<<top(1), JasStmt("OUT", "", 0)>>))
           \/ what = "for"   /\ Becomes(4, For(top(4), top(3), top(2), top(1)))
           \/ what = "if"    /\ Becomes(3, If(top(3), top(2), top(1)))
           \/ what = "label" /\ Becomes(1, LabelStmt(top(1).identifier))
           \/ what = "arg0"  /\ Becomes(2, [top(2) EXCEPT !.arg0 = top(1).identifier])
           \/ what = "iarg0" /\ Becomes(2, [top(2) EXCEPT !.iarg0 = top(1).value])
    /\ UNCHANGED <<imports, constants, program, wanted>>

\* Everything else about the state when a declaration is complete.
Declared(k) ==
    /\ built' = SubSeq(built, 1, Len(built) - k)
    /\ todo' = Tail(todo)
    /\ UNCHANGED <<files, cache, taken, wanted>>

making(what) == phase = "parsing" /\ Head(todo).do = "make" /\ Head(todo).a = what

\* Mutant of add_import: a file is read every time it is imported.
add_import_Always(f) ==
    /\ imports' = imports \cup {f}
    /\ srcs' = add_source(srcs, f)

\* A file is read the first time it is imported, in front of what is left.
add_import(f) ==
    /\ imports' = imports \cup {f}
    /\ srcs' = IF f \in imports THEN srcs ELSE add_source(srcs, f)

DeclareImport ==
    /\ making("import")
    /\ IF top(1).identifier \in DOMAIN files
       THEN Declared(1) /\ add_import(top(1).identifier) /\ UNCHANGED <<phase, constants, program>>
       ELSE Throw /\ UNCHANGED <<imports, constants, program, wanted>>

DeclareConstant ==
    /\ making("constant")
    /\ IF top(2).identifier \notin constants
       THEN /\ Declared(2)
            /\ constants' = constants \cup {top(2).identifier}
            /\ program' = [program EXCEPT !.consts =
                  Append(@, [name |-> top(2).identifier, value |-> top(1).value])]
            /\ UNCHANGED <<srcs, phase, imports>>
       ELSE Throw /\ UNCHANGED <<imports, constants, program, wanted>>

DeclareFunction ==
    /\ making("function")
    /\ IF top(3).identifier \notin constants
       THEN /\ Declared(3)
            /\ program' = [program EXCEPT !.funcs =
                  Append(@, [name  |-> top(3).identifier,
                             args  |-> [i \in DOMAIN top(2).stmts |-> top(2).stmts[i].identifier],
                             stmts |-> top(1)])]
            /\ UNCHANGED <<srcs, phase, imports, constants>>
       ELSE Throw /\ UNCHANGED <<imports, constants, program, wanted>>

-----------------------------------------------------------------------------

Read ==
    /\ ReadToken \/ OutOfTokens \/ Descend(Rule) \/ Consume \/ Refuse \/ Keep
    /\ UNCHANGED <<imports, constants, program, wanted>>

Next == Read \/ MakeTree \/ DeclareImport \/ DeclareConstant \/ DeclareFunction

\* The parser is a single thread that goes on.
Fairness == WF_vars(Next)

Spec == Init /\ [][Next]_vars /\ Fairness

-----------------------------------------------------------------------------
(* Correctness.                                                            *)

\* parse_if_stmt looks for an else where the last file has ended.
IfAtTheEnd == cache = << >> /\ Head(todo).do = "call" /\ Head(todo).a = "else"

\* A program that was written down (IjSyntax) is not refused, and what the
\* parser makes of it is that program: the same tree for every statement and
\* expression, and the smallest number too, however much of its spelling was
\* left out.  (It is refused when a function without braces ends in an if
\* without else, and the text with it.)
TreeIsProgram ==
    wanted # Nothing =>
        /\ phase = "error" => IfAtTheEnd
        /\ phase = "done" => program = wanted

\* The files that are open are the one the parser began with, and on top of it
\* imported ones, none of them twice.
NestedOnce ==
    \A i \in DOMAIN srcs :
        /\ i = 1 => srcs[i].name = Root
        /\ i > 1 => srcs[i].name \in imports
        /\ \A j \in DOMAIN srcs : 1 < i /\ i < j => srcs[i].name # srcs[j].name

\* Between two declarations nothing is half-built.
Settled == Head(todo).do = "call" /\ Head(todo).a = "toplevel" => Len(todo) = 1 /\ built = << >>

-----------------------------------------------------------------------------
\* The loop over a statement list in front of a semicolon it does not take.
Spinning ==
    /\ phase = "parsing" /\ cache = <<SemiColon>>
    /\ Head(todo).do = "call" /\ Head(todo).a = "stmts"

\* The parser comes to an end, cyclic imports and errors included; only an
\* empty statement in braces keeps it going for ever.
Termination == <>(phase # "parsing" \/ Spinning)

=============================================================================
