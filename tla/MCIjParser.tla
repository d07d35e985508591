----------------------------- MODULE MCIjParser -----------------------------
(***************************************************************************)
(* A small instance of IjParser: programs in both spellings, imports that  *)
(* meet each other, and arbitrary tokens.                                  *)
(***************************************************************************)
EXTENDS IjText, IjSyntax, TLC

Func(n, as, ss) == [name |-> n, args |-> as, stmts |-> Comp(ss)]

-----------------------------------------------------------------------------
(* Written programs.                                                       *)

a == Ident("a")
b == Ident("b")
c == Ident("c")

Ops == {"=", "-=", "!=", "&", "|", "+", "-", "*"}

TwoOps ==
    {Op(o, Op(p, a, b), Val(2)) : o \in Ops, p \in Ops}
      \cup {Op(o, a, Op(p, Val(2), c)) : o \in Ops, p \in Ops}

Minus(e) == Op("-", Val(0), e)

Push1(e, o) == StmtE(Comp(<<ExprS(e, FALSE), JasStmt(o, "", 0)>>))

Basics ==
    {Val(-2), Val(0), Val(INT32_MIN), Val(INT32_MAX), Op("-", Val(0), Val(1)),
     Minus(a), Minus(Minus(a)), Minus(Val(-1)),
     Minus(Op("*", a, b)), Op("*", Minus(a), b), Op("-", a, Minus(b)), Op("-", a, Val(-1)),
     Arr(Arr(a, Val(1)), b), Arr(Val(-1), b), Arr(Op("+", a, b), Minus(c)), Minus(Arr(a, b)),
     Arr(Minus(a), b), Fun("f", << >>), Fun("f", <<a>>), Fun("f", <<Op("=", a, b), Val(-1), c>>),
     Arr(Fun("f", <<Fun("g", <<a>>)>>), Val(0)), Op("=", Arr(a, Val(0)), b),
     StmtE(JasStmt("IN", "", 0)), StmtE(Comp(<< >>)), Push1(Op("+", a, b), "DUP"),
     Push1(a, "NEWARRAY"), Minus(StmtE(Comp(<< >>))), Arr(Push1(a, "NEWARRAY"), Val(1))}

Set  == ExprS(Op("=", a, b), TRUE)
Out  == ExprS(Fun("f", <<a>>), TRUE)
none == Comp(<< >>)

Simple ==
    {Set, Out, Var("a", Val(0)), Var("a", Op("=", b, c)), Ret(a), Break, Continue,
     ExprS(Op("-", a, b), FALSE), JasStmt("HALT", "", 0), JasStmt("ERR", "", 0),
     Comp(<<ExprS(a, FALSE), JasStmt("OUT", "", 0)>>), printed(<< >>), printed(<<104, 105>>),
     printed(<<104, 10>>), printed(<<10>>)}

Loops(ss) ==
    {For(i, k, u, Comp(ss)) : i \in {nullptr, Var("a", Val(0)), Set}, k \in {nullptr, a},
                              u \in {nullptr, Op("+=", a, Val(1))}}

Ifs(ss) == {If(a, Comp(ss), none), If(a, Comp(ss), Comp(<<Out>>)), If(a, none, Comp(ss))}

Compound1 == UNION {Loops(<<s>>) \cup Ifs(<<s>>) : s \in {Set, Break}}
Nested ==
    UNION {Loops(<<s>>) : s \in Ifs(<<Break>>)} \cup UNION {Ifs(<<s>>) : s \in Compound1}
      \cup Ifs(<<Set, Out>>) \cup Ifs(<<If(b, Comp(<<If(c, Comp(<<Set>>), none)>>), none)>>)

JasLines ==
    <<Var("x", Val(0)), LabelStmt("l"), JasStmt("BIPUSH", "", -3), JasStmt("IINC", "x", 2),
      JasStmt("ILOAD", "x", 0), JasStmt("IF_ICMPEQ", "l", 0), JasStmt("INVOKEVIRTUAL", "f", 0),
      JasStmt("LDC_W", "k", 0), JasStmt("IRETURN", "", 0)>>

Programs ==
    {[consts |-> << >>, funcs |-> <<Func("f", <<"a">>, <<ExprS(e, TRUE)>>)>>] : e \in TwoOps \cup Basics}
      \cup {[consts |-> << >>, funcs |-> <<Func("f", << >>, <<s>>)>>] :
               s \in Simple \cup Compound1 \cup Nested}
      \cup {[consts |-> <<[name |-> "k", value |-> -4], [name |-> "m", value |-> INT32_MAX],
                          [name |-> "n", value |-> INT32_MIN]>>,
             funcs  |-> <<Func("f", <<"a", "b">>, <<Set, Out, Ret(a)>>), Func("g", << >>, << >>),
                          Func("h", <<"b">>, JasLines)>>]}

WrittenSources ==
    {[files |-> "root" :> ProgramTokens(p, terse), wanted |-> p] : p \in Programs, terse \in BOOLEAN}

-----------------------------------------------------------------------------
(* Imports.                                                                *)

Import(f) == <<Keyword("import"), String(f, << >>)>>
Define(n) == <<Keyword("function"), Identifier(n), BracesOpen, BracesClose, CurlyOpen, CurlyClose>>
Constant(n) == <<Keyword("constant"), Identifier(n), Operator("="), Decimal(1), SemiColon>>

\* A function without its end, and an import without its name.
Cut      == <<Keyword("function"), Identifier("cut"), BracesOpen>>
Rest     == <<BracesClose, CurlyOpen, CurlyClose>>
HalfImport == <<Keyword("import")>>

Items == {Import("root"), Import("x"), Import("y"), Import("none"), Define("k"), Constant("k")}
Texts(n) == {FlattenSeq(ts) : ts \in BoundedSeq(Items, n)}

ImportSources ==
    {[files |-> "root" :> r \o <<Nl>> @@ "x" :> x @@ "y" :> y, wanted |-> Nothing] :
        r \in Texts(2), x \in Texts(1) \cup {Cut, HalfImport, <<Nl>>} \cup {Import("y") \o Define("g")},
        y \in Texts(1)}
    \cup {[files |-> "root" :> r @@ "x" :> Cut, wanted |-> Nothing] :
             r \in {Import("x") \o Rest, Import("x") \o Import("x") \o Rest}}

-----------------------------------------------------------------------------
(* Arbitrary tokens inside a function.                                     *)

Alphabet ==
    {Identifier("a"), Decimal(1), Decimal(LONG_MAX + 1), UnknownEscape,
     Operator("-"), Operator("="), Operator("*="), BracesOpen, BracesClose,
     BlockOpen, BlockClose, Comma, SemiColon, CurlyOpen, CurlyClose,
     Keyword("if"), Keyword("else"), Keyword("return"), Keyword("var"), Keyword("for")}

ArbitrarySources ==
    {[files |-> "root" :> <<Keyword("function"), Identifier("f"), BracesOpen, BracesClose, CurlyOpen>>
                            \o ts \o <<CurlyClose>>,
      wanted |-> Nothing] : ts \in BoundedSeq(Alphabet, 3)}

MCSources == WrittenSources \cup ImportSources \cup ArbitrarySources

=============================================================================
