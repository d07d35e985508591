---------------------------- MODULE MCIjMachine ----------------------------
(***************************************************************************)
(* Small families of ij functions for IjMachine: a parameter x, a variable *)
(* y, a constant K and a function f of one argument.                       *)
(***************************************************************************)
EXTENDS IjMachine

MCConstants == [n \in {"K"} |-> 1]
MCArity     == [n \in {"f"} |-> 1]

MCAnswers   == {-5, 3}
AnyWord     == Word
FewInputs   == {-2, 0, 1}
MCGarbage   == {5}

X == Ident("x")
Y == Ident("y")
K == Ident("K")

Function(ss) == [args |-> {"x"}, body |-> Comp(ss)]
Block(s)     == Comp(<<s>>)
Do(e)        == ExprS(e, TRUE)
Empty        == Comp(<< >>)

\* $getc(), $putc(e), $malloc(e), $halt(), $err().
Getc      == StmtE(Jas("IN"))
Putc(e)   == Comp(<<ExprS(e, FALSE), Jas("OUT")>>)
Malloc(e) == StmtE(Comp(<<ExprS(e, FALSE), Jas("NEWARRAY")>>))
Halt      == Jas("HALT")
Err       == Jas("ERR")

While(c, b) == For(nullptr, c, nullptr, b)

-----------------------------------------------------------------------------
(* Control flow: loops around branches, early exits in every branch.       *)

Exits   == {Break, Continue, Ret(Y), Halt}
Simple  == {Putc(Y), Do(Op("+=", Y, Val(1))), Do(Fun("f", <<X>>))}
Tests   == {X, Op("<", Y, Val(1)), Op("==", X, Y)}
Branches ==
    {If(c, Block(t), Empty) : c \in Tests, t \in Exits} \cup
    {If(X, Block(t), Block(e)) : t \in Exits, e \in Simple \cup {Break}} \cup
    {If(X, Block(While(Y, Block(Break))), Block(Putc(K)))} \cup
    {If(X, Block(Halt), Block(If(Y, Block(t), Block(e)))) : t \in Exits, e \in Simple}

Loops(bodies) ==
    {For(Var("y", Val(0)), Op("<", Y, Val(2)), u, b) :
        u \in {nullptr, Op("+=", Y, Val(1))}, b \in bodies} \cup
    {While(c, b) : c \in {nullptr, X}, b \in bodies} \cup
    {For(nullptr, nullptr, Fun("f", <<Y>>), b) : b \in bodies}

Bodies == {Comp(<<b, s>>) : b \in Branches, s \in {Putc(Y), Do(Op("+=", Y, Val(1)))}}

\* An inner loop may be followed by what does not leave the outer one.
Nested == {Comp(<<If(X, Block(Continue), Empty), l, Putc(Y)>>) :
              l \in Loops({Block(If(c, Block(e), Empty)) : c \in {X, Y}, e \in {Break, Continue}})}

ControlPrograms ==
    {Function(<<Var("y", K), l, Ret(Op("+", X, Y))>>) : l \in Loops(Bodies \cup Nested)}

-----------------------------------------------------------------------------
(* Values: every operator on operands of every kind.                       *)

Leaves   == {X, Y, K, Val(3), Val(-2), Getc, Fun("f", <<X>>)}
Sums     == {Op(o, l, r) : o \in Arithmetic, l \in Leaves, r \in Leaves}
Products == {Op("*", X, Val(n)) : n \in Word \ {-(2^(WordBits - 1))}}
              \cup {Op("*", Val(-3), Fun("f", <<Getc>>))}
Deep     == {Op("-", Op("+", X, K), Op("-", Fun("f", <<Op("-", X, Y)>>), Getc)),
             Arr(X, Op("+", Y, Val(1))), Malloc(Y),
             Op("&", Arr(Fun("f", <<X>>), Getc), Val(3))}

\* The target may be an element; its index and array have no effects.
Targets == {Y, Arr(X, K)}
Updates == {Do(Op(o, t, e)) : o \in Updaters \cup {"="}, t \in Targets,
                              e \in {Val(2), Val(-4), Val(5), X, Getc, Op("*", X, Val(3))}}

Choose(c) == If(c, Block(Ret(Val(1))), Block(Err))
Choices ==
    {Choose(Op(o, l, r)) : o \in Comparators, l \in {X, Val(2), Getc},
                           r \in {Y, Fun("f", <<Y>>), Op("-", X, Val(1))}} \cup
    {Choose(Op(o, Val(2), Val(-1))) : o \in Comparators \ {"!="}} \cup
    {If(e, Block(Ret(Val(1))), Empty) : e \in {X, Val(0), Val(2)}}

Refused == {Ret(Op("<", X, Y)), Ret(Ident("z")), Ret(Op("*", X, Y)), Break,
            Do(Op("=", K, X)), Do(Op("+=", Val(1), X)),
            Choose(Op("+", Val(1), Val(1))), Do(Fun("f", <<Op("=", Val(1), X)>>))}

ValuePrograms ==
    {Function(<<Var("y", e), Ret(Y)>>) : e \in Sums \cup Products \cup Deep} \cup
    {Function(<<If(X, Block(Var("y", X)), Empty), u, Ret(Y)>>) : u \in Updates} \cup
    {Function(<<c, Putc(X), Var("y", X)>>) : c \in Choices} \cup
    {Function(<<s>>) : s \in Refused}

-----------------------------------------------------------------------------
(* Where code and documentation part.                                      *)

\* A break behind an inner loop.
BreakPrograms ==
    {Function(<<Var("y", Val(0)),
                While(nullptr, Comp(<<While(Y, Block(Break)), Putc(Y), Break>>)), Ret(Y)>>)}

=============================================================================
