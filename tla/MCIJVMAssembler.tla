-------------------------- MODULE MCIJVMAssembler --------------------------
(***************************************************************************)
(* A small instance of IJVMAssembler.  A byte has four values: BIPUSH      *)
(* holds -2..1, a displacement -8..7 and the fifth variable is wide, so    *)
(* every width is met and exceeded by a few calls.                         *)
(***************************************************************************)
EXTENDS IJVMAssembler

MCConstNames == {<<"c">>}
MCFuncNames == {"main", "f", "g"}
MCVarNames == {"OBJREF", "a", "b"}
MCLabels == {"l"}

\* f has a wide variable, main has none at all.
MCSignatures ==
    {[name |-> "main", args |-> << >>, vars |-> << >>],
     [name |-> "f", args |-> <<"a", "a", "a">>, vars |-> <<"b">>],
     [name |-> "g", args |-> << >>, vars |-> << >>]}

MCValues == {-3, -1, 3}

\* Up to so many calls are of any kind; more of them are of the kinds that
\* link cares for, and declare or push what BIPUSH cannot hold.
AnyCalls == 3

Linking(c) == c.op \in {"function", "label", "GOTO", "LDC_W", "INVOKEVIRTUAL"}

Vocabulary ==
    \/ Len(text) <= AnyCalls
    \/ /\ \A i \in DOMAIN text : Linking(text[i])
       /\ \A c \in DOMAIN constant_map : constant_map[c] \notin MinI8 .. MaxI8

=============================================================================
