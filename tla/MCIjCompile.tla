---------------------------- MODULE MCIjCompile ----------------------------
(***************************************************************************)
(* A small instance of IjCompile: two user functions and a constant beside *)
(* the two entry points.  The bodies cover direct and mutual recursion,    *)
(* calls through INVOKEVIRTUAL, a constant hidden by a variable and by an  *)
(* argument, an undefined callee, an undeclared name and a call of main.   *)
(***************************************************************************)
EXTENDS IjCompile

MCMain == "main"
MCUserMain == "__main__"
MCObjRef == "__OBJREF__"
MCIdents == {MCMain, MCUserMain, MCObjRef, "f", "g", "c"}

Empty(n) == [name |-> n, args |-> {}, vars |-> {}, invokes |-> << >>,
             calls |-> << >>, ldcs |-> {}, idents |-> {}]

UserMainBodies ==
    LET m == Empty(MCUserMain)
    IN  {[m EXCEPT !.calls = <<"f">>, !.idents = {"c"}],
         [m EXCEPT !.invokes = <<"g">>, !.calls = <<"f">>],
         [m EXCEPT !.ldcs = {"c"}, !.idents = {MCObjRef}]}

FBodies ==
    LET f == Empty("f")
    IN  {[f EXCEPT !.calls = <<"g", "f">>],
         [f EXCEPT !.args = {"c"}, !.idents = {"c"}]}

GBodies ==
    LET g == Empty("g")
    IN  {[g EXCEPT !.calls = <<MCUserMain>>, !.ldcs = {"c"}],
         [g EXCEPT !.vars = {"c"}, !.idents = {"c"}],
         [g EXCEPT !.invokes = <<MCMain>>]}

MCBodies == UserMainBodies \cup FBodies \cup GBodies

\* "f" may be declared as a constant too: then no function f is accepted.
MCConstNames == {"c", "f"}

=============================================================================
