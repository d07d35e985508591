----------------------------- MODULE MCX64Calls -----------------------------
(***************************************************************************)
(* A small instance of X64Calls: main without variables, f with two        *)
(* arguments, g with a variable that is declared twice.  Three frames hold *)
(* a call from main, a call from a method and a recursive call.            *)
(***************************************************************************)
EXTENDS X64Calls, TLC

MCFunctions ==
    "main" :> [args |-> << >>, vars |-> << >>] @@
    "f"    :> [args |-> <<"a", "b">>, vars |-> << >>] @@
    "g"    :> [args |-> << >>, vars |-> <<"i", "i">>]

MCIdentifiers == {"a", "b", "i"}

MCNumbers == 1 .. 2
MCSites   == {1}

=============================================================================
