---------------------------- MODULE TreeShaking ----------------------------
(***************************************************************************)
(* What pruning promises, whatever algorithm does it: a program is loaded, *)
(* and then in one step either it is refused, because a function that the  *)
(* entry point can reach is not defined, or the functions the entry point  *)
(* cannot reach disappear together with constants that nothing left needs. *)
(***************************************************************************)
EXTENDS CallGraph

VARIABLES
    funcs,    \* the functions of the program
    consts,   \* the names of its constants
    status    \* "waiting", "loaded", "shaken" or "refused"

vars == <<funcs, consts, status>>

Init ==
    /\ status = "waiting"
    /\ funcs = << >>
    /\ consts = << >>

\* The program arrives whole, its entry point first.
Load ==
    /\ status = "waiting"
    /\ status' = "loaded"
    /\ funcs' # << >>
    /\ funcs'[1].name = Main

Shake ==
    /\ status = "loaded"
    /\ status' = "shaken"
    /\ NeededFunctions(funcs) \subseteq Names(funcs)
    /\ ToSet(funcs') = {f \in ToSet(funcs) : f.name \in NeededFunctions(funcs)}
    /\ ToSet(consts') \subseteq ToSet(consts)
    /\ NeededConstants(funcs) \cap ToSet(consts) \subseteq ToSet(consts')

Refuse ==
    /\ status = "loaded"
    /\ status' = "refused"
    /\ ~ (NeededFunctions(funcs) \subseteq Names(funcs))
    /\ UNCHANGED <<funcs, consts>>

Next == Load \/ Shake \/ Refuse

Spec == Init /\ [][Next]_vars

=============================================================================
