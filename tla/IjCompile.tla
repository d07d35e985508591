----------------------------- MODULE IjCompile -----------------------------
(***************************************************************************)
(* The ij compiler as a pass pipeline (src/src/frontends/ij): the parser   *)
(* accepts declarations, add_main puts the entry point in front, prune     *)
(* walks the call graph from it and sweeps what it did not reach, and      *)
(* ij_compile hands the remaining constants and functions to the           *)
(* assembler, whose link step resolves the calls.                          *)
(*                                                                         *)
(* One action is one iteration of the loop it models.  A body is the       *)
(* record of the names it mentions (see CallGraph).                        *)
(***************************************************************************)
EXTENDS CallGraph

CONSTANTS
    Bodies,      \* the function definitions the input may contain
    ConstNames,  \* the names the input may declare as constants
    ObjRef,      \* "__OBJREF__", the constant every call expression loads
    MaxDecls     \* bound: declarations in the input

ASSUME InputAssumption ==
    /\ Bodies \subseteq FunctionDef
    /\ ConstNames \subseteq Idents
    /\ ObjRef \in Idents
    /\ MaxDecls \in Nat

VARIABLES
    phase,             \* the pass that runs, or how the compiler ended
    funcs,             \* Program::funcs
    consts,            \* Program::consts, the names
    source,            \* history: funcs and consts as prune found them
    todo,              \* prune's stack of functions to visit
    reachable_funcs,   \* prune's set of visited names
    reachable_consts,  \* prune's set of mentioned constants
    it,                \* the iterator of the two sweeps
    known,             \* Assembler::constant_map, the names
    emitted            \* the functions compiled so far, in order

vars == <<phase, funcs, consts, source, todo, reachable_funcs,
          reachable_consts, it, known, emitted>>

Passes  == {"parse", "walk", "sweep_funcs", "sweep_consts", "emit", "link"}
Failed  == {"rejected", "missing", "unresolved", "unlinked"}
Final   == Failed \cup {"linked"}

TypeOK ==
    /\ phase \in Passes \cup Final
    /\ funcs \in Seq(FunctionDef)
    /\ consts \in Seq(Idents)
    /\ source \in [funcs : Seq(FunctionDef), consts : Seq(Idents)]
    /\ todo \in Seq(FunctionDef)
    /\ reachable_funcs \subseteq Idents
    /\ reachable_consts \subseteq Idents
    /\ it \in Nat \ {0}
    /\ known \subseteq Idents
    /\ emitted \in Seq(FunctionDef)

Init ==
    /\ phase = "parse"
    /\ funcs = << >>
    /\ consts = << >>
    /\ source = [funcs |-> << >>, consts |-> << >>]
    /\ todo = << >>
    /\ reachable_funcs = {}
    /\ reachable_consts = {}
    /\ it = 1
    /\ known = {}
    /\ emitted = << >>

-----------------------------------------------------------------------------
(* parse_program: one iteration of its loop per declaration.  `constants`  *)
(* holds "main" and the constants declared so far.                         *)

constants == {Main} \cup ToSet(consts)

ParseConstant(c) ==
    /\ phase = "parse"
    /\ Len(funcs) + Len(consts) < MaxDecls
    /\ IF c \in constants
         THEN phase' = "rejected" /\ UNCHANGED consts
         ELSE consts' = Append(consts, c) /\ UNCHANGED phase
    /\ UNCHANGED <<funcs, source, todo, reachable_funcs, reachable_consts,
                   it, known, emitted>>

ParseFunction(f) ==
    /\ phase = "parse"
    /\ Len(funcs) + Len(consts) < MaxDecls
    /\ IF f.name \in constants
         THEN phase' = "rejected" /\ UNCHANGED funcs
         ELSE funcs' = Append(funcs, f) /\ UNCHANGED phase
    /\ UNCHANGED <<consts, source, todo, reachable_funcs, reachable_consts,
                   it, known, emitted>>

\* main() { if (__main__()) { ERR } else { HALT } }
MainFunction ==
    [name |-> Main, args |-> {}, vars |-> {}, invokes |-> << >>,
     calls |-> <<UserMain>>, ldcs |-> {}, idents |-> {}]

\* Mutant of add_main: the entry point is appended.
add_main_AtEnd ==
    /\ phase = "parse"
    /\ funcs' = Append(funcs, MainFunction)
    /\ source' = [funcs |-> funcs', consts |-> consts]
    /\ todo' = <<MainFunction>>
    /\ phase' = "walk"
    /\ UNCHANGED <<consts, reachable_funcs, reachable_consts, it, known, emitted>>

add_main ==
    /\ phase = "parse"
    /\ funcs' = <<MainFunction>> \o funcs
    /\ source' = [funcs |-> funcs', consts |-> consts]
    /\ todo' = <<MainFunction>>
    /\ phase' = "walk"
    /\ UNCHANGED <<consts, reachable_funcs, reachable_consts, it, known, emitted>>

-----------------------------------------------------------------------------
(* prune: the walk.                                                        *)

has_function(n) == \E i \in DOMAIN funcs : funcs[i].name = n

\* Mutant of get_function: the last function of that name.
get_function_Last(n) ==
    funcs[CHOOSE i \in DOMAIN funcs :
              /\ funcs[i].name = n
              /\ \A j \in DOMAIN funcs : j > i => funcs[j].name # n]

\* The first function of that name, in declaration order.
get_function(n) ==
    funcs[CHOOSE i \in DOMAIN funcs :
              /\ funcs[i].name = n
              /\ \A j \in DOMAIN funcs : j < i => funcs[j].name # n]

\* Mutant of mentioned: forgets the INVOKEVIRTUAL statements.
mentioned_NoInvokes(f) ==
    [k \in DOMAIN f.calls |-> get_function(f.calls[k])]

\* The functions pushed on todo for the body of f.
mentioned(f) ==
    LET names == f.invokes \o f.calls
    IN  [k \in DOMAIN names |-> get_function(names[k])]

\* Mutant of has_var: a var statement of any function hides the name.
has_var_Anywhere(f, n) == \E i \in DOMAIN funcs : n \in funcs[i].vars

has_var(f, n) == n \in f.vars

\* reachable_consts.insert: what the body of f mentions and no var hides.
mentioned_consts(f) == f.ldcs \cup {n \in f.idents : ~ has_var(f, n)}

\* Mutants of reached: marked when pushed; assigned instead of inserted.
reached_OnPush(f) == reachable_funcs \cup {f.name} \cup Callees(f)

reached_Assigned(f) == {f.name}

\* reachable_funcs.insert
reached(f) == reachable_funcs \cup {f.name}

\* Mutant of SkipVisited: continues without taking the function off.
SkipVisited_NoPop ==
    /\ phase = "walk"
    /\ todo # << >>
    /\ Last(todo).name \in reachable_funcs
    /\ UNCHANGED vars

\* A function that was reached before: only taken off the stack.
SkipVisited ==
    /\ phase = "walk"
    /\ todo # << >>
    /\ Last(todo).name \in reachable_funcs
    /\ todo' = Front(todo)
    /\ UNCHANGED <<phase, funcs, consts, source, reachable_funcs,
                   reachable_consts, it, known, emitted>>

\* log.panic: the body names a function the program does not define.
VisitMissing ==
    /\ phase = "walk"
    /\ todo # << >>
    /\ Last(todo).name \notin reachable_funcs
    /\ \E n \in Callees(Last(todo)) : ~ has_function(n)
    /\ phase' = "missing"
    /\ UNCHANGED <<funcs, consts, source, todo, reachable_funcs,
                   reachable_consts, it, known, emitted>>

Visit ==
    /\ phase = "walk"
    /\ todo # << >>
    /\ LET f == Last(todo)
       IN  /\ f.name \notin reachable_funcs
           /\ \A n \in Callees(f) : has_function(n)
           /\ reachable_funcs' = reached(f)
           /\ todo' = Front(todo) \o mentioned(f)
           /\ reachable_consts' = reachable_consts \cup mentioned_consts(f)
    /\ UNCHANGED <<phase, funcs, consts, source, it, known, emitted>>

WalkDone ==
    /\ phase = "walk"
    /\ todo = << >>
    /\ phase' = "sweep_funcs"
    /\ UNCHANGED <<funcs, consts, source, todo, reachable_funcs,
                   reachable_consts, it, known, emitted>>

-----------------------------------------------------------------------------
(* prune: the sweeps, which erase from the vector they iterate over.       *)

\* Mutants of SweepFunction: steps over the element behind an erased one;
\* erases by moving the last element into the gap.
SweepFunction_SkipsNext ==
    /\ phase = "sweep_funcs"
    /\ it <= Len(funcs)
    /\ it' = it + 1
    /\ funcs' = IF funcs[it].name \in reachable_funcs THEN funcs ELSE RemoveAt(funcs, it)
    /\ UNCHANGED <<phase, consts, source, todo, reachable_funcs,
                   reachable_consts, known, emitted>>

SweepFunction_SwapsLast ==
    /\ phase = "sweep_funcs"
    /\ it <= Len(funcs)
    /\ IF funcs[it].name \in reachable_funcs
         THEN it' = it + 1 /\ UNCHANGED funcs
         ELSE funcs' = Front(ReplaceAt(funcs, it, Last(funcs))) /\ UNCHANGED it
    /\ UNCHANGED <<phase, consts, source, todo, reachable_funcs,
                   reachable_consts, known, emitted>>

SweepFunction ==
    /\ phase = "sweep_funcs"
    /\ it <= Len(funcs)
    /\ IF funcs[it].name \in reachable_funcs
         THEN it' = it + 1 /\ UNCHANGED funcs
         ELSE funcs' = RemoveAt(funcs, it) /\ UNCHANGED it
    /\ UNCHANGED <<phase, consts, source, todo, reachable_funcs,
                   reachable_consts, known, emitted>>

SweepFunctionsDone ==
    /\ phase = "sweep_funcs"
    /\ it > Len(funcs)
    /\ it' = 1
    /\ phase' = "sweep_consts"
    /\ UNCHANGED <<funcs, consts, source, todo, reachable_funcs,
                   reachable_consts, known, emitted>>

\* Mutant of SweepConstant: steps back after it erased.
SweepConstant_StepsBack ==
    /\ phase = "sweep_consts"
    /\ it <= Len(consts)
    /\ IF consts[it] \in reachable_consts
         THEN it' = it + 1 /\ UNCHANGED consts
         ELSE it' = it - 1 /\ consts' = RemoveAt(consts, it)
    /\ UNCHANGED <<phase, funcs, source, todo, reachable_funcs,
                   reachable_consts, known, emitted>>

SweepConstant ==
    /\ phase = "sweep_consts"
    /\ it <= Len(consts)
    /\ IF consts[it] \in reachable_consts
         THEN it' = it + 1 /\ UNCHANGED consts
         ELSE consts' = RemoveAt(consts, it) /\ UNCHANGED it
    /\ UNCHANGED <<phase, funcs, source, todo, reachable_funcs,
                   reachable_consts, known, emitted>>

\* prune returns and ij_compile hands every remaining constant over.
EmitConstants ==
    /\ phase = "sweep_consts"
    /\ it > Len(consts)
    /\ known' = known \cup ToSet(consts)
    /\ phase' = "emit"
    /\ UNCHANGED <<funcs, consts, source, todo, reachable_funcs,
                   reachable_consts, it, emitted>>

-----------------------------------------------------------------------------
(* ij_compile: one function after the other goes to the assembler.         *)

is_var(f, n) == n \in f.args \cup f.vars

\* A call expression declares __OBJREF__ on its first use.
known_after(f) == known \cup (IF f.calls = << >> THEN {} ELSE {ObjRef})

\* IdentExpr::compile and LDC_W look a name up; without one they throw.
resolves(f) ==
    \A n \in f.ldcs \cup {m \in f.idents : ~ is_var(f, m)} : n \in known_after(f)

EmitFunction ==
    /\ phase = "emit"
    /\ Len(emitted) < Len(funcs)
    /\ LET f == funcs[Len(emitted) + 1]
       IN  /\ known' = known_after(f)
           /\ IF resolves(f)
                THEN emitted' = Append(emitted, f) /\ UNCHANGED phase
                ELSE phase' = "unresolved" /\ UNCHANGED emitted
    /\ UNCHANGED <<funcs, consts, source, todo, reachable_funcs,
                   reachable_consts, it>>

EmitDone ==
    /\ phase = "emit"
    /\ Len(emitted) = Len(funcs)
    /\ phase' = "link"
    /\ UNCHANGED <<funcs, consts, source, todo, reachable_funcs,
                   reachable_consts, it, known, emitted>>

\* IJVMAssembler::function gives every function but main an address, and
\* link panics when an INVOKEVIRTUAL names one that has none.
Link ==
    /\ phase = "link"
    /\ phase' = IF \A i \in DOMAIN emitted :
                       Callees(emitted[i]) \subseteq Names(emitted) \ {Main}
                  THEN "linked" ELSE "unlinked"
    /\ UNCHANGED <<funcs, consts, source, todo, reachable_funcs,
                   reachable_consts, it, known, emitted>>

Terminated == phase \in Final /\ UNCHANGED vars

-----------------------------------------------------------------------------

Parse == \/ \E c \in ConstNames : ParseConstant(c)
         \/ \E f \in Bodies : ParseFunction(f)
         \/ add_main

Walk == SkipVisited \/ VisitMissing \/ Visit \/ WalkDone

Sweep == SweepFunction \/ SweepFunctionsDone \/ SweepConstant

Emit == EmitConstants \/ EmitFunction \/ EmitDone \/ Link

Step == Parse \/ Walk \/ Sweep \/ Emit

Next == Step \/ Terminated

Spec == Init /\ [][Next]_vars

\* The compiler is one sequential program: it keeps taking steps.
FairSpec == Spec /\ WF_vars(Step)

-----------------------------------------------------------------------------
(* What the passes promise.  `source` is the program prune started from.   *)

Pruned == phase \in {"emit", "link", "unresolved", "unlinked", "linked"}

\* While prune walks, a visited function's callees are visited or waiting on
\* the stack: nothing that a kept function calls can be forgotten
\* (compile.cpp:29-84).
WalkClosed ==
    phase = "walk" =>
        \A i \in DOMAIN source.funcs :
            (IsFirst(source.funcs, i) /\ source.funcs[i].name \in reachable_funcs) =>
                Callees(source.funcs[i]) \subseteq reachable_funcs \cup Names(todo)

\* After the sweep exactly the functions the entry point can reach are left
\* (compile.cpp:94-106): none that is needed is erased, none that is not
\* stays, although the loop erases from the vector it iterates over.
KeptFunctions ==
    Pruned => Names(funcs) = NeededFunctions(source.funcs)

\* The sweeps keep declaration order: LDC_W indices and the order of the
\* text section follow the source (compile.cpp:94-120).
OrderKept ==
    LET names == NeededFunctions(source.funcs)
    IN  Pruned =>
          /\ Selects(funcs, source.funcs,
                     {i \in DOMAIN source.funcs : source.funcs[i].name \in names})
          /\ Selects(consts, source.consts,
                     {i \in DOMAIN source.consts : source.consts[i] \in reachable_consts})

\* Every declared constant that a reachable function loads survives, under
\* the code generator's scoping (arguments hide constants) and not only
\* under prune's own (var statements hide them) (compile.cpp:56-58,76-79).
KeptConstants ==
    Pruned => NeededConstants(source.funcs) \cap ToSet(source.consts)
                 \subseteq ToSet(consts)

\* Pruning cannot make a program fail to compile: code generation reports
\* an unknown name only when the source leaves one undeclared that a
\* reachable function uses (compile.cpp:242-249, ijvm_assembler.cpp:120-127).
PruneTransparent ==
    (phase = "unresolved" /\ UniqueNames(source.funcs)) =>
        ~ (NeededConstants(source.funcs) \subseteq ToSet(source.consts) \cup {ObjRef})

\* A program that defines each function once and never calls the entry point
\* links: each call that survived has a compiled target
\* (ijvm_assembler.cpp:268-279 never panics).
CallsResolve ==
    (phase = "unlinked" /\ UniqueNames(source.funcs)) =>
        \E i \in DOMAIN funcs : Main \in Callees(funcs[i])

\* A function is visited at most once, whatever cycles the call graph has,
\* and a visit never loses what earlier ones found (compile.cpp:30-37).
VisitOnce ==
    [][reachable_funcs' # reachable_funcs =>
          /\ reachable_funcs \subseteq reachable_funcs'
          /\ \E n \in Idents \ reachable_funcs :
                reachable_funcs' = reachable_funcs \cup {n}
          /\ reachable_consts \subseteq reachable_consts']_vars

\* The pipeline ends on every input, recursive programs included.
Termination == <>(phase \in Final)

\* prune implements TreeShaking: the walk and the sweeps, step by step, amount
\* to one atomic removal of what is unreachable, or one refusal.
Shaking == INSTANCE TreeShaking WITH
    funcs  <- IF Pruned THEN funcs ELSE source.funcs,
    consts <- IF Pruned THEN consts ELSE source.consts,
    status <- CASE phase \in {"parse", "rejected"} -> "waiting"
                [] phase = "missing" -> "refused"
                [] Pruned -> "shaken"
                [] OTHER -> "loaded"

ImplementsTreeShaking == Shaking!Spec

=============================================================================
