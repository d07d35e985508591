-------------------------- MODULE IjCompileProofs --------------------------
(***************************************************************************)
(* Proofs about IjCompile, for every set of names, every set of function   *)
(* bodies and any number of declarations.                                  *)
(***************************************************************************)
EXTENDS IjCompile, ProofBasics, FiniteSetTheorems

(***************************************************************************)
(* The inductive invariant: what the passes have established so far.       *)
(***************************************************************************)
Source == source.funcs
Needed == NeededFunctions(Source)

\* Nothing is reached and nothing is swept before its pass begins.
NotStarted ==
    /\ phase = "parse" => reachable_funcs = {}
    /\ phase \in {"parse", "walk"} => it = 1

\* Until the sweeps the program is the one prune found.
Untouched ==
    /\ phase = "walk" => funcs = Source
    /\ phase \in {"walk", "sweep_funcs"} => consts = source.consts

\* The stack holds definitions a lookup finds, of functions that are needed.
StackSound ==
    phase = "walk" =>
        /\ \A f \in ToSet(todo) :
              \E i \in DOMAIN Source : f = Source[i] /\ IsFirst(Source, i)
        /\ Names(todo) \cup reachable_funcs \subseteq Needed
        /\ reachable_funcs \subseteq Names(Source)
        /\ Main \in Names(todo) \cup reachable_funcs

\* The constants a visited function loads are recorded.
ConstantsRecorded ==
    phase = "walk" =>
        \A i \in DOMAIN Source :
            (IsFirst(Source, i) /\ Source[i].name \in reachable_funcs) =>
                ConstantUses(Source[i]) \subseteq reachable_consts

AfterWalk == phase \in {"sweep_funcs", "sweep_consts"} \/ Pruned

\* The walk ended with exactly what is needed.
WalkExact ==
    AfterWalk =>
        /\ reachable_funcs = Needed
        /\ Needed \subseteq Names(Source)
        /\ NeededConstants(Source) \subseteq reachable_consts

\* The part of funcs in front of the iterator is swept, the rest is not.
FunctionsSwept ==
    /\ phase = "sweep_funcs" =>
          /\ it <= Len(funcs) + 1
          /\ \A k \in DOMAIN funcs : k < it => funcs[k].name \in Needed
    /\ AfterWalk =>
          /\ ToSet(funcs) \subseteq ToSet(Source)
          /\ \A f \in ToSet(Source) : f.name \in Needed => f \in ToSet(funcs)
    /\ (phase = "sweep_consts" \/ Pruned) =>
          \A f \in ToSet(funcs) : f.name \in Needed

ConstantsSwept ==
    AfterWalk =>
        /\ ToSet(consts) \subseteq ToSet(source.consts)
        /\ \A c \in ToSet(source.consts) :
              c \in reachable_consts => c \in ToSet(consts)

IInv ==
    /\ TypeOK
    /\ NotStarted
    /\ Untouched
    /\ StackSound
    /\ WalkClosed
    /\ ConstantsRecorded
    /\ WalkExact
    /\ FunctionsSwept
    /\ ConstantsSwept

-----------------------------------------------------------------------------
(* The call graph.                                                         *)

(***************************************************************************)
(* The needed functions are themselves a closed set, and the least one.    *)
(***************************************************************************)
LEMMA NeededClosed ==
    ASSUME NEW fs \in Seq(FunctionDef)
    PROVE  /\ NeededFunctions(fs) \subseteq Idents
           /\ ClosedUnderCalls(fs, NeededFunctions(fs))
<1>1. NeededFunctions(fs) \subseteq Idents
  BY DEF NeededFunctions
<1>2. Main \in NeededFunctions(fs)
  BY NamesAssumption DEF NeededFunctions, ClosedUnderCalls
<1>3. ASSUME NEW i \in DOMAIN fs, IsFirst(fs, i), fs[i].name \in NeededFunctions(fs),
             NEW n \in Callees(fs[i])
      PROVE  n \in NeededFunctions(fs)
  <2>1. fs[i] \in FunctionDef
    OBVIOUS
  <2>2. n \in Idents
    BY <2>1 DEF Callees, FunctionDef, ToSet
  <2>3. ASSUME NEW S \in SUBSET Idents, ClosedUnderCalls(fs, S)
        PROVE  n \in S
    <3>1. fs[i].name \in S
      BY <1>3, <2>3 DEF NeededFunctions
    <3>2. Callees(fs[i]) \subseteq S
      BY <1>3, <2>3, <3>1 DEF ClosedUnderCalls
    <3>3. QED
      BY <1>3, <3>2
  <2>4. QED
    BY <2>2, <2>3 DEF NeededFunctions
<1>4. QED
  BY <1>1, <1>2, <1>3 DEF ClosedUnderCalls

LEMMA NeededLeast ==
    ASSUME NEW fs, NEW S \in SUBSET Idents, ClosedUnderCalls(fs, S)
    PROVE  NeededFunctions(fs) \subseteq S
BY DEF NeededFunctions

(***************************************************************************)
(* A name that some definition has, has a first definition.                *)
(***************************************************************************)
LEMMA FirstExists ==
    ASSUME NEW fs \in Seq(FunctionDef), NEW n \in Names(fs)
    PROVE  \E i \in DOMAIN fs : fs[i].name = n /\ IsFirst(fs, i)
<1> DEFINE T == {i \in DOMAIN fs : fs[i].name = n}
<1>1. T \in SUBSET Nat /\ T # {}
  BY DEF Names
<1>2. PICK i \in T : \A j \in T : i <= j
  BY <1>1, LeastElement
<1>3. \A j \in DOMAIN fs : j < i => fs[j].name # fs[i].name
  BY <1>1, <1>2
<1>4. QED
  BY <1>2, <1>3 DEF IsFirst

LEMMA NamesOfToSet ==
    ASSUME NEW fs
    PROVE  Names(fs) = {f.name : f \in ToSet(fs)}
BY DEF Names, ToSet

(***************************************************************************)
(* get_function returns the first definition of a name that has one.       *)
(***************************************************************************)
LEMMA GetFunction ==
    ASSUME funcs \in Seq(FunctionDef), NEW n, has_function(n)
    PROVE  \E i \in DOMAIN funcs : /\ get_function(n) = funcs[i]
                                   /\ funcs[i].name = n
                                   /\ IsFirst(funcs, i)
<1> DEFINE P(i) == /\ funcs[i].name = n
                   /\ \A j \in DOMAIN funcs : j < i => funcs[j].name # n
<1>1. n \in Names(funcs)
  BY DEF has_function, Names
<1>2. \E i \in DOMAIN funcs : P(i)
  BY <1>1, FirstExists DEF IsFirst
<1>3. PICK i \in DOMAIN funcs : P(i) /\ i = CHOOSE k \in DOMAIN funcs : P(k)
  BY <1>2
<1>4. get_function(n) = funcs[i]
  BY <1>3 DEF get_function
<1>5. QED
  BY <1>3, <1>4 DEF IsFirst

(***************************************************************************)
(* A visit pushes the definitions of exactly the functions a body names.   *)
(***************************************************************************)
LEMMA Mentioned ==
    ASSUME funcs \in Seq(FunctionDef), NEW f \in FunctionDef,
           \A n \in Callees(f) : has_function(n)
    PROVE  /\ mentioned(f) \in Seq(FunctionDef)
           /\ \A g \in ToSet(mentioned(f)) :
                 \E i \in DOMAIN funcs : g = funcs[i] /\ IsFirst(funcs, i)
           /\ Names(mentioned(f)) = Callees(f)
<1> DEFINE names == f.invokes \o f.calls
<1>1. f.invokes \in Seq(Idents) /\ f.calls \in Seq(Idents)
  BY DEF FunctionDef
<1>2. names \in Seq(Idents) /\ ToSet(names) = Callees(f)
  BY <1>1, ToSetConcat DEF Callees
<1>3. mentioned(f) = [k \in DOMAIN names |-> get_function(names[k])]
  BY DEF mentioned
<1> HIDE DEF names
<1>4. ASSUME NEW k \in DOMAIN names
      PROVE  /\ \E i \in DOMAIN funcs : /\ get_function(names[k]) = funcs[i]
                                        /\ IsFirst(funcs, i)
             /\ get_function(names[k]).name = names[k]
             /\ get_function(names[k]) \in FunctionDef
  <2>1. has_function(names[k])
    BY <1>2 DEF ToSet
  <2>2. PICK i \in DOMAIN funcs : /\ get_function(names[k]) = funcs[i]
                                  /\ funcs[i].name = names[k]
                                  /\ IsFirst(funcs, i)
    BY <2>1, GetFunction
  <2>3. QED
    BY <2>2
<1>5. DOMAIN names = 1..Len(names) /\ Len(names) \in Nat
  BY <1>2
<1>6. mentioned(f) \in Seq(FunctionDef)
  BY <1>3, <1>4, <1>5
<1>7. ASSUME NEW g \in ToSet(mentioned(f))
      PROVE  \E i \in DOMAIN funcs : g = funcs[i] /\ IsFirst(funcs, i)
  BY <1>3, <1>4 DEF ToSet
<1>8. Names(mentioned(f)) = {names[k] : k \in DOMAIN names}
  BY <1>3, <1>4 DEF Names
<1>9. QED
  BY <1>2, <1>6, <1>7, <1>8 DEF ToSet

-----------------------------------------------------------------------------
(* Type correctness.                                                       *)

LEMMA InitIInv == Init => IInv
<1> SUFFICES ASSUME Init PROVE IInv
  OBVIOUS
<1>1. TypeOK
  BY DEF Init, TypeOK, Passes, Final, Failed
<1>2. QED
  BY <1>1 DEF Init, IInv, NotStarted, Untouched, StackSound, WalkClosed, ConstantsRecorded,
              WalkExact, FunctionsSwept, ConstantsSwept, AfterWalk, Pruned

LEMMA MainFunctionType == MainFunction \in FunctionDef
BY NamesAssumption DEF MainFunction, FunctionDef

LEMMA StepTypeOK ==
    ASSUME TypeOK, [Next]_vars
    PROVE  TypeOK'
<1> USE DEF TypeOK, Passes, Final, Failed
<1>1. ASSUME NEW c \in ConstNames, ParseConstant(c)
      PROVE  TypeOK'
  <2>1. c \in Idents
    BY InputAssumption
  <2>2. Append(consts, c) \in Seq(Idents)
    BY <2>1
  <2>3. QED
    BY <1>1, <2>2 DEF ParseConstant
<1>2. ASSUME NEW f \in Bodies, ParseFunction(f)
      PROVE  TypeOK'
  <2>1. f \in FunctionDef
    BY InputAssumption
  <2>2. Append(funcs, f) \in Seq(FunctionDef)
    BY <2>1
  <2>3. QED
    BY <1>2, <2>2 DEF ParseFunction
<1>3. CASE add_main
  <2>1. <<MainFunction>> \in Seq(FunctionDef)
    BY MainFunctionType
  <2>2. <<MainFunction>> \o funcs \in Seq(FunctionDef)
    BY <2>1
  <2>3. QED
    BY <1>3, <2>1, <2>2 DEF add_main
<1>4. CASE SkipVisited
  <2>1. Front(todo) \in Seq(FunctionDef)
    BY <1>4, FrontLast DEF SkipVisited
  <2>2. QED
    BY <1>4, <2>1 DEF SkipVisited
<1>5. CASE VisitMissing
  BY <1>5 DEF VisitMissing
<1>6. CASE Visit
  <2> DEFINE f == Last(todo)
  <2>1. f \in FunctionDef /\ Front(todo) \in Seq(FunctionDef)
    BY <1>6, FrontLast DEF Visit
  <2>2. \A n \in Callees(f) : has_function(n)
    BY <1>6 DEF Visit
  <2>3. mentioned(f) \in Seq(FunctionDef)
    BY <2>1, <2>2, Mentioned
  <2>4. Front(todo) \o mentioned(f) \in Seq(FunctionDef)
    BY <2>1, <2>3
  <2>5. f.name \in Idents /\ f.ldcs \subseteq Idents /\ f.idents \subseteq Idents
    BY <2>1 DEF FunctionDef
  <2>6. /\ todo' = Front(todo) \o mentioned(f)
        /\ reachable_funcs' = reached(f)
        /\ reachable_consts' = reachable_consts \cup mentioned_consts(f)
        /\ UNCHANGED <<phase, funcs, consts, source, it, known, emitted>>
    BY <1>6 DEF Visit
  <2> HIDE DEF f
  <2>7. reached(f) \subseteq Idents
    BY <2>5 DEF reached
  <2>8. mentioned_consts(f) \subseteq Idents
    BY <2>5 DEF mentioned_consts
  <2>9. QED
    BY <2>4, <2>6, <2>7, <2>8
<1>7. CASE WalkDone
  BY <1>7 DEF WalkDone
<1>8. CASE SweepFunction
  <2>1. it \in 1..Len(funcs)
    BY <1>8 DEF SweepFunction
  <2>2. RemoveAt(funcs, it) \in Seq(FunctionDef)
    BY <2>1, RemoveAtProperties
  <2>3. QED
    BY <1>8, <2>2 DEF SweepFunction
<1>9. CASE SweepFunctionsDone
  BY <1>9 DEF SweepFunctionsDone
<1>10. CASE SweepConstant
  <2>1. it \in 1..Len(consts)
    BY <1>10 DEF SweepConstant
  <2>2. RemoveAt(consts, it) \in Seq(Idents)
    BY <2>1, RemoveAtProperties
  <2>3. QED
    BY <1>10, <2>2 DEF SweepConstant
<1>11. CASE EmitConstants
  <2>1. ToSet(consts) \subseteq Idents
    BY DEF ToSet
  <2>2. QED
    BY <1>11, <2>1 DEF EmitConstants
<1>12. CASE EmitFunction
  <2> DEFINE f == funcs[Len(emitted) + 1]
  <2>1. Len(emitted) + 1 \in 1..Len(funcs)
    BY <1>12 DEF EmitFunction
  <2>2. f \in FunctionDef
    BY <2>1
  <2>3. Append(emitted, f) \in Seq(FunctionDef)
    BY <2>2
  <2>4. known_after(f) \subseteq Idents
    BY InputAssumption DEF known_after
  <2>5. QED
    BY <1>12, <2>3, <2>4 DEF EmitFunction
<1>13. CASE EmitDone
  BY <1>13 DEF EmitDone
<1>14. CASE Link
  BY <1>14 DEF Link
<1>15. CASE UNCHANGED vars
  BY <1>15 DEF vars
<1>16. CASE Terminated
  BY <1>16 DEF Terminated, vars
<1>17. QED
  BY <1>1, <1>2, <1>3, <1>4, <1>5, <1>6, <1>7, <1>8, <1>9, <1>10, <1>11, <1>12,
     <1>13, <1>14, <1>15, <1>16 DEF Next, Step, Parse, Walk, Sweep, Emit

(***************************************************************************)
(* Every value the compiler keeps has the type the source declares for it. *)
(***************************************************************************)
THEOREM TypeCorrect == Spec => []TypeOK
<1>1. Init => TypeOK
  BY InitIInv DEF IInv
<1>2. TypeOK /\ [Next]_vars => TypeOK'
  BY StepTypeOK
<1>3. QED
  BY <1>1, <1>2, PTL DEF Spec

-----------------------------------------------------------------------------
(* The steps that change what the invariant speaks of, one by one.         *)

LEMMA StepAddMain ==
    ASSUME IInv, TypeOK', add_main
    PROVE  IInv'
<1>1. /\ funcs' = <<MainFunction>> \o funcs
      /\ Source' = funcs'
      /\ source'.consts = consts /\ consts' = consts
      /\ todo' = <<MainFunction>>
      /\ phase' = "walk"
      /\ reachable_funcs' = {} /\ it' = 1
  BY DEF add_main, IInv, NotStarted, Source
<1>2. funcs' \in Seq(FunctionDef) /\ funcs'[1] = MainFunction /\ 1 \in DOMAIN funcs'
  BY <1>1, MainFunctionType DEF IInv, TypeOK
<1>3. IsFirst(Source', 1)
  BY <1>1, <1>2 DEF IsFirst
<1>4. ToSet(todo') = {MainFunction} /\ Names(todo') = {Main}
  <2>1. DOMAIN todo' = {1} /\ todo'[1] = MainFunction
    BY <1>1
  <2>2. MainFunction.name = Main
    BY DEF MainFunction
  <2>3. QED
    BY <2>1, <2>2 DEF ToSet, Names
<1>5. Main \in Needed'
  BY <1>1, <1>2, NeededClosed DEF Needed, Source, ClosedUnderCalls
<1>6. StackSound'
  BY <1>1, <1>2, <1>3, <1>4, <1>5 DEF StackSound
<1>7. WalkClosed' /\ ConstantsRecorded'
  BY <1>1 DEF WalkClosed, ConstantsRecorded
<1>8. NotStarted' /\ Untouched'
  BY <1>1 DEF NotStarted, Untouched
<1>9. WalkExact' /\ FunctionsSwept' /\ ConstantsSwept'
  BY <1>1 DEF WalkExact, FunctionsSwept, ConstantsSwept, AfterWalk, Pruned
<1>10. QED
  BY <1>6, <1>7, <1>8, <1>9 DEF IInv

LEMMA StepSkipVisited ==
    ASSUME IInv, TypeOK', SkipVisited
    PROVE  IInv'
<1>1. /\ phase = "walk" /\ phase' = "walk"
      /\ todo \in Seq(FunctionDef) /\ todo # << >> /\ todo' = Front(todo)
      /\ Last(todo).name \in reachable_funcs
      /\ UNCHANGED <<funcs, consts, source, reachable_funcs, reachable_consts, it>>
  BY DEF SkipVisited, IInv, TypeOK
<1>2. ToSet(todo) = ToSet(todo') \cup {Last(todo)}
  BY <1>1, FrontLast
<1>3. Names(todo) = Names(todo') \cup {Last(todo).name}
  BY <1>2, NamesOfToSet
<1>4. StackSound'
  BY <1>1, <1>2, <1>3 DEF IInv, StackSound, Source, Needed
<1>5. WalkClosed' /\ ConstantsRecorded'
  BY <1>1, <1>3 DEF IInv, WalkClosed, ConstantsRecorded, Source
<1>6. NotStarted' /\ Untouched'
  BY <1>1 DEF IInv, NotStarted, Untouched, Source
<1>7. WalkExact' /\ FunctionsSwept' /\ ConstantsSwept'
  BY <1>1 DEF WalkExact, FunctionsSwept, ConstantsSwept, AfterWalk, Pruned
<1>8. QED
  BY <1>4, <1>5, <1>6, <1>7 DEF IInv

LEMMA StepVisit ==
    ASSUME IInv, TypeOK', Visit
    PROVE  IInv'
<1> DEFINE f == Last(todo)
<1>1. /\ phase = "walk" /\ phase' = "walk"
      /\ todo \in Seq(FunctionDef) /\ todo # << >>
      /\ todo' = Front(todo) \o mentioned(f)
      /\ reachable_funcs' = reachable_funcs \cup {f.name}
      /\ reachable_consts' = reachable_consts \cup mentioned_consts(f)
      /\ \A n \in Callees(f) : has_function(n)
      /\ UNCHANGED <<funcs, consts, source, it>>
  BY DEF Visit, reached, IInv, TypeOK
<1>2. /\ f \in FunctionDef /\ Front(todo) \in Seq(FunctionDef)
      /\ ToSet(todo) = ToSet(Front(todo)) \cup {f}
  BY <1>1, FrontLast
<1>3. /\ funcs = Source /\ Source \in Seq(FunctionDef)
      /\ Source' = Source /\ Needed' = Needed
  BY <1>1 DEF IInv, TypeOK, Untouched, Source, Needed
<1>4. PICK i \in DOMAIN Source : f = Source[i] /\ IsFirst(Source, i)
  BY <1>1, <1>2 DEF IInv, StackSound
<1> HIDE DEF f
<1>5. /\ mentioned(f) \in Seq(FunctionDef)
      /\ \A g \in ToSet(mentioned(f)) :
            \E k \in DOMAIN Source : g = Source[k] /\ IsFirst(Source, k)
      /\ Names(mentioned(f)) = Callees(f)
  BY <1>1, <1>2, <1>3, Mentioned
<1>6. ToSet(todo') = ToSet(Front(todo)) \cup ToSet(mentioned(f))
  BY <1>1, <1>2, <1>5, ToSetConcat
<1>7. /\ Names(todo) = Names(Front(todo)) \cup {f.name}
      /\ Names(todo') = Names(Front(todo)) \cup Callees(f)
  BY <1>2, <1>5, <1>6, NamesOfToSet
<1>8. f.name \in Needed /\ f.name \in Names(Source)
  <2>1. f.name \in Needed
    BY <1>1, <1>7 DEF IInv, StackSound
  <2>2. f.name \in Names(Source)
    BY <1>4 DEF Names
  <2>3. QED
    BY <2>1, <2>2
<1>9. Callees(f) \subseteq Needed
  BY <1>3, <1>4, <1>8, NeededClosed DEF Needed, ClosedUnderCalls
<1>10. StackSound'
  <2>1. \A g \in ToSet(todo') :
           \E k \in DOMAIN Source : g = Source[k] /\ IsFirst(Source, k)
    BY <1>1, <1>2, <1>5, <1>6 DEF IInv, StackSound
  <2>2. Names(todo') \cup reachable_funcs' \subseteq Needed
    BY <1>1, <1>7, <1>8, <1>9 DEF IInv, StackSound
  <2>3. reachable_funcs' \subseteq Names(Source)
    BY <1>1, <1>8 DEF IInv, StackSound
  <2>4. Main \in Names(todo') \cup reachable_funcs'
    BY <1>1, <1>7 DEF IInv, StackSound
  <2>5. QED
    BY <1>3, <2>1, <2>2, <2>3, <2>4 DEF StackSound
<1>11. \A k \in DOMAIN Source :
          (IsFirst(Source, k) /\ Source[k].name = f.name) => Source[k] = f
  <2> SUFFICES ASSUME NEW k \in DOMAIN Source, IsFirst(Source, k),
                      Source[k].name = f.name
               PROVE  k = i
    BY <1>4
  <2>1. ~ (k < i) /\ ~ (i < k)
    BY <1>4 DEF IsFirst
  <2>2. k \in Nat /\ i \in Nat
    BY <1>3
  <2>3. QED
    BY <2>1, <2>2
<1>12. WalkClosed'
  <2> SUFFICES ASSUME NEW k \in DOMAIN Source, IsFirst(Source, k),
                      Source[k].name \in reachable_funcs'
               PROVE  Callees(Source[k]) \subseteq reachable_funcs' \cup Names(todo')
    BY <1>3 DEF WalkClosed, Source
  <2>1. CASE Source[k].name \in reachable_funcs
    BY <1>1, <1>7, <2>1 DEF IInv, WalkClosed, Source
  <2>2. CASE Source[k].name = f.name
    BY <1>7, <1>11, <2>2
  <2>3. QED
    BY <1>1, <2>1, <2>2
<1>13. ConstantsRecorded'
  <2> SUFFICES ASSUME NEW k \in DOMAIN Source, IsFirst(Source, k),
                      Source[k].name \in reachable_funcs'
               PROVE  ConstantUses(Source[k]) \subseteq reachable_consts'
    BY <1>3 DEF ConstantsRecorded
  <2>1. CASE Source[k].name \in reachable_funcs
    BY <1>1, <2>1 DEF IInv, ConstantsRecorded
  <2>2. CASE Source[k].name = f.name
    <3>1. ConstantUses(f) \subseteq mentioned_consts(f)
      BY DEF ConstantUses, mentioned_consts, has_var
    <3>2. QED
      BY <1>1, <1>11, <2>2, <3>1
  <2>3. QED
    BY <1>1, <2>1, <2>2
<1>14. NotStarted' /\ Untouched'
  BY <1>1 DEF IInv, NotStarted, Untouched, Source
<1>15. WalkExact' /\ FunctionsSwept' /\ ConstantsSwept'
  BY <1>1 DEF WalkExact, FunctionsSwept, ConstantsSwept, AfterWalk, Pruned
<1>16. QED
  BY <1>10, <1>12, <1>13, <1>14, <1>15 DEF IInv

LEMMA StepWalkDone ==
    ASSUME IInv, TypeOK', WalkDone
    PROVE  IInv'
<1>1. /\ phase = "walk" /\ phase' = "sweep_funcs" /\ todo = << >>
      /\ UNCHANGED <<funcs, consts, source, reachable_funcs, reachable_consts, it>>
  BY DEF WalkDone
<1>2. /\ funcs = Source /\ consts = source.consts /\ it = 1
      /\ Source \in Seq(FunctionDef) /\ reachable_funcs \subseteq Idents
      /\ Source' = Source /\ Needed' = Needed
  BY <1>1 DEF IInv, TypeOK, Untouched, NotStarted, Source, Needed
<1>3. Names(todo) = {}
  BY <1>1 DEF Names
<1>4. ClosedUnderCalls(Source, reachable_funcs)
  BY <1>1, <1>3 DEF IInv, StackSound, WalkClosed, ClosedUnderCalls, Source
<1>5. reachable_funcs = Needed
  <2>1. Needed \subseteq reachable_funcs
    BY <1>2, <1>4, NeededLeast DEF Needed
  <2>2. QED
    BY <1>1, <2>1 DEF IInv, StackSound
<1>6. Needed \subseteq Names(Source)
  BY <1>1, <1>5 DEF IInv, StackSound
<1>7. NeededConstants(Source) \subseteq reachable_consts
  BY <1>1, <1>5 DEF IInv, ConstantsRecorded, NeededConstants, Needed
<1>8. WalkExact'
  BY <1>1, <1>2, <1>5, <1>6, <1>7 DEF WalkExact
<1>9. FunctionsSwept'
  <2>1. phase' = "sweep_funcs" /\ funcs' = Source /\ it' = 1 /\ Len(Source) \in Nat
    BY <1>1, <1>2
  <2>2. \A k \in DOMAIN Source : ~ (k < 1)
    BY <1>2
  <2>3. QED
    BY <1>2, <2>1, <2>2 DEF FunctionsSwept, AfterWalk, Pruned
<1>10. ConstantsSwept'
  BY <1>1, <1>2 DEF ConstantsSwept
<1>11. NotStarted' /\ Untouched' /\ StackSound' /\ WalkClosed' /\ ConstantsRecorded'
  BY <1>1, <1>2 DEF NotStarted, Untouched, StackSound, WalkClosed, ConstantsRecorded
<1>12. QED
  BY <1>8, <1>9, <1>10, <1>11 DEF IInv

LEMMA StepSweepFunction ==
    ASSUME IInv, TypeOK', SweepFunction
    PROVE  IInv'
<1>1. /\ phase = "sweep_funcs" /\ phase' = "sweep_funcs"
      /\ funcs \in Seq(FunctionDef) /\ it \in 1..Len(funcs)
      /\ UNCHANGED <<consts, source, reachable_funcs, reachable_consts>>
  BY DEF SweepFunction, IInv, TypeOK
<1>2. Source' = Source /\ Needed' = Needed /\ AfterWalk /\ AfterWalk'
  BY <1>1 DEF Source, Needed, AfterWalk
<1>3. reachable_funcs = Needed
  BY <1>2 DEF IInv, WalkExact
<1>4. /\ \A k \in DOMAIN funcs : k < it => funcs[k].name \in Needed
      /\ ToSet(funcs) \subseteq ToSet(Source)
      /\ \A f \in ToSet(Source) : f.name \in Needed => f \in ToSet(funcs)
  BY <1>1, <1>2 DEF IInv, FunctionsSwept
<1>5. CASE funcs[it].name \in reachable_funcs
  <2>1. it' = it + 1 /\ funcs' = funcs
    BY <1>5 DEF SweepFunction
  <2>2. \A k \in DOMAIN funcs : k < it' => funcs[k].name \in Needed
    <3> SUFFICES ASSUME NEW k \in DOMAIN funcs, k < it + 1
                 PROVE  funcs[k].name \in Needed
      BY <2>1
    <3>1. k < it \/ k = it
      BY <1>1
    <3>2. QED
      BY <1>3, <1>4, <1>5, <3>1
  <2>3. it' <= Len(funcs') + 1
    BY <1>1, <2>1
  <2>4. QED
    BY <1>1, <1>2, <1>4, <2>1, <2>2, <2>3 DEF FunctionsSwept, IInv, NotStarted,
       Untouched, StackSound, WalkClosed, ConstantsRecorded, WalkExact,
       ConstantsSwept, Pruned
<1>6. CASE funcs[it].name \notin reachable_funcs
  <2>1. it' = it /\ funcs' = RemoveAt(funcs, it)
    BY <1>6 DEF SweepFunction
  <2>2. /\ funcs' \in Seq(FunctionDef) /\ Len(funcs') = Len(funcs) - 1
        /\ \A k \in 1..(Len(funcs) - 1) :
              funcs'[k] = IF k < it THEN funcs[k] ELSE funcs[k + 1]
    BY <1>1, <2>1, RemoveAtProperties
  <2>3. \A k \in DOMAIN funcs' : k < it' => funcs'[k].name \in Needed
    BY <1>1, <1>4, <2>1, <2>2
  <2>4. it' <= Len(funcs') + 1
    BY <1>1, <2>1, <2>2
  <2>5. /\ ToSet(funcs') \subseteq ToSet(funcs)
        /\ ToSet(funcs) \subseteq ToSet(funcs') \cup {funcs[it]}
    BY <1>1, <2>1, RemoveAtToSet
  <2>6. \A f \in ToSet(Source) : f.name \in Needed => f \in ToSet(funcs')
    BY <1>3, <1>4, <1>6, <2>5
  <2>7. QED
    BY <1>1, <1>2, <1>4, <2>3, <2>4, <2>5, <2>6 DEF FunctionsSwept, IInv, NotStarted,
       Untouched, StackSound, WalkClosed, ConstantsRecorded, WalkExact,
       ConstantsSwept, Pruned
<1>7. QED
  BY <1>5, <1>6

LEMMA StepSweepFunctionsDone ==
    ASSUME IInv, TypeOK', SweepFunctionsDone
    PROVE  IInv'
<1>1. /\ phase = "sweep_funcs" /\ phase' = "sweep_consts"
      /\ funcs \in Seq(FunctionDef) /\ it \in Nat /\ it > Len(funcs)
      /\ UNCHANGED <<funcs, consts, source, reachable_funcs, reachable_consts>>
  BY DEF SweepFunctionsDone, IInv, TypeOK
<1>2. Source' = Source /\ Needed' = Needed /\ AfterWalk /\ AfterWalk'
  BY <1>1 DEF Source, Needed, AfterWalk
<1>3. \A k \in DOMAIN funcs : k < it
  BY <1>1
<1>4. \A f \in ToSet(funcs) : f.name \in Needed
  BY <1>1, <1>3 DEF IInv, FunctionsSwept, ToSet
<1>5. QED
  BY <1>1, <1>2, <1>4 DEF FunctionsSwept, IInv, NotStarted, Untouched, StackSound,
     WalkClosed, ConstantsRecorded, WalkExact, ConstantsSwept, Pruned

LEMMA StepSweepConstant ==
    ASSUME IInv, TypeOK', SweepConstant
    PROVE  IInv'
<1>1. /\ phase = "sweep_consts" /\ phase' = "sweep_consts"
      /\ consts \in Seq(Idents) /\ it \in 1..Len(consts)
      /\ UNCHANGED <<funcs, source, reachable_funcs, reachable_consts>>
  BY DEF SweepConstant, IInv, TypeOK
<1>2. Source' = Source /\ Needed' = Needed /\ AfterWalk /\ AfterWalk'
  BY <1>1 DEF Source, Needed, AfterWalk
<1>3. ConstantsSwept'
  <2>1. CASE consts[it] \in reachable_consts
    BY <1>1, <1>2, <2>1 DEF SweepConstant, IInv, ConstantsSwept
  <2>2. CASE consts[it] \notin reachable_consts
    <3>1. consts' = RemoveAt(consts, it)
      BY <2>2 DEF SweepConstant
    <3>2. /\ ToSet(consts') \subseteq ToSet(consts)
          /\ ToSet(consts) \subseteq ToSet(consts') \cup {consts[it]}
      BY <1>1, <3>1, RemoveAtToSet
    <3>3. QED
      BY <1>1, <1>2, <2>2, <3>2 DEF IInv, ConstantsSwept
  <2>3. QED
    BY <2>1, <2>2
<1>4. QED
  BY <1>1, <1>2, <1>3 DEF FunctionsSwept, IInv, NotStarted, Untouched, StackSound,
     WalkClosed, ConstantsRecorded, WalkExact, Pruned

\* The emission and the link only read what the passes left.
LEMMA StepEmit ==
    ASSUME IInv, TypeOK', Emit
    PROVE  IInv'
<1>1. /\ phase = "sweep_consts" \/ Pruned
      /\ Pruned'
      /\ UNCHANGED <<funcs, consts, source, reachable_funcs, reachable_consts>>
  BY DEF Emit, EmitConstants, EmitFunction, EmitDone, Link, Pruned
<1>2. Source' = Source /\ Needed' = Needed /\ AfterWalk /\ AfterWalk'
  BY <1>1 DEF Source, Needed, AfterWalk
<1>3. FunctionsSwept' /\ ConstantsSwept' /\ WalkExact'
  BY <1>1, <1>2 DEF FunctionsSwept, ConstantsSwept, WalkExact, IInv, Pruned
<1>4. phase' \notin {"parse", "walk", "sweep_funcs"}
  BY <1>1 DEF Pruned
<1>5. QED
  BY <1>3, <1>4 DEF IInv, NotStarted, Untouched, StackSound, WalkClosed,
                    ConstantsRecorded

(***************************************************************************)
(* The invariant is inductive.                                             *)
(***************************************************************************)
LEMMA StepIInv ==
    ASSUME IInv, [Next]_vars
    PROVE  IInv'
<1>1. TypeOK'
  BY StepTypeOK DEF IInv
<1>2. ASSUME NEW c \in ConstNames, ParseConstant(c)
      PROVE  IInv'
  <2>1. /\ phase = "parse" /\ phase' \in {"parse", "rejected"}
        /\ reachable_funcs' = reachable_funcs /\ it' = it
    BY <1>2 DEF ParseConstant
  <2>2. QED
    BY <1>1, <2>1 DEF IInv, NotStarted, Untouched, StackSound, WalkClosed,
       ConstantsRecorded, WalkExact, FunctionsSwept, ConstantsSwept, AfterWalk, Pruned
<1>3. ASSUME NEW f \in Bodies, ParseFunction(f)
      PROVE  IInv'
  <2>1. /\ phase = "parse" /\ phase' \in {"parse", "rejected"}
        /\ reachable_funcs' = reachable_funcs /\ it' = it
    BY <1>3 DEF ParseFunction
  <2>2. QED
    BY <1>1, <2>1 DEF IInv, NotStarted, Untouched, StackSound, WalkClosed,
       ConstantsRecorded, WalkExact, FunctionsSwept, ConstantsSwept, AfterWalk, Pruned
<1>4. CASE add_main
  BY <1>1, <1>4, StepAddMain
<1>5. CASE SkipVisited
  BY <1>1, <1>5, StepSkipVisited
<1>6. CASE VisitMissing
  <2>1. phase' = "missing"
    BY <1>6 DEF VisitMissing
  <2>2. QED
    BY <1>1, <2>1 DEF IInv, NotStarted, Untouched, StackSound, WalkClosed,
       ConstantsRecorded, WalkExact, FunctionsSwept, ConstantsSwept, AfterWalk, Pruned
<1>7. CASE Visit
  BY <1>1, <1>7, StepVisit
<1>8. CASE WalkDone
  BY <1>1, <1>8, StepWalkDone
<1>9. CASE SweepFunction
  BY <1>1, <1>9, StepSweepFunction
<1>10. CASE SweepFunctionsDone
  BY <1>1, <1>10, StepSweepFunctionsDone
<1>11. CASE SweepConstant
  BY <1>1, <1>11, StepSweepConstant
<1>12. CASE Emit
  BY <1>1, <1>12, StepEmit
<1>13. CASE UNCHANGED vars
  BY <1>1, <1>13 DEF vars, IInv, NotStarted, Untouched, StackSound, WalkClosed,
     ConstantsRecorded, WalkExact, FunctionsSwept, ConstantsSwept, AfterWalk,
     Pruned, Source, Needed
<1>14. CASE Terminated
  BY <1>13, <1>14 DEF Terminated
<1>15. QED
  BY <1>2, <1>3, <1>4, <1>5, <1>6, <1>7, <1>8, <1>9, <1>10, <1>11, <1>12, <1>13,
     <1>14 DEF Next, Step, Parse, Walk, Sweep

LEMMA Invariance == Spec => []IInv
<1>1. Init => IInv
  BY InitIInv
<1>2. IInv /\ [Next]_vars => IInv'
  BY StepIInv
<1>3. QED
  BY <1>1, <1>2, PTL DEF Spec

-----------------------------------------------------------------------------
(* What the invariant gives: the promises of the walk and of the sweeps.   *)

(***************************************************************************)
(* While prune walks, every callee of a visited function is visited or on  *)
(* the stack (compile.cpp:29-84).                                          *)
(***************************************************************************)
THEOREM WalkStaysClosed == Spec => []WalkClosed
BY Invariance, PTL DEF IInv

(***************************************************************************)
(* prune leaves exactly the functions that the entry point can reach,      *)
(* whatever the call graph (compile.cpp:21-106).                           *)
(***************************************************************************)
LEMMA IInvKeptFunctions == IInv => KeptFunctions
<1> SUFFICES ASSUME IInv, Pruned PROVE Names(funcs) = Needed
  BY DEF KeptFunctions, Needed, Source
<1>1. /\ Needed \subseteq Names(Source)
      /\ ToSet(funcs) \subseteq ToSet(Source)
      /\ \A f \in ToSet(Source) : f.name \in Needed => f \in ToSet(funcs)
      /\ \A f \in ToSet(funcs) : f.name \in Needed
  BY DEF IInv, WalkExact, FunctionsSwept, AfterWalk
<1>2. ASSUME NEW n \in Needed PROVE n \in Names(funcs)
  <2>1. PICK f \in ToSet(Source) : f.name = n
    BY <1>1, NamesOfToSet
  <2>2. f \in ToSet(funcs)
    BY <1>1, <2>1
  <2>3. QED
    BY <2>1, <2>2, NamesOfToSet
<1>3. Names(funcs) \subseteq Needed
  BY <1>1, NamesOfToSet
<1>4. QED
  BY <1>2, <1>3

THEOREM KeepsExactlyNeeded == Spec => []KeptFunctions
BY Invariance, IInvKeptFunctions, PTL

(***************************************************************************)
(* No declared constant that a reachable function loads is swept away,     *)
(* although prune and the code generator scope names differently           *)
(* (compile.cpp:76-79,242-249).                                            *)
(***************************************************************************)
LEMMA IInvKeptConstants == IInv => KeptConstants
BY DEF IInv, WalkExact, ConstantsSwept, AfterWalk, KeptConstants, Source

THEOREM KeepsNeededConstants == Spec => []KeptConstants
BY Invariance, IInvKeptConstants, PTL

(***************************************************************************)
(* Each visit adds one function that was not visited before, and forgets   *)
(* nothing (compile.cpp:30-37).                                            *)
(***************************************************************************)
THEOREM VisitsOnce == Spec => VisitOnce
<1> DEFINE A == reachable_funcs' # reachable_funcs =>
                  /\ reachable_funcs \subseteq reachable_funcs'
                  /\ \E n \in Idents \ reachable_funcs :
                        reachable_funcs' = reachable_funcs \cup {n}
                  /\ reachable_consts \subseteq reachable_consts'
<1>1. TypeOK /\ [Next]_vars => [A]_vars
  <2> SUFFICES ASSUME TypeOK, Next PROVE A
    OBVIOUS
  <2>1. CASE Visit
    <3>1. /\ todo \in Seq(FunctionDef) /\ todo # << >>
          /\ Last(todo).name \notin reachable_funcs
          /\ reachable_funcs' = reachable_funcs \cup {Last(todo).name}
          /\ reachable_consts \subseteq reachable_consts'
      BY <2>1 DEF Visit, TypeOK, reached
    <3>2. Last(todo).name \in Idents
      <4>1. Last(todo) \in FunctionDef
        BY <3>1, FrontLast
      <4>2. QED
        BY <4>1 DEF FunctionDef
    <3>3. QED
      BY <3>1, <3>2
  <2>2. CASE ~ Visit
    <3>1. reachable_funcs' = reachable_funcs
      BY <2>2 DEF Next, Step, Parse, ParseConstant, ParseFunction, add_main, Walk,
         SkipVisited, VisitMissing, WalkDone, Sweep, SweepFunction,
         SweepFunctionsDone, SweepConstant, Emit, EmitConstants, EmitFunction,
         EmitDone, Link, Terminated, vars
    <3>2. QED
      BY <3>1
  <2>3. QED
    BY <2>1, <2>2
<1>2. QED
  BY <1>1, TypeCorrect, PTL DEF Spec, VisitOnce

-----------------------------------------------------------------------------
(* The emission: what the code generator and the linker rely on.           *)

EmitPhases == {"emit", "unresolved", "link", "unlinked", "linked"}

\* The functions are compiled in order, main first; a failure names its cause.
EmitSound ==
    /\ phase \notin EmitPhases => emitted = << >>
    /\ AfterWalk \/ phase = "walk" =>
          /\ Len(funcs) > 0
          /\ funcs[1] = MainFunction
    /\ Pruned =>
          /\ Len(emitted) <= Len(funcs)
          /\ \A i \in DOMAIN emitted : emitted[i] = funcs[i]
          /\ ToSet(consts) \subseteq known
          /\ Len(emitted) > 0 => ObjRef \in known
    /\ phase \in {"link", "unlinked", "linked"} => Len(emitted) = Len(funcs)
    /\ phase = "unlinked" =>
          \E i \in DOMAIN emitted :
              ~ (Callees(emitted[i]) \subseteq Names(emitted) \ {Main})
    /\ phase = "unresolved" =>
          \E i \in DOMAIN funcs :
              \E n \in ConstantUses(funcs[i]) : n \notin ToSet(consts) \cup {ObjRef}

LEMMA InitEmitSound == Init => EmitSound
BY DEF Init, EmitSound, EmitPhases, AfterWalk, Pruned

LEMMA EmitFunctionSound ==
    ASSUME IInv, EmitSound, EmitFunction
    PROVE  EmitSound'
<1> DEFINE n == Len(emitted) + 1
           f == funcs[n]
<1>1. /\ phase = "emit" /\ n \in 1..Len(funcs)
      /\ funcs \in Seq(FunctionDef) /\ emitted \in Seq(FunctionDef)
      /\ known' = known_after(f)
      /\ UNCHANGED <<funcs, consts>>
  BY DEF EmitFunction, IInv, TypeOK
<1>2. /\ Len(funcs) > 0 /\ funcs[1] = MainFunction
      /\ \A i \in DOMAIN emitted : emitted[i] = funcs[i]
      /\ ToSet(consts) \subseteq known
      /\ Len(emitted) > 0 => ObjRef \in known
  BY <1>1 DEF EmitSound, Pruned, AfterWalk
<1>3. known \subseteq known'
  BY <1>1 DEF known_after
<1>4. n = 1 => f = MainFunction
  BY <1>2
<1>5. ObjRef \in known'
  <2>1. CASE n = 1
    <3>1. f.calls # << >>
      BY <1>4, <2>1 DEF MainFunction
    <3>2. QED
      BY <1>1, <3>1 DEF known_after
  <2>2. CASE n # 1
    BY <1>1, <1>2, <1>3, <2>2
  <2>3. QED
    BY <2>1, <2>2
<1>6. f \in FunctionDef
  BY <1>1
<1>7. CASE resolves(f)
  <2>1. phase' = "emit" /\ emitted' = Append(emitted, f)
    BY <1>1, <1>7 DEF EmitFunction
  <2>2. /\ Len(emitted') = n
        /\ \A i \in DOMAIN emitted' : emitted'[i] = funcs[i]
    BY <1>1, <1>2, <1>6, <2>1
  <2>3. QED
    BY <1>1, <1>2, <1>3, <1>5, <2>1, <2>2 DEF EmitSound, EmitPhases, Pruned
<1>8. CASE ~ resolves(f)
  <2>1. phase' = "unresolved" /\ emitted' = emitted
    BY <1>1, <1>8 DEF EmitFunction
  <2>2. PICK m \in f.ldcs \cup {k \in f.idents : ~ is_var(f, k)} : m \notin known_after(f)
    BY <1>8 DEF resolves
  <2>3. m \in ConstantUses(f)
    BY <2>2 DEF ConstantUses, is_var
  <2>4. m \notin ToSet(consts) \cup {ObjRef}
    BY <1>1, <1>2, <1>3, <1>5, <2>2
  <2>5. n \in DOMAIN funcs
    BY <1>1
  <2>6. Len(emitted) <= Len(funcs)
    BY <1>1 DEF EmitSound, Pruned
  <2>7. \E i \in DOMAIN funcs' :
           \E k \in ConstantUses(funcs'[i]) : k \notin ToSet(consts') \cup {ObjRef}
    BY <1>1, <2>3, <2>4, <2>5
  <2>8. QED
    BY <1>1, <1>2, <1>3, <1>5, <2>1, <2>6, <2>7 DEF EmitSound, EmitPhases, Pruned
<1>9. QED
  BY <1>7, <1>8

LEMMA StepEmitSound ==
    ASSUME IInv, EmitSound, [Next]_vars
    PROVE  EmitSound'
<1> USE DEF EmitPhases, Pruned, AfterWalk
<1>1. ASSUME NEW c \in ConstNames, ParseConstant(c)
      PROVE  EmitSound'
  BY <1>1 DEF ParseConstant, EmitSound
<1>2. ASSUME NEW f \in Bodies, ParseFunction(f)
      PROVE  EmitSound'
  BY <1>2 DEF ParseFunction, EmitSound
<1>3. CASE add_main
  <2>1. funcs' = <<MainFunction>> \o funcs /\ phase' = "walk" /\ emitted' = << >>
    BY <1>3 DEF add_main, EmitSound
  <2>2. Len(funcs') > 0 /\ funcs'[1] = MainFunction
    BY <2>1 DEF IInv, TypeOK
  <2>3. QED
    BY <2>1, <2>2 DEF EmitSound
<1>4. CASE SkipVisited
  BY <1>4 DEF SkipVisited, EmitSound
<1>5. CASE VisitMissing
  BY <1>5 DEF VisitMissing, EmitSound
<1>6. CASE Visit
  BY <1>6 DEF Visit, EmitSound
<1>7. CASE WalkDone
  BY <1>7 DEF WalkDone, EmitSound
<1>8. CASE SweepFunction
  <2>1. /\ phase = "sweep_funcs" /\ phase' = "sweep_funcs"
        /\ funcs \in Seq(FunctionDef) /\ it \in 1..Len(funcs)
        /\ Len(funcs) > 0 /\ funcs[1] = MainFunction
        /\ emitted = << >> /\ emitted' = << >>
    BY <1>8 DEF SweepFunction, IInv, TypeOK, EmitSound
  <2>2. CASE funcs[it].name \in reachable_funcs
    BY <1>8, <2>1, <2>2 DEF SweepFunction, EmitSound
  <2>3. CASE funcs[it].name \notin reachable_funcs
    <3>1. funcs' = RemoveAt(funcs, it)
      BY <1>8, <2>3 DEF SweepFunction
    <3>2. Main \in reachable_funcs
      BY <2>1, NeededClosed DEF IInv, TypeOK, WalkExact, Needed, Source, ClosedUnderCalls
    <3>3. it # 1
      BY <2>1, <2>3, <3>2 DEF MainFunction
    <3>4. /\ Len(funcs') = Len(funcs) - 1
          /\ \A i \in 1..(Len(funcs) - 1) :
                funcs'[i] = IF i < it THEN funcs[i] ELSE funcs[i + 1]
      BY <2>1, <3>1, RemoveAtProperties
    <3>5. Len(funcs') > 0 /\ funcs'[1] = MainFunction
      BY <2>1, <3>3, <3>4
    <3>6. QED
      BY <2>1, <3>5 DEF EmitSound
  <2>4. QED
    BY <2>2, <2>3
<1>9. CASE SweepFunctionsDone
  BY <1>9 DEF SweepFunctionsDone, EmitSound
<1>10. CASE SweepConstant
  BY <1>10 DEF SweepConstant, EmitSound
<1>11. CASE EmitConstants
  <2>1. /\ phase' = "emit" /\ emitted' = << >> /\ funcs' = funcs /\ consts' = consts
        /\ ToSet(consts') \subseteq known'
        /\ Len(funcs') > 0 /\ funcs'[1] = MainFunction
    BY <1>11 DEF EmitConstants, EmitSound
  <2>2. Len(funcs) \in Nat
    BY DEF IInv, TypeOK
  <2>3. QED
    BY <2>1, <2>2 DEF EmitSound
<1>12. CASE EmitFunction
  BY <1>12, EmitFunctionSound
<1>13. CASE EmitDone
  BY <1>13 DEF EmitDone, EmitSound
<1>14. CASE Link
  BY <1>14 DEF Link, EmitSound
<1>15. CASE UNCHANGED vars
  BY <1>15 DEF vars, EmitSound
<1>16. CASE Terminated
  BY <1>15, <1>16 DEF Terminated
<1>17. QED
  BY <1>1, <1>2, <1>3, <1>4, <1>5, <1>6, <1>7, <1>8, <1>9, <1>10, <1>11, <1>12,
     <1>13, <1>14, <1>15, <1>16 DEF Next, Step, Parse, Walk, Sweep, Emit

LEMMA EmitInvariance == Spec => [](IInv /\ EmitSound)
<1>1. Init => IInv /\ EmitSound
  BY InitIInv, InitEmitSound
<1>2. IInv /\ EmitSound /\ [Next]_vars => (IInv /\ EmitSound)'
  BY StepIInv, StepEmitSound
<1>3. QED
  BY <1>1, <1>2, PTL DEF Spec

\* Where every name is defined once, each definition is the one found.
LEMMA UniqueIsFirst ==
    ASSUME Source \in Seq(FunctionDef), UniqueNames(Source), NEW f \in ToSet(Source)
    PROVE  \E i \in DOMAIN Source : f = Source[i] /\ IsFirst(Source, i)
<1>1. PICK i \in DOMAIN Source : f = Source[i]
  BY DEF ToSet
<1>2. ASSUME NEW j \in DOMAIN Source, j < i
      PROVE  Source[j].name # Source[i].name
  <2>1. j # i
    BY <1>2
  <2>2. QED
    BY <2>1 DEF UniqueNames
<1>3. QED
  BY <1>1, <1>2 DEF IsFirst

(***************************************************************************)
(* A program that defines each function once links, unless something in it *)
(* calls the entry point (ijvm_assembler.cpp:268-279 never panics).        *)
(***************************************************************************)
LEMMA CallsResolveHolds == IInv /\ EmitSound => CallsResolve
<1> SUFFICES ASSUME IInv, EmitSound, phase = "unlinked", UniqueNames(Source)
             PROVE  \E i \in DOMAIN funcs : Main \in Callees(funcs[i])
  BY DEF CallsResolve, Source
<1>1. /\ funcs \in Seq(FunctionDef) /\ Source \in Seq(FunctionDef)
      /\ emitted \in Seq(FunctionDef)
      /\ ToSet(funcs) \subseteq ToSet(Source)
      /\ \A f \in ToSet(funcs) : f.name \in Needed
  BY DEF IInv, TypeOK, Source, FunctionsSwept, Pruned, AfterWalk
<1>2. /\ Len(emitted) = Len(funcs)
      /\ \A i \in DOMAIN emitted : emitted[i] = funcs[i]
  BY DEF EmitSound, Pruned
<1>3. Names(emitted) = Names(funcs)
  BY <1>1, <1>2 DEF Names
<1>4. Names(funcs) = Needed
  BY IInvKeptFunctions DEF KeptFunctions, Pruned, Needed, Source
<1>5. PICK i \in DOMAIN emitted : ~ (Callees(emitted[i]) \subseteq Names(emitted) \ {Main})
  BY DEF EmitSound
<1>6. i \in DOMAIN funcs /\ emitted[i] = funcs[i] /\ funcs[i] \in ToSet(funcs)
  BY <1>1, <1>2 DEF ToSet
<1>7. PICK k \in DOMAIN Source : funcs[i] = Source[k] /\ IsFirst(Source, k)
  BY <1>1, <1>6, UniqueIsFirst
<1>8. Callees(funcs[i]) \subseteq Needed
  BY <1>1, <1>6, <1>7, NeededClosed DEF Needed, ClosedUnderCalls
<1>9. Main \in Callees(funcs[i])
  BY <1>3, <1>4, <1>5, <1>6, <1>8
<1>10. QED
  BY <1>6, <1>9

THEOREM CallsAlwaysResolve == Spec => []CallsResolve
BY EmitInvariance, CallsResolveHolds, PTL

(***************************************************************************)
(* Pruning cannot make a program that defines each function once fail in   *)
(* code generation: a name is reported only when the source declares none. *)
(***************************************************************************)
LEMMA PruneTransparentHolds == IInv /\ EmitSound => PruneTransparent
<1> SUFFICES ASSUME IInv, EmitSound, phase = "unresolved", UniqueNames(Source)
             PROVE  \E n \in NeededConstants(Source) :
                        n \notin ToSet(source.consts) \cup {ObjRef}
  BY DEF PruneTransparent, Source
<1>1. /\ Source \in Seq(FunctionDef)
      /\ ToSet(funcs) \subseteq ToSet(Source)
      /\ \A f \in ToSet(funcs) : f.name \in Needed
  BY DEF IInv, TypeOK, Source, FunctionsSwept, Pruned, AfterWalk
<1>2. PICK i \in DOMAIN funcs :
               \E n \in ConstantUses(funcs[i]) : n \notin ToSet(consts) \cup {ObjRef}
  BY DEF EmitSound
<1> PICK n \in ConstantUses(funcs[i]) : n \notin ToSet(consts) \cup {ObjRef}
  BY <1>2
<1>3. funcs[i] \in ToSet(funcs)
  BY DEF ToSet
<1>4. PICK k \in DOMAIN Source : funcs[i] = Source[k] /\ IsFirst(Source, k)
  BY <1>1, <1>3, UniqueIsFirst
<1>5. n \in NeededConstants(Source)
  BY <1>1, <1>3, <1>4 DEF NeededConstants, Needed
<1>6. n \notin ToSet(source.consts)
  BY <1>2, <1>5, IInvKeptConstants DEF KeptConstants, Pruned, Source
<1>7. QED
  BY <1>2, <1>5, <1>6

THEOREM PruningIsTransparent == Spec => []PruneTransparent
BY EmitInvariance, PruneTransparentHolds, PTL

-----------------------------------------------------------------------------
(* The order of declarations.                                              *)

(***************************************************************************)
(* How many of the positions P lie in the first i.                         *)
(***************************************************************************)
Rank(P, i) == Cardinality(P \cap 1..i)

LEMMA RankFacts ==
    ASSUME NEW P \in SUBSET (Nat \ {0}), NEW i \in Nat
    PROVE  /\ Rank(P, i) \in Nat
           /\ Rank(P, 0) = 0
           /\ Rank(P, i + 1) = Rank(P, i) + (IF i + 1 \in P THEN 1 ELSE 0)
           /\ \A k \in Nat : k <= i => Rank(P, k) <= Rank(P, i)
<1> DEFINE R(k) == P \cap 1..k
<1>1. \A k \in Nat : IsFiniteSet(R(k)) /\ Cardinality(R(k)) \in Nat
  <2> TAKE k \in Nat
  <2>1. IsFiniteSet(1..k)
    BY FS_Interval
  <2>2. IsFiniteSet(R(k))
    BY <2>1, FS_Intersection
  <2> HIDE DEF R
  <2>3. QED
    BY <2>2, FS_CardinalityType
<1>2. Rank(P, 0) = 0
  <2>1. P \cap 1..0 = {}
    OBVIOUS
  <2>2. QED
    BY <2>1, FS_EmptySet DEF Rank
<1>3. Rank(P, i + 1) = Rank(P, i) + (IF i + 1 \in P THEN 1 ELSE 0)
  <2>1. i + 1 \notin R(i)
    OBVIOUS
  <2>2. CASE i + 1 \in P
    <3>1. R(i + 1) = R(i) \cup {i + 1}
      BY <2>2
    <3> HIDE DEF R
    <3>2. Cardinality(R(i) \cup {i + 1}) = Cardinality(R(i)) + 1
      BY <1>1, <2>1, FS_AddElement
    <3>3. QED
      BY <2>2, <3>1, <3>2 DEF Rank, R
  <2>3. CASE i + 1 \notin P
    <3>1. R(i + 1) = R(i)
      BY <2>3
    <3>2. Rank(P, i) \in Nat
      BY <1>1 DEF Rank
    <3>3. Rank(P, i + 1) = Rank(P, i)
      BY <3>1 DEF Rank
    <3>4. QED
      BY <2>3, <3>2, <3>3
  <2>4. QED
    BY <2>2, <2>3
<1>4. ASSUME NEW k \in Nat, k <= i PROVE Rank(P, k) <= Rank(P, i)
  <2>1. R(k) \in SUBSET R(i)
    BY <1>4
  <2> HIDE DEF R
  <2>2. Cardinality(R(k)) <= Cardinality(R(i))
    BY <1>1, <2>1, FS_Subset
  <2>3. QED
    BY <2>2 DEF Rank, R
<1>5. Rank(P, i) \in Nat
  BY <1>1 DEF Rank
<1>6. QED
  BY <1>2, <1>3, <1>4, <1>5

(***************************************************************************)
(* The state of a sweep that keeps the positions P of s: r is the vector,  *)
(* k the iterator.  In front of it lie the kept elements, in order, from   *)
(* it on all that the sweep has not seen.                                  *)
(***************************************************************************)
Swept(r, s, P, k) ==
    LET e == Len(s) - Len(r)
    IN  /\ e \in Nat /\ k \in 1..(Len(r) + 1)
        /\ Rank(P, k + e - 1) = k - 1
        /\ \A i \in P : i < k + e => r[Rank(P, i)] = s[i]
        /\ \A j \in k..Len(r) : r[j] = s[j + e]

LEMMA SweepBegins ==
    ASSUME NEW S, NEW s \in Seq(S), NEW P \in SUBSET DOMAIN s
    PROVE  Swept(s, s, P, 1)
<1>1. Len(s) \in Nat /\ P \in SUBSET (Nat \ {0}) /\ Len(s) - Len(s) = 0
  OBVIOUS
<1>2. Rank(P, 0) = 0
  BY <1>1, RankFacts
<1>3. \A i \in P : ~ (i < 1)
  BY <1>1
<1>4. QED
  BY <1>1, <1>2, <1>3 DEF Swept

LEMMA SweepKeeps ==
    ASSUME NEW S, NEW s \in Seq(S), NEW P \in SUBSET DOMAIN s, NEW r \in Seq(S),
           NEW k \in 1..Len(r), Swept(r, s, P, k), k + (Len(s) - Len(r)) \in P
    PROVE  Swept(r, s, P, k + 1)
<1> DEFINE e == Len(s) - Len(r)
           n == Len(r)
           p == k + e
<1>1. /\ e \in Nat /\ n \in Nat /\ k \in Nat /\ k >= 1 /\ k <= n /\ P \in SUBSET (Nat \ {0})
      /\ p \in Nat /\ p - 1 \in Nat /\ p \in P /\ (p - 1) + 1 = p /\ (k + 1) + e - 1 = p
  BY DEF Swept
<1>2. /\ Rank(P, p - 1) = k - 1
      /\ \A i \in P : i < p => r[Rank(P, i)] = s[i]
      /\ \A j \in k..n : r[j] = s[j + e]
  BY DEF Swept
<1> HIDE DEF p, e, n
<1>3. Rank(P, p) = k
  <2>1. Rank(P, (p - 1) + 1) = Rank(P, p - 1) + (IF (p - 1) + 1 \in P THEN 1 ELSE 0)
    BY <1>1, RankFacts
  <2>2. QED
    BY <1>1, <1>2, <2>1
<1>4. r[k] = s[p]
  BY <1>1, <1>2 DEF p
<1>5. \A i \in P : i < (k + 1) + e => r[Rank(P, i)] = s[i]
  <2> TAKE i \in P
  <2> HAVE i < (k + 1) + e
  <2>1. i < p \/ i = p
    BY <1>1 DEF p
  <2>2. QED
    BY <1>2, <1>3, <1>4, <2>1
<1>6. \A j \in (k + 1)..n : r[j] = s[j + e]
  BY <1>1, <1>2
<1>7. Rank(P, (k + 1) + e - 1) = (k + 1) - 1
  BY <1>1, <1>3
<1>8. k + 1 \in 1..(n + 1)
  BY <1>1
<1>9. QED
  BY <1>1, <1>5, <1>6, <1>7, <1>8 DEF Swept, e, n

LEMMA SweepErases ==
    ASSUME NEW S, NEW s \in Seq(S), NEW P \in SUBSET DOMAIN s, NEW r \in Seq(S),
           NEW k \in 1..Len(r), Swept(r, s, P, k), k + (Len(s) - Len(r)) \notin P
    PROVE  Swept(RemoveAt(r, k), s, P, k)
<1> DEFINE n == Len(r)
           e == Len(s) - n
           p == k + e
           r2 == RemoveAt(r, k)
           e2 == Len(s) - Len(r2)
<1>1. Len(r2) = n - 1 /\ \A i \in 1..(n - 1) : r2[i] = IF i < k THEN r[i] ELSE r[i + 1]
  BY RemoveAtProperties
<1>2. /\ e \in Nat /\ n \in Nat /\ k \in Nat /\ k >= 1 /\ k <= n /\ P \in SUBSET (Nat \ {0})
      /\ p \in Nat /\ p - 1 \in Nat /\ p \notin P /\ (p - 1) + 1 = p /\ p = k + e
      /\ Len(s) \in Nat /\ e = Len(s) - n
  BY DEF Swept
<1>3. /\ Rank(P, p - 1) = k - 1
      /\ \A i \in P : i < p => r[Rank(P, i)] = s[i]
      /\ \A j \in k..n : r[j] = s[j + e]
  BY DEF Swept
<1> HIDE DEF p, e, n, r2, e2
<1>4. e2 = e + 1 /\ k + e2 - 1 = p /\ Len(r2) = n - 1
  BY <1>1, <1>2 DEF e2
<1>5. Rank(P, p) = k - 1
  <2> DEFINE q == p - 1
  <2>1. q \in Nat /\ P \in SUBSET (Nat \ {0})
    BY <1>2
  <2> HIDE DEF q
  <2>2. Rank(P, q + 1) = Rank(P, q) + (IF q + 1 \in P THEN 1 ELSE 0)
    BY <2>1, RankFacts
  <2>3. q + 1 = p /\ Rank(P, q) = k - 1
    BY <1>2, <1>3 DEF q
  <2>4. QED
    BY <1>2, <2>2, <2>3
<1>6. ASSUME NEW i \in P, i < k + e2 PROVE r2[Rank(P, i)] = s[i]
  <2>1. i \in Nat /\ i >= 1 /\ i <= p /\ i # p
    BY <1>2, <1>4, <1>6
  <2>2. i <= p - 1 /\ i < p /\ i - 1 \in Nat /\ (i - 1) + 1 = i
    BY <1>2, <2>1
  <2>3. Rank(P, i) <= k - 1 /\ Rank(P, i) \in Nat
    <3> DEFINE q == p - 1
    <3>1. q \in Nat /\ i \in Nat /\ i <= q /\ P \in SUBSET (Nat \ {0}) /\ Rank(P, q) = k - 1
      BY <1>2, <1>3, <2>1, <2>2
    <3> HIDE DEF q
    <3>2. Rank(P, i) <= Rank(P, q) /\ Rank(P, i) \in Nat
      BY <3>1, RankFacts
    <3>3. QED
      BY <3>1, <3>2
  <2>4. Rank(P, i) = Rank(P, i - 1) + 1 /\ Rank(P, i - 1) \in Nat
    <3>1. Rank(P, (i - 1) + 1) = Rank(P, i - 1) + (IF (i - 1) + 1 \in P THEN 1 ELSE 0)
          /\ Rank(P, i - 1) \in Nat
      BY <1>2, <2>2, RankFacts
    <3>2. QED
      BY <2>2, <3>1
  <2> DEFINE q == Rank(P, i)
  <2>5. q \in 1..(n - 1) /\ q < k
    BY <1>2, <2>3, <2>4
  <2> HIDE DEF q
  <2>6. r2[q] = r[q]
    BY <1>1, <2>5 DEF r2
  <2>7. r[q] = s[i]
    BY <1>3, <2>2 DEF q
  <2>8. QED
    BY <2>6, <2>7 DEF q
<1>7. ASSUME NEW j \in k..(n - 1) PROVE r2[j] = s[j + e2]
  <2>1. j \in 1..(n - 1) /\ ~ (j < k) /\ j + 1 \in k..n /\ (j + 1) + e = j + e2
    BY <1>2, <1>4
  <2>2. r2[j] = r[j + 1]
    BY <1>1, <2>1 DEF r2
  <2>3. r[j + 1] = s[(j + 1) + e]
    BY <1>3, <2>1
  <2>4. QED
    BY <2>1, <2>2, <2>3
<1>8. e2 \in Nat /\ k \in 1..(Len(r2) + 1)
  BY <1>2, <1>4
<1>9. QED
  BY <1>4, <1>5, <1>6, <1>7, <1>8 DEF Swept, e2, r2

LEMMA SweepEnds ==
    ASSUME NEW S, NEW s \in Seq(S), NEW P \in SUBSET DOMAIN s, NEW r \in Seq(S),
           NEW k \in Nat, k > Len(r), Swept(r, s, P, k)
    PROVE  Selects(r, s, P)
<1> DEFINE n == Len(r)
           e == Len(s) - n
<1>1. /\ e \in Nat /\ n \in Nat /\ k = n + 1 /\ Len(s) \in Nat /\ e = Len(s) - n
      /\ k + e - 1 = Len(s) /\ k - 1 = n
  BY DEF Swept
<1>2. Rank(P, k + e - 1) = k - 1 /\ \A i \in P : i < k + e => r[Rank(P, i)] = s[i]
  BY DEF Swept
<1> HIDE DEF n, e
<1>3. P \cap 1..Len(s) = P /\ \A i \in P : i \in Nat /\ i >= 1 /\ i <= Len(s)
  OBVIOUS
<1>4. Cardinality(P) = n
  BY <1>1, <1>2, <1>3 DEF Rank
<1>5. ASSUME NEW i \in P PROVE r[Cardinality({j \in P : j <= i})] = s[i]
  <2>1. {j \in P : j <= i} = P \cap 1..i
    BY <1>3
  <2>2. i < k + e
    BY <1>1, <1>3
  <2>3. QED
    BY <1>2, <2>1, <2>2 DEF Rank
<1>6. QED
  BY <1>4, <1>5 DEF Selects, n

(***************************************************************************)
(* Both sweeps keep the order.                                             *)
(***************************************************************************)
KeptFuncs  == {i \in DOMAIN source.funcs : source.funcs[i].name \in Needed}
KeptConsts == {i \in DOMAIN source.consts : source.consts[i] \in reachable_consts}

InOrder ==
    /\ phase = "sweep_funcs" => Swept(funcs, Source, KeptFuncs, it)
    /\ phase = "sweep_consts" \/ Pruned => Selects(funcs, Source, KeptFuncs)
    /\ phase = "sweep_consts" => Swept(consts, source.consts, KeptConsts, it)
    /\ Pruned => Selects(consts, source.consts, KeptConsts)

LEMMA InitInOrder == Init => InOrder
BY DEF Init, InOrder, Pruned

LEMMA StepInOrder ==
    ASSUME IInv, InOrder, [Next]_vars
    PROVE  InOrder'
<1> USE DEF Pruned
<1>1. /\ Source \in Seq(FunctionDef) /\ source.consts \in Seq(Idents)
      /\ funcs \in Seq(FunctionDef) /\ consts \in Seq(Idents) /\ it \in Nat /\ it >= 1
      /\ KeptFuncs \in SUBSET DOMAIN Source /\ KeptConsts \in SUBSET DOMAIN source.consts
  BY DEF IInv, TypeOK, Source, KeptFuncs, KeptConsts
<1>2. ASSUME phase' \in {"parse", "walk", "rejected", "missing"} PROVE InOrder'
  BY <1>2 DEF InOrder
<1>3. ASSUME UNCHANGED <<source, reachable_consts>>
      PROVE  Source' = Source /\ KeptFuncs' = KeptFuncs /\ KeptConsts' = KeptConsts
  BY <1>3 DEF Source, Needed, KeptFuncs, KeptConsts
<1>4. CASE Parse \/ SkipVisited \/ VisitMissing \/ Visit
  <2>1. phase' \in {"parse", "walk", "rejected", "missing"}
    BY <1>4 DEF Parse, ParseConstant, ParseFunction, add_main, SkipVisited, VisitMissing, Visit
  <2>2. QED
    BY <1>2, <2>1
<1>5. CASE WalkDone
  <2>1. /\ phase' = "sweep_funcs" /\ funcs' = Source /\ it' = 1
        /\ UNCHANGED <<source, reachable_consts>>
    BY <1>5 DEF WalkDone, IInv, Untouched, NotStarted
  <2>2. Swept(Source, Source, KeptFuncs, 1)
    BY <1>1, SweepBegins
  <2>3. QED
    BY <1>3, <2>1, <2>2 DEF InOrder
<1>6. CASE SweepFunction
  <2>1. /\ phase = "sweep_funcs" /\ phase' = "sweep_funcs" /\ it \in 1..Len(funcs)
        /\ UNCHANGED <<source, reachable_consts>> /\ reachable_funcs = Needed
    BY <1>1, <1>6 DEF SweepFunction, IInv, WalkExact, AfterWalk
  <2> DEFINE e == Len(Source) - Len(funcs)
             p == it + e
  <2>2. Swept(funcs, Source, KeptFuncs, it)
    BY <2>1 DEF InOrder
  <2>3. funcs[it] = Source[p] /\ p \in DOMAIN Source
    <3>1. \A j \in it..Len(funcs) : funcs[j] = Source[j + e]
      BY <2>2 DEF Swept
    <3>2. e \in Nat
      BY <2>2 DEF Swept
    <3>3. Len(Source) \in Nat /\ Len(funcs) \in Nat
      BY <1>1
    <3>4. it \in it..Len(funcs) /\ p \in 1..Len(Source)
      BY <2>1, <3>2, <3>3
    <3> HIDE DEF e
    <3>5. QED
      BY <1>1, <3>1, <3>4
  <2> HIDE DEF e, p
  <2>4. p \in KeptFuncs <=> funcs[it].name \in reachable_funcs
    BY <2>1, <2>3 DEF KeptFuncs, Source
  <2>5. CASE funcs[it].name \in reachable_funcs
    <3>1. it' = it + 1 /\ funcs' = funcs
      BY <1>6, <2>5 DEF SweepFunction
    <3>2. Swept(funcs, Source, KeptFuncs, it + 1)
      BY <1>1, <2>1, <2>2, <2>4, <2>5, SweepKeeps DEF p, e
    <3>3. QED
      BY <1>3, <2>1, <3>1, <3>2 DEF InOrder
  <2>6. CASE funcs[it].name \notin reachable_funcs
    <3>1. it' = it /\ funcs' = RemoveAt(funcs, it)
      BY <1>6, <2>6 DEF SweepFunction
    <3>2. Swept(RemoveAt(funcs, it), Source, KeptFuncs, it)
      BY <1>1, <2>1, <2>2, <2>4, <2>6, SweepErases DEF p, e
    <3>3. QED
      BY <1>3, <2>1, <3>1, <3>2 DEF InOrder
  <2>7. QED
    BY <2>5, <2>6
<1>7. CASE SweepFunctionsDone
  <2>1. /\ phase = "sweep_funcs" /\ phase' = "sweep_consts" /\ it > Len(funcs) /\ it' = 1
        /\ funcs' = funcs /\ consts' = source.consts
        /\ UNCHANGED <<source, reachable_consts>>
    BY <1>7 DEF SweepFunctionsDone, IInv, Untouched
  <2>2. Selects(funcs, Source, KeptFuncs)
    BY <1>1, <2>1, SweepEnds DEF InOrder
  <2>3. Swept(source.consts, source.consts, KeptConsts, 1)
    BY <1>1, SweepBegins
  <2>4. QED
    BY <1>3, <2>1, <2>2, <2>3 DEF InOrder
<1>8. CASE SweepConstant
  <2>1. /\ phase = "sweep_consts" /\ phase' = "sweep_consts" /\ it \in 1..Len(consts)
        /\ UNCHANGED <<funcs, source, reachable_consts>>
    BY <1>1, <1>8 DEF SweepConstant
  <2> DEFINE s == source.consts
             e == Len(s) - Len(consts)
             p == it + e
  <2>2. Swept(consts, s, KeptConsts, it)
    BY <2>1 DEF InOrder
  <2>3. s \in Seq(Idents) /\ KeptConsts \in SUBSET DOMAIN s
    BY <1>1
  <2>4. s' = s
    BY <2>1
  <2>5. p \in KeptConsts <=> p \in DOMAIN s /\ s[p] \in reachable_consts
    BY DEF KeptConsts
  <2> HIDE DEF s
  <2>6. consts[it] = s[p] /\ p \in DOMAIN s
    <3>1. \A j \in it..Len(consts) : consts[j] = s[j + e]
      BY <2>2 DEF Swept
    <3>2. e \in Nat
      BY <2>2 DEF Swept
    <3>3. Len(s) \in Nat /\ Len(consts) \in Nat
      BY <1>1, <2>3
    <3>4. it \in it..Len(consts) /\ p \in 1..Len(s)
      BY <2>1, <3>2, <3>3
    <3> HIDE DEF e
    <3>5. QED
      BY <2>3, <3>1, <3>4
  <2> HIDE DEF e, p
  <2>7. CASE consts[it] \in reachable_consts
    <3>1. it' = it + 1 /\ consts' = consts
      BY <1>8, <2>7 DEF SweepConstant
    <3>2. Swept(consts, s, KeptConsts, it + 1)
      BY <1>1, <2>1, <2>2, <2>3, <2>5, <2>6, <2>7, SweepKeeps DEF p, e
    <3>3. QED
      BY <1>3, <2>1, <2>4, <3>1, <3>2 DEF InOrder, s
  <2>8. CASE consts[it] \notin reachable_consts
    <3>1. it' = it /\ consts' = RemoveAt(consts, it)
      BY <1>8, <2>8 DEF SweepConstant
    <3>2. Swept(RemoveAt(consts, it), s, KeptConsts, it)
      BY <1>1, <2>1, <2>2, <2>3, <2>5, <2>6, <2>8, SweepErases DEF p, e
    <3>3. QED
      BY <1>3, <2>1, <2>4, <3>1, <3>2 DEF InOrder, s
  <2>9. QED
    BY <2>7, <2>8
<1>9. CASE EmitConstants
  <2>1. /\ phase = "sweep_consts" /\ phase' = "emit" /\ it > Len(consts)
        /\ UNCHANGED <<funcs, consts, source, reachable_consts>>
    BY <1>9 DEF EmitConstants
  <2>2. Selects(consts, source.consts, KeptConsts)
    BY <1>1, <2>1, SweepEnds DEF InOrder
  <2>3. QED
    BY <1>3, <2>1, <2>2 DEF InOrder
<1>10. CASE EmitFunction \/ EmitDone \/ Link
  <2>1. /\ Pruned /\ phase' \notin {"sweep_funcs", "sweep_consts"}
        /\ UNCHANGED <<funcs, consts, source, reachable_consts>>
    BY <1>10 DEF EmitFunction, EmitDone, Link
  <2>2. QED
    BY <1>3, <2>1 DEF InOrder
<1>11. CASE UNCHANGED vars
  <2>1. UNCHANGED <<phase, funcs, consts, source, reachable_consts, it>>
    BY <1>11 DEF vars
  <2>2. QED
    BY <1>3, <2>1 DEF InOrder
<1>12. CASE Terminated
  BY <1>11, <1>12 DEF Terminated
<1>13. QED
  BY <1>4, <1>5, <1>6, <1>7, <1>8, <1>9, <1>10, <1>11, <1>12 DEF Next, Step, Walk, Sweep, Emit

(***************************************************************************)
(* What is left after both sweeps stands in the order of the source,       *)
(* although they erase from the vector they iterate over                   *)
(* (compile.cpp:94-120).                                                   *)
(***************************************************************************)
THEOREM OrderIsKept == Spec => []OrderKept
<1>1. Init => IInv /\ InOrder
  BY InitIInv, InitInOrder
<1>2. IInv /\ InOrder /\ [Next]_vars => (IInv /\ InOrder)'
  BY StepIInv, StepInOrder
<1>3. IInv /\ InOrder => OrderKept
  BY DEF InOrder, OrderKept, KeptFuncs, KeptConsts, Needed, Source
<1>4. QED
  BY <1>1, <1>2, <1>3, PTL DEF Spec

-----------------------------------------------------------------------------
(* Refinement.                                                             *)

\* The names TreeShaking inherits from CallGraph mean the same there.
LEMMA SameCallGraph ==
    /\ \A s : Shaking!ToSet(s) = ToSet(s)
    /\ \A fs : Shaking!Names(fs) = Names(fs)
    /\ \A fs : Shaking!NeededFunctions(fs) = NeededFunctions(fs)
    /\ \A fs : Shaking!NeededConstants(fs) = NeededConstants(fs)
<1>0. \A s : Shaking!ToSet(s) = ToSet(s)
  BY DEF Shaking!ToSet, ToSet
<1>1. \A f : Shaking!Callees(f) = Callees(f)
  BY <1>0 DEF Shaking!Callees, Callees
<1>2. \A fs, i : Shaking!IsFirst(fs, i) <=> IsFirst(fs, i)
  BY DEF Shaking!IsFirst, IsFirst
<1>3. \A fs, S : Shaking!ClosedUnderCalls(fs, S) <=> ClosedUnderCalls(fs, S)
  BY <1>1, <1>2 DEF Shaking!ClosedUnderCalls, ClosedUnderCalls
<1>4. \A fs : Shaking!NeededFunctions(fs) = NeededFunctions(fs)
  BY <1>3 DEF Shaking!NeededFunctions, NeededFunctions
<1>5. \A f : Shaking!ConstantUses(f) = ConstantUses(f)
  BY DEF Shaking!ConstantUses, ConstantUses
<1>6. \A fs : Shaking!NeededConstants(fs) = NeededConstants(fs)
  BY <1>2, <1>4, <1>5 DEF Shaking!NeededConstants, NeededConstants
<1>7. \A fs : Shaking!Names(fs) = Names(fs)
  BY DEF Shaking!Names, Names
<1>8. QED
  BY <1>0, <1>4, <1>6, <1>7

(***************************************************************************)
(* prune implements TreeShaking: the walk and the two sweeps, taken one    *)
(* iteration at a time, amount to one atomic removal of what the entry     *)
(* point cannot reach, or to one refusal (compile.cpp:21-121).             *)
(***************************************************************************)
THEOREM Refinement == Spec => ImplementsTreeShaking
<1>1. Init => Shaking!Init
  BY DEF Init, Shaking!Init, Pruned
<1>2. IInv /\ [Next]_vars => [Shaking!Next]_(Shaking!vars)
  <2> SUFFICES ASSUME IInv, [Next]_vars
               PROVE  Shaking!Next \/ UNCHANGED Shaking!vars
    OBVIOUS
  <2> USE DEF Pruned
  <2>1. ASSUME NEW c \in ConstNames, ParseConstant(c)
        PROVE  UNCHANGED Shaking!vars
    BY <2>1 DEF ParseConstant, Shaking!vars
  <2>2. ASSUME NEW f \in Bodies, ParseFunction(f)
        PROVE  UNCHANGED Shaking!vars
    BY <2>2 DEF ParseFunction, Shaking!vars
  <2>3. CASE add_main
    <3>1. /\ phase = "parse" /\ phase' = "walk"
          /\ source'.funcs = <<MainFunction>> \o funcs
      BY <2>3 DEF add_main
    <3>2. source'.funcs # << >> /\ source'.funcs[1] = MainFunction
      BY <3>1 DEF IInv, TypeOK
    <3>3. MainFunction.name = Main
      BY DEF MainFunction
    <3>4. Shaking!Load
      BY <3>1, <3>2, <3>3 DEF Shaking!Load
    <3>5. QED
      BY <3>4 DEF Shaking!Next
  <2>4. CASE VisitMissing
    <3> DEFINE f == Last(todo)
    <3>1. /\ phase = "walk" /\ phase' = "missing"
          /\ todo \in Seq(FunctionDef) /\ todo # << >>
          /\ \E n \in Callees(f) : ~ has_function(n)
          /\ funcs = Source /\ consts = source.consts /\ source' = source
      BY <2>4 DEF VisitMissing, IInv, TypeOK, Untouched
    <3>2. f \in ToSet(todo)
      <4>1. todo \in Seq(FunctionDef) /\ todo # << >>
        BY <3>1
      <4>2. ToSet(todo) = ToSet(Front(todo)) \cup {Last(todo)}
        BY <4>1, FrontLast
      <4>3. QED
        BY <4>2
    <3>3. PICK i \in DOMAIN Source : f = Source[i] /\ IsFirst(Source, i)
      BY <3>1, <3>2 DEF IInv, StackSound
    <3>4. f.name \in Needed
      BY <3>1, <3>2, NamesOfToSet DEF IInv, StackSound
    <3>5. Source \in Seq(FunctionDef)
      BY DEF IInv, TypeOK, Source
    <3>6. Callees(f) \subseteq Needed
      BY <3>3, <3>4, <3>5, NeededClosed DEF Needed, ClosedUnderCalls
    <3>7. ~ (Needed \subseteq Names(Source))
      BY <3>1, <3>6 DEF has_function, Names
    <3>8. Shaking!Refuse
      BY <3>1, <3>7, SameCallGraph DEF Shaking!Refuse, Needed, Source
    <3>9. QED
      BY <3>8 DEF Shaking!Next
  <2>5. CASE EmitConstants
    <3>1. /\ phase = "sweep_consts" /\ phase' = "emit"
          /\ UNCHANGED <<funcs, consts, source>>
      BY <2>5 DEF EmitConstants
    <3>2. /\ reachable_funcs = Needed
          /\ Needed \subseteq Names(Source)
          /\ NeededConstants(Source) \subseteq reachable_consts
      BY <3>1 DEF IInv, WalkExact, AfterWalk
    <3>3. /\ ToSet(funcs) \subseteq ToSet(Source)
          /\ \A f \in ToSet(Source) : f.name \in Needed => f \in ToSet(funcs)
          /\ \A f \in ToSet(funcs) : f.name \in Needed
      BY <3>1 DEF IInv, FunctionsSwept, AfterWalk
    <3>4. ToSet(funcs) = {f \in ToSet(Source) : f.name \in Needed}
      BY <3>3
    <3>5. /\ ToSet(consts) \subseteq ToSet(source.consts)
          /\ NeededConstants(Source) \cap ToSet(source.consts) \subseteq ToSet(consts)
      BY <3>1, <3>2 DEF IInv, ConstantsSwept, AfterWalk
    <3>6. Shaking!Shake
      BY <3>1, <3>2, <3>4, <3>5, SameCallGraph DEF Shaking!Shake, Needed, Source
    <3>7. QED
      BY <3>6 DEF Shaking!Next
  <2>6. CASE SkipVisited \/ Visit \/ WalkDone \/ Sweep
    <3>1. /\ phase \in {"walk", "sweep_funcs", "sweep_consts"}
          /\ phase' \in {"walk", "sweep_funcs", "sweep_consts"}
          /\ source' = source
      BY <2>6 DEF SkipVisited, Visit, WalkDone, Sweep, SweepFunction,
         SweepFunctionsDone, SweepConstant
    <3>2. QED
      BY <3>1 DEF Shaking!vars
  <2>7. CASE EmitFunction \/ EmitDone \/ Link
    <3>1. Pruned /\ Pruned' /\ UNCHANGED <<funcs, consts>>
      BY <2>7 DEF EmitFunction, EmitDone, Link
    <3>2. QED
      BY <3>1 DEF Shaking!vars
  <2>8. CASE UNCHANGED vars
    BY <2>8 DEF vars, Shaking!vars
  <2>9. CASE Terminated
    BY <2>8, <2>9 DEF Terminated
  <2>10. QED
    BY <2>1, <2>2, <2>3, <2>4, <2>5, <2>6, <2>7, <2>8, <2>9
       DEF Next, Step, Parse, Walk, Emit
<1>3. QED
  BY <1>1, <1>2, Invariance, PTL DEF Spec, ImplementsTreeShaking, Shaking!Spec

=============================================================================
