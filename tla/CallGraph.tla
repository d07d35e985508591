----------------------------- MODULE CallGraph -----------------------------
(***************************************************************************)
(* What an ij program means to the passes that run after parsing: a        *)
(* sequence of function definitions and a sequence of constants.  A        *)
(* definition is the record of the names its body mentions,                *)
(*                                                                         *)
(*   name     the function's name                                          *)
(*   args     the names of its arguments                                   *)
(*   vars     the names Function::get_vars finds (var statements)          *)
(*   invokes  the arguments of its INVOKEVIRTUAL jas statements, in order  *)
(*   calls    the functions its call expressions name, in order            *)
(*   ldcs     the arguments of its LDC_W jas statements                    *)
(*   idents   the identifiers its expressions read                         *)
(*                                                                         *)
(* This module states which functions and constants a program needs: the   *)
(* least sets closed under "the body mentions it", whatever the algorithm  *)
(* that computes them.                                                     *)
(***************************************************************************)
EXTENDS Naturals, Sequences, SequencesExt

CONSTANTS
    Idents,      \* every name that may occur in a program
    Main,        \* "main", the name of the entry point the compiler adds
    UserMain     \* "__main__", the function the entry point calls

ASSUME NamesAssumption ==
    /\ Main \in Idents
    /\ UserMain \in Idents
    /\ Main # UserMain

FunctionDef ==
    [name    : Idents,
     args    : SUBSET Idents,
     vars    : SUBSET Idents,
     invokes : Seq(Idents),
     calls   : Seq(Idents),
     ldcs    : SUBSET Idents,
     idents  : SUBSET Idents]

-----------------------------------------------------------------------------

Names(fs) == {fs[i].name : i \in DOMAIN fs}

\* The functions a body mentions, in a call or in an INVOKEVIRTUAL.
Callees(f) == ToSet(f.invokes) \cup ToSet(f.calls)

\* The names for which a constant is loaded: neither a variable nor an
\* argument hides them.
ConstantUses(f) == f.ldcs \cup (f.idents \ (f.vars \cup f.args))

\* A lookup by name finds the first definition of that name.
IsFirst(fs, i) == \A j \in DOMAIN fs : j < i => fs[j].name # fs[i].name

\* S contains the entry point and the callees of the functions in it.
ClosedUnderCalls(fs, S) ==
    /\ Main \in S
    /\ \A i \in DOMAIN fs :
          (IsFirst(fs, i) /\ fs[i].name \in S) => Callees(fs[i]) \subseteq S

\* The least closed set: the functions an execution could ever enter.
NeededFunctions(fs) ==
    {n \in Idents : \A S \in SUBSET Idents : ClosedUnderCalls(fs, S) => n \in S}

NeededConstants(fs) ==
    LET needed == NeededFunctions(fs)
    IN  UNION {ConstantUses(fs[i]) :
                  i \in {j \in DOMAIN fs : IsFirst(fs, j) /\ fs[j].name \in needed}}

\* r holds what s holds at the positions P, in the order of s.
Selects(r, s, P) ==
    /\ Len(r) = Cardinality(P)
    /\ \A i \in P : r[Cardinality({j \in P : j <= i})] = s[i]

UniqueNames(fs) == \A i, j \in DOMAIN fs : fs[i].name = fs[j].name => i = j

=============================================================================
