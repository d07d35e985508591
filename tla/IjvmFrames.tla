----------------------------- MODULE IjvmFrames -----------------------------
(***************************************************************************)
(* What a call promises on any IJVM: the abstract specification of the     *)
(* frames that the x64 backend builds.  A frame is a function with its     *)
(* variables, its own operand stack and the place its code has come to.    *)
(* The callee's frame takes the arguments from the caller's stack; a       *)
(* return gives the caller its frame back, with one word in place of the   *)
(* object reference and the arguments.                                     *)
(*                                                                         *)
(* What a variable holds that was never assigned is left open.             *)
(***************************************************************************)
EXTENDS Integers, Sequences

CONSTANTS
    Functions,  \* name -> its args and vars, two sequences of names
    Main,       \* the function that runs first
    Numbers,    \* the words a program computes with
    Sites,      \* the calls in the code of a function
    Natives     \* name -> how many words a runtime function takes, whether it gives one

VARIABLES
    frames,     \* the active frames, the running one last
    native,     \* the runtime function that was just called, with its arguments
    over        \* the program has ended

vars == <<frames, native, over>>

Names(s) == {s[i] : i \in DOMAIN s}
locals(f) == Names(Functions[f].args) \cup Names(Functions[f].vars)

NoNative == <<"none">>
Start    == 0   \* the site of a frame that no call has returned to

top      == frames[Len(frames)]
callers  == SubSeq(frames, 1, Len(frames) - 1)
keep(s, n) == SubSeq(s, 1, Len(s) - n)   \* the stack without its top n words
last(s, n) == SubSeq(s, Len(s) - n + 1, Len(s))

\* The running frame when n operands have been taken from it.
popped(n) == [top EXCEPT !.stack = keep(@, n)]

\* `f` is a frame of function g at site s, with stack st.
IsFrame(f, g, s, st) ==
    f.fn = g /\ f.site = s /\ f.stack = st /\ DOMAIN f.locals = locals(g)

Init ==
    /\ Len(frames) = 1
    /\ IsFrame(frames[1], Main, Start, << >>)
    /\ native = NoNative /\ over = FALSE

Becomes(f) == frames' = Append(callers, f) /\ native' = NoNative /\ UNCHANGED over

Push == \E n \in Numbers : Becomes([top EXCEPT !.stack = Append(@, n)])

Load == \E x \in locals(top.fn) :
    Becomes([top EXCEPT !.stack = Append(@, top.locals[x])])

Store == \E x \in locals(top.fn) :
    /\ top.stack # << >>
    /\ Becomes([popped(1) EXCEPT !.locals[x] = top.stack[Len(top.stack)]])

\* A runtime function gets the words on top of the stack, the topmost first,
\* and may answer anything.
Native == \E f \in DOMAIN Natives :
    LET t == Natives[f].takes
    IN  /\ Len(top.stack) >= t
        /\ native' = <<f>> \o [i \in 1 .. t |-> top.stack[Len(top.stack) + 1 - i]]
        /\ \/ Natives[f].gives /\ \E n \in Numbers :
                frames' = Append(callers, [popped(t) EXCEPT !.stack = Append(@, n)])
           \/ ~ Natives[f].gives /\ frames' = Append(callers, popped(t))
        /\ UNCHANGED over

Exit == \E f \in {"halt", "error"} :
    native' = <<f>> /\ over' = TRUE /\ UNCHANGED frames

\* The callee starts with its arguments, in their order, and an empty stack.
Invoke == \E f \in DOMAIN Functions \ {Main}, s \in Sites :
    LET args == Functions[f].args
        n    == Len(args)
        new  == frames'[Len(frames')]
    IN  /\ Len(top.stack) >= n + 1
        /\ Len(frames') = Len(frames) + 1
        /\ SubSeq(frames', 1, Len(frames)) =
              Append(callers, [popped(n + 1) EXCEPT !.site = s])
        /\ IsFrame(new, f, Start, << >>)
        /\ \A i \in 1 .. n : new.locals[args[i]] = last(top.stack, n)[i]
        /\ native' = NoNative /\ UNCHANGED over

Return ==
    /\ top.fn # Main
    /\ top.stack # << >>
    /\ LET caller == frames[Len(frames) - 1]
       IN  frames' = Append(SubSeq(frames, 1, Len(frames) - 2),
                            [caller EXCEPT !.stack = Append(@, top.stack[Len(top.stack)])])
    /\ native' = NoNative /\ UNCHANGED over

Next == ~ over /\ (Push \/ Load \/ Store \/ Native \/ Invoke \/ Return \/ Exit)

Spec == Init /\ [][Next]_vars

=============================================================================
