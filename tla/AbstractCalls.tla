---------------------------- MODULE AbstractCalls ----------------------------
(***************************************************************************)
(* What a pool of workers promises its callers: a call that was made is    *)
(* answered once, whatever becomes of the workers.  A call may be made     *)
(* again after its answer, and may be answered in the step that makes it,  *)
(* so turn tells the steps that make a call from all the others: an answer *)
(* is replaced by no step but one in which its own caller asked again.     *)
(***************************************************************************)
EXTENDS Integers

CONSTANTS
    Call,       \* the calls
    Answer      \* what a call may be answered with

VARIABLES
    call,       \* call[c]: "new", "open", or its answer
    turn        \* the parity of the number of calls made

vars == <<call, turn>>

Init == call = [c \in Call |-> "new"] /\ turn = 0

\* Of the calls cs, some of the open ones are answered and none changes in
\* another way.
Answered(cs) ==
    /\ call' \in [Call -> Answer \cup {"new", "open"}]
    /\ \A c \in cs : call'[c] # call[c] => call[c] = "open" /\ call'[c] \in Answer

\* The caller of c, who is not waiting, asks; c may be answered at once.
Ask(c) ==
    /\ call[c] # "open" /\ turn' = 1 - turn
    /\ Answered(Call \ {c}) /\ call'[c] # "new"

Settle == Answered(Call) /\ UNCHANGED turn

Next == Settle \/ \E c \in Call : Ask(c)

Spec == Init /\ [][Next]_vars

\* No call stays open.
FairSpec == Spec /\ \A c \in Call : call[c] = "open" ~> call[c] # "open"
=============================================================================
