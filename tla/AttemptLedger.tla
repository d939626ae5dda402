---------------------------- MODULE AttemptLedger ----------------------------
(***************************************************************************)
(* What running a digital employee promises about a work item's attempts,  *)
(* whatever happens inside: attempts follow each other, an ended attempt   *)
(* never changes, and an attempt somebody was promised the interruption of *)
(* ends interrupted.                                                       *)
(***************************************************************************)
EXTENDS Sequences, Naturals

CONSTANTS WorkItem, Outcome

VARIABLES
    history,   \* the attempts of each work item, oldest first
    promised   \* the work items whose current attempt may only end interrupted

IsRunning(h) == h # <<>> /\ h[Len(h)] = "running"

Init ==
    /\ history = [w \in WorkItem |-> <<>>]
    /\ promised = {}

Begin(w) ==
    /\ ~IsRunning(history[w])
    /\ history' = [history EXCEPT ![w] = Append(@, "running")]
    /\ promised' \in {promised, promised \cup {w}}

End(w) ==
    /\ IsRunning(history[w])
    /\ \E o \in Outcome :
        /\ w \in promised => o = "interrupted"
        /\ history' = [history EXCEPT ![w][Len(history[w])] = o]
    /\ promised' \in {promised, promised \ {w}}

\* A promise is made at any time and dropped only when nothing is running.
Promise ==
    /\ promised' \in SUBSET WorkItem
    /\ \A w \in promised \ promised' : ~IsRunning(history[w])
    /\ UNCHANGED history

Next == Promise \/ \E w \in WorkItem : Begin(w) \/ End(w)

Spec == Init /\ [][Next]_<<history, promised>>
=============================================================================
