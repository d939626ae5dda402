-------------------------- MODULE MCProviderWrites --------------------------
(* ProviderWrites for TLC: issues that are created and issues that are moved; *)
(* the records both keep in full (WriteRecord, TransitionRecord); and the page *)
(* from which an operator runs, decides and reconciles (ControlRoomPage).     *)
(* They never meet: a behaviour runs one of these parts, so that the sizes of *)
(* their state spaces add up.                                                 *)
EXTENDS ProviderWrites, ControlRoomPage, TLC

CONSTANTS o1, o2, plan1, plan2, w1, w2, q1, q2, k1, k2, k3

VARIABLES
    part,  \* which of them runs
    writeOp, moveOp

\* Two requests deliver the one decision there is; the issue is edited once by
\* others, and once by each update that lands.
MCItemOf == o1 :> w1
MCRevision == 0..2

CreateRecord == INSTANCE WriteRecord WITH
    Request <- {"r1", "r2"},
    Target <- {"t1", "t2"},
    Source <- {"s1"},
    Payload <- {"y1", "y2"},
    MaxTime <- 2,
    MaxAttempts <- 2,
    op <- writeOp

MoveRecord == INSTANCE TransitionRecord WITH
    Decision <- {"d1", "d2"},
    Issue <- {"i1", "i2"},
    State <- {"s1", "s2", "s3"},
    MaxTime <- 1,
    MaxAttempts <- 2,
    op <- moveOp

\* The page: two work items, two commands, facts that open other reviews, and a lost
\* request.
MCInit ==
    /\ part \in {"create", "move", "createRecord", "moveRecord", "page"}
    /\ WritesInit /\ CreateRecord!Init /\ MoveRecord!Init /\ PageInit

\* A record ends where it is final, or at its bounds.
MCNext ==
    \/ part = "create" /\ Next /\ UNCHANGED <<part, moveVars, writeOp, moveOp, controlRoomVars>>
    \/ part = "move" /\ Lin!Next /\ UNCHANGED <<part, vars, writeOp, moveOp, controlRoomVars>>
    \/ part = "createRecord" /\ CreateRecord!Next
        /\ UNCHANGED <<part, vars, moveVars, moveOp, controlRoomVars>>
    \/ part = "moveRecord" /\ MoveRecord!Next
        /\ UNCHANGED <<part, vars, moveVars, writeOp, controlRoomVars>>
    \/ part = "page" /\ PageNext /\ UNCHANGED <<part, vars, moveVars, writeOp, moveOp>>
    \/ (writeOp # None \/ moveOp # None \/ commands = 2)
        /\ UNCHANGED <<part, vars, moveVars, writeOp, moveOp, controlRoomVars>>

MCSpec == MCInit /\ [][MCNext]_<<part, vars, moveVars, writeOp, moveOp, controlRoomVars>>

\* See WriteRecord, TransitionRecord: the journal accepts what a transition makes
\* of a record and nothing else, and records in full take the steps of
\* ProviderOperation.
JournalAcceptsTransitions ==
    /\ CreateRecord!JournalAcceptsTransitions /\ MoveRecord!JournalAcceptsTransitions
    /\ CreateRecord!IsProviderOperation /\ MoveRecord!IsProviderOperation

Symmetries ==
    Permutations({q1, q2}) \cup Permutations({k1, k2, k3})
        \cup Permutations(Plan)
=============================================================================
