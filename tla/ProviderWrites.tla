--------------------------- MODULE ProviderWrites ---------------------------
(***************************************************************************)
(* The two kinds of controlled writes of one Control Room: issues that are *)
(* created for a person (ControlledWrite), and issues of accepted work     *)
(* items that are moved (LinearTransition).  Each has its operations, its  *)
(* journal and its coordinators; they share nothing but the process, and   *)
(* their steps interleave.                                                 *)
(***************************************************************************)
EXTENDS ControlledWrite

CONSTANTS
    Revision,     \* of the issues that are moved
    Move,         \* operations: the decisions that move an issue
    MoveLimit,    \* records their journal may hold
    MovedItem,    \* work items whose issues are moved
    ItemOf,
    MoveRequest,  \* HTTP requests that deliver a decision or reconcile
    Coordinator,
    Dispatcher,
    MaxDrift

VARIABLES
    moveDisk, moveLoaded, moveJournalFenced, moveMode, accepted, decided, observed,
    remote, sent, updates, bound, moveFenced, call

moveVars ==
    <<moveDisk, moveLoaded, moveJournalFenced, moveMode, accepted, decided, observed,
      remote, sent, updates, bound, moveFenced, call>>

\* LinearTransition, with what is proved of it.
Lin == INSTANCE LinearTransitionProofs WITH
    Plan <- Revision,
    Operation <- Move,
    RecordLimit <- MoveLimit,
    WorkItem <- MovedItem,
    Request <- MoveRequest,
    disk <- moveDisk,
    loaded <- moveLoaded,
    journalFenced <- moveJournalFenced,
    mode <- moveMode,
    fenced <- moveFenced

\* What LinearTransition assumes of its constants.
ASSUME MoveAssumption ==
    /\ None \notin Revision /\ None \notin Lin!Approval
    /\ None \notin Lin!Record /\ None \notin Lin!File
    /\ MoveLimit \in Nat
    /\ Lin!RevisionsArePlans

WritesInit == Init /\ Lin!Init

WritesNext ==
    \/ Next /\ UNCHANGED moveVars
    \/ Lin!Next /\ UNCHANGED vars

WritesSpec == WritesInit /\ [][WritesNext]_<<vars, moveVars>>

\* See LinearTransition: however often a decision is delivered, its issue is
\* moved at most once.
OneUpdate == Lin!OneUpdate

\* See ControlledWrite, LinearTransition: what the records say of a write is so.
RecordsAreTrue == RecordedOutcomeIsTrue /\ Lin!RecordsAreTrue
=============================================================================
