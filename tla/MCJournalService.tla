-------------------------- MODULE MCJournalService --------------------------
(* Instances of JournalService for TLC: e1 and e2 are appended directly, the  *)
(* snapshot b1 brings i1, and e2 applies once i1 is there.                   *)
EXTENDS JournalService, TLC

CONSTANTS c1, c2, e1, e2, i1, b1

MCBatchEvents == [b \in Batch |-> <<i1>>]
MCNeeds == [e \in Event |-> IF e = e2 THEN {i1} ELSE {}]
Symmetries == Permutations(Caller)
=============================================================================
