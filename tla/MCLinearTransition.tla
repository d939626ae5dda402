------------------------- MODULE MCLinearTransition -------------------------
(* Instances of LinearTransition for TLC.                                    *)
EXTENDS LinearTransition, TLC

CONSTANTS o1, o2, w1, w2, q1, q2, k1, k2, k3, k4

\* Two decisions about one work item, and one decision about each of two
MCOneItem == [o \in Operation |-> w1]
MCItemEach == [o \in Operation |-> IF o = o1 THEN w1 ELSE w2]

\* The revisions others make and one for each update that lands.
MCRevisions == 0..(MaxDrift + Cardinality(Operation))

Symmetries == Permutations(Request) \cup Permutations(Coordinator)
SymmetriesOfOneItem == Permutations(Operation) \cup Symmetries
=============================================================================
