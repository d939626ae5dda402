---------------------------- MODULE MCAttemptRun ----------------------------
(* Instances of AttemptRun for TLC: two work items with a capacity of two,   *)
(* and with the default capacity of one and more attempts.                   *)
EXTENDS AttemptRun, TLC

CONSTANTS w1, w2

MCMaxAttempts == [c \in Capacity |-> IF c = 1 THEN 2 ELSE 1]
=============================================================================
