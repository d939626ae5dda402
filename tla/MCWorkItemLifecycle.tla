------------------------- MODULE MCWorkItemLifecycle -------------------------
(* Small instances of WorkItemLifecycle for TLC: model values of the cfgs.   *)
EXTENDS WorkItemLifecycle, TLC

CONSTANTS a1, a2,       \* attempts
          art1, art2,   \* artifacts
          r1, r2,       \* revisions
          c1, c2,       \* criteria
          d1, d2,       \* decision ids
          p1            \* a reviewer

\* No rule compares these ids other than for equality.
Symmetries == Permutations(AttemptId) \cup Permutations(Revision) \cup Permutations(DecisionId)

\* Bound: a second attempt, an artifact of a second id or a second piece of
\* evidence, one of them in a behaviour.
Small ==
    item # None =>
        Cardinality({a \in AttemptId : item.attempts[a].status # "absent"})
            + Cardinality({x.id : x \in item.artifacts}) + Cardinality(item.evidence) <= 4

SmallSpec == Init /\ [][Next /\ Small']_vars
=============================================================================
