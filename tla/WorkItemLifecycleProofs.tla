----------------------- MODULE WorkItemLifecycleProofs -----------------------
(***************************************************************************)
(* What WorkItemLifecycle guarantees for every number of attempts,         *)
(* artifacts, criteria, timestamps and reviewers: what an accepted item    *)
(* stands for, and what facts that arrive late or out of order can and     *)
(* cannot do to a work item (which attempt and artifact stay active, what  *)
(* a decision in force is about, how an acceptance ends).                  *)
(***************************************************************************)
EXTENDS WorkItemLifecycle, TLAPS

(***************************************************************************)
(* Every handler of workflow.ts returns a well-formed item.                *)
(***************************************************************************)

\* An attempt.started event, early or late, yields a well-formed item.
LEMMA StartedType ==
    ASSUME NEW w \in WorkItem, NEW a \in AttemptId, NEW t \in Time
    PROVE  Started(w, a, t) \in WorkItem
<1>1. ASSUME HasActive(w) PROVE StartedLate(w, a, t) \in WorkItem
    <2>1. w.activeAttemptId \in AttemptId
        BY <1>1 DEF HasActive, WorkItem
    <2>2. ActiveAttempt(w).startedAt \in Time \cup {None}
        BY <2>1 DEF ActiveAttempt, WorkItem, Attempt
    <2>3. NewAttempt("superseded", t, ActiveAttempt(w).startedAt) \in Attempt
        BY <2>2 DEF NewAttempt, Attempt, AttemptStatus
    <2> QED BY <2>3 DEF StartedLate, WorkItem
<1>2. StartedNow(w, a, t) \in WorkItem
    <2>1. NewAttempt("running", t, None) \in Attempt
        BY DEF NewAttempt, Attempt, AttemptStatus
    <2>2. ASSUME NEW b \in AttemptId
          PROVE  [w.attempts[b] EXCEPT !.status = "superseded", !.completedAt = t] \in Attempt
        BY DEF WorkItem, Attempt, AttemptStatus
    <2> QED BY <2>1, <2>2 DEF StartedNow, WorkItem, ItemStatus
<1> QED BY <1>1, <1>2 DEF Started

\* An attempt.finished event yields a well-formed item.
LEMMA FinishedType ==
    ASSUME NEW w \in WorkItem, NEW a \in AttemptId, NEW o \in Outcome, NEW t \in Time
    PROVE  Finished(w, a, o, t) \in WorkItem
<1>1. EndedAttempt(w, a, o, t) \in Attempt
    BY DEF EndedAttempt, Attempt, AttemptStatus, WorkItem
<1>2. [w.attempts EXCEPT ![a] = EndedAttempt(w, a, o, t)] \in [AttemptId -> Attempt]
    BY <1>1 DEF WorkItem
<1> QED BY <1>2 DEF Finished, WorkItem, ItemStatus

\* An artifact.linked event yields a well-formed item.
LEMMA ArtifactLinkedType ==
    ASSUME NEW w \in WorkItem, NEW a \in AttemptId, NEW id \in ArtifactId,
           NEW rev \in Revision, NEW t \in Time
    PROVE  ArtifactLinked(w, a, id, rev, t) \in WorkItem
<1>1. StatusOfAttempt(w) \in ItemStatus
    BY DEF StatusOfAttempt, WorkItem, ItemStatus
<1>2. [id |-> id, attemptId |-> a, revision |-> rev, linkedAt |-> t] \in Artifact
    BY DEF Artifact
<1>3. [artifactId |-> id, revision |-> rev, linkedAt |-> t] \in ActiveArtifact
    BY DEF ActiveArtifact
<1> QED BY <1>1, <1>2, <1>3 DEF ArtifactLinked, WorkItem

\* An evidence.recorded event yields a well-formed item.
LEMMA EvidenceRecordedType ==
    ASSUME NEW w \in WorkItem, NEW e \in Evidence
    PROVE  EvidenceRecorded(w, e) \in WorkItem
<1> DEFINE v == [w EXCEPT !.evidence = @ \cup {e}]
<1>1. v \in WorkItem
    BY DEF WorkItem
<1>2. ASSUME NEW s \in {"blocked", "reviewing"}, NEW d \in {w.acceptanceDecision, None}
      PROVE  [v EXCEPT !.status = s, !.acceptanceDecision = d] \in WorkItem
    BY <1>1 DEF WorkItem, ItemStatus
<1>3. v.acceptanceDecision = w.acceptanceDecision
    BY DEF WorkItem
<1> HIDE DEF v
<1>4. \/ EvidenceRecorded(w, e) = v
      \/ \E s \in {"blocked", "reviewing"}, d \in {v.acceptanceDecision, None} :
            EvidenceRecorded(w, e) = [v EXCEPT !.status = s, !.acceptanceDecision = d]
    BY Zenon DEF EvidenceRecorded, v
<1> QED BY <1>1, <1>2, <1>3, <1>4

\* The latest evidence of a criterion is evidence the item holds, or null.
LEMMA LatestEvidenceType ==
    ASSUME NEW w \in WorkItem, NEW c
    PROVE  LatestEvidence(w, c) \in Evidence \cup {None}
<1> DEFINE S == CurrentEvidence(w, c)
<1>1. S \subseteq Evidence
    BY DEF CurrentEvidence, WorkItem
<1> HIDE DEF S
<1>2. Newest(S) \in S \cup {None}
    BY DEF Newest
<1> QED BY <1>1, <1>2 DEF LatestEvidence, S

\* What a reviewer signs is a review revision.
LEMMA ReviewRevisionType ==
    ASSUME NEW w \in WorkItem, w.acceptanceDecision = None
    PROVE  ReviewRevision(w) \in ReviewRevisions({None})
<1>1. [c \in RequiredEvidence |-> LatestEvidence(w, c)]
            \in [RequiredEvidence -> Evidence \cup {None}]
    BY LatestEvidenceType
<1>2. HasActive(w) => ActiveAttempt(w) \in Attempt
    BY DEF HasActive, ActiveAttempt, WorkItem
<1> QED BY <1>1, <1>2 DEF ReviewRevision, ReviewRevisions, WorkItem

\* A decision yields a well-formed item.
LEMMA DecidedType ==
    ASSUME NEW w \in WorkItem, NEW v \in {"accepted", "rejected"}, NEW t \in Time,
           NEW b \in Basis \cup {None}
    PROVE  Decided(w, v, b, t) \in WorkItem
<1> DEFINE d == [decision |-> v, decidedAt |-> t, basis |-> b]
<1>1. d \in Decision
    BY DEF Decision
<1> HIDE DEF d
<1>2. Append(w.acceptanceHistory, d) \in Seq(Decision)
    BY <1>1 DEF WorkItem
<1>3. Decided(w, v, b, t) = [w EXCEPT !.status = IF v = "accepted" THEN "accepted" ELSE "blocked",
                                     !.acceptanceDecision = d,
                                     !.acceptanceHistory = Append(@, d)]
    BY DEF Decided, d
<1> QED BY <1>1, <1>2, <1>3 DEF WorkItem, ItemStatus

\* The basis of a v2 decision binds the active attempt and artifact.
LEMMA BasisType ==
    ASSUME NEW w \in WorkItem, NEW v, NEW t, NEW d \in DecisionId, NEW rr,
           CanDecide(w, v, rr, t)
    PROVE  BasisOf(w, d, rr) \in Basis
<1>1. rr \in ReviewRevisions({None})
    BY ReviewRevisionType DEF CanDecide
<1>2. w.activeAttemptId \in AttemptId
    BY DEF CanDecide, HasActive, WorkItem
<1>3. w.activeArtifact # None =>
        w.activeArtifact.artifactId \in ArtifactId /\ w.activeArtifact.revision \in Revision
    BY DEF WorkItem, ActiveArtifact
<1> QED BY <1>1, <1>2, <1>3 DEF BasisOf, Basis

LEMMA CreatedType == CreatedItem \in WorkItem
<1>1. NoAttempt \in Attempt
    BY DEF NoAttempt, NewAttempt, Attempt, AttemptStatus
<1>2. <<>> \in Seq(Decision)
    OBVIOUS
<1> QED BY <1>1, <1>2 DEF CreatedItem, WorkItem, ItemStatus
-----------------------------------------------------------------------------
(***************************************************************************)
(* Types and the facts behind an acceptance.                               *)
(***************************************************************************)

\* Each variable keeps its type, for every event in every order.
THEOREM Typing == Spec => []TypeOK
<1>1. Init => TypeOK
    BY DEF Init, TypeOK
<1>2. TypeOK /\ [Next]_vars => TypeOK'
    <2> SUFFICES ASSUME TypeOK, [Next]_vars PROVE TypeOK'
        OBVIOUS
    <2> DEFINE Pages == [Reviewer -> ReviewRevisions({None}) \cup {None}]
    <2>w. item # None => item \in WorkItem
        BY DEF TypeOK
    <2>p. page \in Pages
        BY DEF TypeOK
    <2>1. CASE Create
        BY <2>1, <2>p, CreatedType DEF Create, TypeOK
    <2>2. ASSUME NEW a \in AttemptId, NEW t \in Time, StartAttempt(a, t) PROVE TypeOK'
        BY <2>2, <2>w, <2>p, StartedType DEF StartAttempt, TypeOK
    <2>3. ASSUME NEW a \in AttemptId, NEW o \in Outcome, NEW t \in Time, FinishAttempt(a, o, t)
          PROVE  TypeOK'
        BY <2>3, <2>w, <2>p, FinishedType DEF FinishAttempt, TypeOK
    <2>4. ASSUME NEW a \in AttemptId, NEW id \in ArtifactId, NEW rev \in Revision,
                 NEW t \in Time, LinkArtifact(a, id, rev, t)
          PROVE  TypeOK'
        BY <2>4, <2>w, <2>p, ArtifactLinkedType DEF LinkArtifact, TypeOK
    <2>5. ASSUME NEW e \in Evidence, RecordEvidence(e) PROVE TypeOK'
        BY <2>5, <2>w, <2>p, EvidenceRecordedType DEF RecordEvidence, TypeOK
    <2>6. ASSUME NEW r \in Reviewer, OpenReview(r) PROVE TypeOK'
        <3>1. ReviewRevision(item) \in ReviewRevisions({None})
            BY <2>6, <2>w, ReviewRevisionType DEF OpenReview
        <3> QED BY <2>6, <2>p, <3>1 DEF OpenReview, TypeOK
    <2>7. ASSUME NEW r \in Reviewer, NEW v \in {"accepted", "rejected"}, NEW d \in DecisionId,
                 NEW t \in Time, DecideAcceptance(r, v, d, t)
          PROVE  TypeOK'
        <3>1. BasisOf(item, d, page[r]) \in Basis
            BY <2>7, <2>w, BasisType DEF DecideAcceptance
        <3>2. item' \in WorkItem
            BY <2>7, <2>w, <3>1, DecidedType DEF DecideAcceptance, DecidedV2
        <3> QED BY <2>7, <2>p, <3>2 DEF DecideAcceptance, TypeOK
    <2>8. ASSUME NEW v \in {"accepted", "rejected"}, NEW t \in Time, DecideLegacy(v, t)
          PROVE  TypeOK'
        BY <2>8, <2>w, <2>p, DecidedType DEF DecideLegacy, DecidedLegacy, TypeOK
    <2>9. CASE UNCHANGED vars
        BY <2>9 DEF vars, TypeOK
    <2> QED BY <2>1, <2>2, <2>3, <2>4, <2>5, <2>6, <2>7, <2>8, <2>9 DEF Next
<1> QED BY <1>1, <1>2, PTL DEF Spec

-----------------------------------------------------------------------------
(* The inductive invariant of AcceptedIsBacked, about one item.            *)

\* The active attempt is running or has ended, never superseded, and its runtime
\* outcome is the one its status shows.  Without it an accepted item could keep
\* its status when a newer artifact arrives (StatusOfAttempt's last case).
LiveActive(w) ==
    HasActive(w) =>
        \/ ActiveAttempt(w).status = "running" /\ ActiveAttempt(w).runtimeOutcome = None
        \/ /\ ActiveAttempt(w).status \in Outcome
           /\ ActiveAttempt(w).runtimeOutcome = ActiveAttempt(w).status

\* The body of AcceptedIsBacked.
Backed(w) ==
    w.status = "accepted" =>
        /\ w.acceptanceDecision # None
        /\ w.acceptanceDecision.decision = "accepted"
        /\ Acceptable(w)

Sound(w) == w \in WorkItem /\ LiveActive(w) /\ Backed(w)

\* Starting an attempt never leaves an item accepted.
LEMMA StartedSound ==
    ASSUME NEW w, Sound(w), NEW a \in AttemptId, NEW t \in Time, CanStart(w, a, t)
    PROVE  Sound(Started(w, a, t))
<1>1. w \in WorkItem /\ Started(w, a, t) \in WorkItem
    BY StartedType DEF Sound
<1>2. ASSUME HasActive(w), t < ActiveAttempt(w).startedAt PROVE Sound(Started(w, a, t))
    <2>1. Started(w, a, t) = StartedLate(w, a, t)
        BY <1>2 DEF Started
    <2>2. w.activeAttemptId # a
        BY <1>1, <1>2 DEF CanStart, LiveActive, Sound, ActiveAttempt, Outcome
    <2>3. Started(w, a, t).activeAttemptId = w.activeAttemptId
        BY <2>1, <1>1 DEF StartedLate, WorkItem
    <2>4. Started(w, a, t).status = w.status
        BY <2>1, <1>1 DEF StartedLate, WorkItem
    <2>5. ActiveAttempt(Started(w, a, t)) = ActiveAttempt(w)
        BY <2>1, <2>2, <1>1, <1>2 DEF StartedLate, WorkItem, ActiveAttempt, HasActive
    <2> QED BY <1>1, <2>3, <2>4, <2>5 DEF Sound, LiveActive, Backed, CanStart, HasActive
<1>3. ASSUME ~(HasActive(w) /\ t < ActiveAttempt(w).startedAt) PROVE Sound(Started(w, a, t))
    <2>1. Started(w, a, t) = StartedNow(w, a, t)
        BY <1>3 DEF Started
    <2>2. Started(w, a, t).status = "running" /\ Started(w, a, t).activeAttemptId = a
        BY <2>1, <1>1 DEF StartedNow, WorkItem
    <2>3. Started(w, a, t).attempts[a] = NewAttempt("running", t, None)
        BY <2>1, <1>1 DEF StartedNow, WorkItem
    <2>4. /\ ActiveAttempt(Started(w, a, t)).status = "running"
          /\ ActiveAttempt(Started(w, a, t)).runtimeOutcome = None
        BY <2>2, <2>3 DEF ActiveAttempt, NewAttempt
    <2> QED BY <1>1, <2>2, <2>4 DEF Sound, LiveActive, Backed
<1> QED BY <1>2, <1>3

\* The active attempt of an accepted item has ended, so no finish changes it.
LEMMA FinishedSound ==
    ASSUME NEW w, Sound(w), NEW a \in AttemptId, NEW o \in Outcome, NEW t \in Time,
           CanFinish(w, a)
    PROVE  Sound(Finished(w, a, o, t))
<1> DEFINE v == Finished(w, a, o, t)
<1>1. w \in WorkItem /\ v \in WorkItem
    BY FinishedType DEF Sound
<1>2. CASE ChangesActiveState(w, a)
    <2>1. v.activeAttemptId = a /\ v.attempts[a] = EndedAttempt(w, a, o, t)
        BY <1>1, <1>2 DEF Finished, WorkItem, ChangesActiveState
    <2>2. ActiveAttempt(v).status = o /\ ActiveAttempt(v).runtimeOutcome = o
        BY <2>1, <1>2 DEF ActiveAttempt, EndedAttempt
    <2>3. v.status # "accepted"
        BY <1>1, <1>2 DEF Finished, WorkItem
    <2> QED BY <1>1, <2>2, <2>3 DEF Sound, LiveActive, Backed
<1>3. CASE ~ChangesActiveState(w, a)
    <2>1. v = [w EXCEPT !.attempts = [w.attempts EXCEPT ![a] = EndedAttempt(w, a, o, t)]]
        BY <1>3 DEF Finished
    <2>2. /\ v.activeAttemptId = w.activeAttemptId
          /\ v.status = w.status
          /\ v.activeArtifact = w.activeArtifact
          /\ v.evidence = w.evidence
          /\ v.acceptanceDecision = w.acceptanceDecision
        BY <2>1, <1>1 DEF WorkItem
    <2>3. w.activeAttemptId # a
        BY <1>1, <1>3, NoneAssumption
           DEF CanFinish, ChangesActiveState, Sound, LiveActive, HasActive, ActiveAttempt
    <2>4. HasActive(w) => ActiveAttempt(v) = ActiveAttempt(w)
        BY <1>1, <2>1, <2>2, <2>3 DEF ActiveAttempt, HasActive, WorkItem
    <2>5. HasActive(v) <=> HasActive(w)
        BY <2>2 DEF HasActive
    <2>6. \A c : LatestOutcome(v, c) = LatestOutcome(w, c)
        BY <2>2 DEF LatestOutcome, LatestEvidence, CurrentEvidence
    <2> QED BY <1>1, <2>2, <2>4, <2>5, <2>6
            DEF Sound, LiveActive, Backed, Acceptable, AllRequiredPassed
<1> QED BY <1>2, <1>3

\* An artifact either leaves the active revision alone or takes the item out of
\* "accepted": a live attempt's status is never mapped back to it.
LEMMA ArtifactLinkedSound ==
    ASSUME NEW w, Sound(w), NEW a \in AttemptId, NEW id \in ArtifactId,
           NEW rev \in Revision, NEW t \in Time, CanLinkArtifact(w, a, id, rev, t)
    PROVE  Sound(ArtifactLinked(w, a, id, rev, t))
<1> DEFINE v == ArtifactLinked(w, a, id, rev, t)
           keep == SameRevision(w, id, rev) \/ StaleArtifact(w, t)
<1>1. w \in WorkItem /\ v \in WorkItem
    BY ArtifactLinkedType DEF Sound
<1>2. /\ v.activeAttemptId = w.activeAttemptId
      /\ v.attempts = w.attempts
      /\ v.evidence = w.evidence
    BY <1>1 DEF ArtifactLinked, WorkItem
<1>3. LiveActive(v)
    BY <1>2 DEF Sound, LiveActive, HasActive, ActiveAttempt
<1>4. CASE keep
    <2>1. /\ v.status = w.status
          /\ v.activeArtifact = w.activeArtifact
          /\ v.acceptanceDecision = w.acceptanceDecision
        BY <1>1, <1>4 DEF ArtifactLinked, WorkItem
    <2>2. \A c : LatestOutcome(v, c) = LatestOutcome(w, c)
        BY <1>2, <2>1 DEF LatestOutcome, LatestEvidence, CurrentEvidence
    <2> QED BY <1>1, <1>2, <1>3, <2>1, <2>2
            DEF Sound, Backed, Acceptable, AllRequiredPassed, HasActive, ActiveAttempt
<1>5. CASE ~keep
    <2>1. v.status = StatusOfAttempt(w)
        BY <1>1, <1>5 DEF ArtifactLinked, WorkItem
    <2>2. HasActive(w)
        BY NoneAssumption DEF CanLinkArtifact, HasActive
    <2>3. ActiveAttempt(w).status \in {"running"} \cup Outcome
        BY <2>2 DEF Sound, LiveActive
    <2>4. StatusOfAttempt(w) # "accepted"
        <3>1. CASE ActiveAttempt(w).status = "running"
            BY <3>1 DEF StatusOfAttempt
        <3>2. CASE ActiveAttempt(w).status = "completed"
            BY <3>2 DEF StatusOfAttempt
        <3>3. CASE ActiveAttempt(w).status \in {"failed", "interrupted"}
            BY <3>3 DEF StatusOfAttempt
        <3> QED BY <2>3, <3>1, <3>2, <3>3 DEF Outcome
    <2> QED BY <1>1, <1>3, <2>1, <2>4 DEF Sound, Backed
<1> QED BY <1>4, <1>5

\* Evidence that keeps the status leaves every required criterion's latest
\* outcome as it was.
LEMMA EvidenceRecordedSound ==
    ASSUME NEW w, Sound(w), NEW e \in Evidence, CanRecordEvidence(w, e)
    PROVE  Sound(EvidenceRecorded(w, e))
<1> DEFINE v == [w EXCEPT !.evidence = @ \cup {e}]
           r == EvidenceRecorded(w, e)
           gate == /\ SameRevision(w, e.artifactId, e.revision)
                   /\ e.criterionKey \in RequiredEvidence
                   /\ LatestOutcome(w, e.criterionKey) # LatestOutcome(v, e.criterionKey)
<1>1. w \in WorkItem /\ r \in WorkItem
    BY EvidenceRecordedType DEF Sound
<1>2. /\ v.status = w.status
      /\ v.activeAttemptId = w.activeAttemptId
      /\ v.attempts = w.attempts
      /\ v.activeArtifact = w.activeArtifact
      /\ v.acceptanceDecision = w.acceptanceDecision
      /\ v.evidence = w.evidence \cup {e}
      /\ v \in WorkItem
    BY <1>1 DEF WorkItem
<1>3. CASE ~gate
    <2>1. r = v
        BY <1>3 DEF EvidenceRecorded
    <2>2. ASSUME NEW c \in RequiredEvidence PROVE LatestOutcome(v, c) = LatestOutcome(w, c)
        <3>1. CASE SameRevision(w, e.artifactId, e.revision) /\ c = e.criterionKey
            BY <1>3, <3>1
        <3>2. CASE ~(SameRevision(w, e.artifactId, e.revision) /\ c = e.criterionKey)
            <4>1. CurrentEvidence(v, c) = CurrentEvidence(w, c)
                BY <1>2, <3>2 DEF CurrentEvidence, SameRevision
            <4> QED BY <4>1 DEF LatestOutcome, LatestEvidence
        <3> QED BY <3>1, <3>2
    <2> HIDE DEF v
    <2>3. Acceptable(w) => Acceptable(v)
        BY <1>2, <2>2 DEF Acceptable, AllRequiredPassed, HasActive, ActiveAttempt
    <2> QED BY <1>2, <2>1, <2>3 DEF Sound, LiveActive, Backed, HasActive, ActiveAttempt
<1>4. CASE gate
    <2>1. \E s \in {"blocked", "reviewing"}, d \in {v.acceptanceDecision, None} :
            r = [v EXCEPT !.status = s, !.acceptanceDecision = d]
        BY <1>4, Zenon DEF EvidenceRecorded
    <2> HIDE DEF v
    <2>2. /\ r.status # "accepted"
          /\ r.activeAttemptId = w.activeAttemptId
          /\ r.attempts = w.attempts
        BY <1>2, <2>1 DEF WorkItem
    <2> QED BY <1>1, <2>2 DEF Sound, LiveActive, Backed, HasActive, ActiveAttempt
<1> QED BY <1>3, <1>4

\* Either version of the decision event accepts only an acceptable item.
LEMMA DecidedSound ==
    ASSUME NEW w, Sound(w), NEW v \in {"accepted", "rejected"}, NEW t \in Time,
           NEW b \in Basis \cup {None}, v = "accepted" => Acceptable(w)
    PROVE  Sound(Decided(w, v, b, t))
<1> DEFINE r == Decided(w, v, b, t)
           d == [decision |-> v, decidedAt |-> t, basis |-> b]
<1>1. w \in WorkItem /\ r \in WorkItem
    BY DecidedType DEF Sound
<1>2. /\ r.activeAttemptId = w.activeAttemptId
      /\ r.attempts = w.attempts
      /\ r.evidence = w.evidence
      /\ r.activeArtifact = w.activeArtifact
      /\ r.acceptanceDecision = d
      /\ r.status = IF v = "accepted" THEN "accepted" ELSE "blocked"
    BY <1>1 DEF Decided, WorkItem
<1>3. \A c : LatestOutcome(r, c) = LatestOutcome(w, c)
    BY <1>2 DEF LatestOutcome, LatestEvidence, CurrentEvidence
<1>4. Acceptable(w) => Acceptable(r)
    BY <1>2, <1>3 DEF Acceptable, AllRequiredPassed, HasActive, ActiveAttempt
<1>5. d # None
    BY NullAssumption DEF Decision
<1> QED BY <1>1, <1>2, <1>4, <1>5 DEF Sound, LiveActive, Backed, HasActive, ActiveAttempt

-----------------------------------------------------------------------------
LEMMA CreatedSound == Sound(CreatedItem)
    BY CreatedType DEF Sound, LiveActive, Backed, CreatedItem, HasActive

\* No step of any actor breaks it.
LEMMA InductiveStep ==
    ASSUME item # None => Sound(item), [Next]_vars
    PROVE  (item # None => Sound(item))'
<1>1. CASE Create
    BY <1>1, CreatedSound DEF Create
<1>2. ASSUME NEW a \in AttemptId, NEW t \in Time, StartAttempt(a, t) PROVE Sound(item)'
    BY <1>2, StartedSound DEF StartAttempt
<1>3. ASSUME NEW a \in AttemptId, NEW o \in Outcome, NEW t \in Time, FinishAttempt(a, o, t)
      PROVE  Sound(item)'
    BY <1>3, FinishedSound DEF FinishAttempt
<1>4. ASSUME NEW a \in AttemptId, NEW id \in ArtifactId, NEW rev \in Revision,
             NEW t \in Time, LinkArtifact(a, id, rev, t)
      PROVE  Sound(item)'
    BY <1>4, ArtifactLinkedSound DEF LinkArtifact
<1>5. ASSUME NEW e \in Evidence, RecordEvidence(e) PROVE Sound(item)'
    BY <1>5, EvidenceRecordedSound DEF RecordEvidence
<1>6. ASSUME NEW r \in Reviewer, OpenReview(r) PROVE Sound(item)'
    BY <1>6 DEF OpenReview
<1>7. ASSUME NEW r \in Reviewer, NEW v \in {"accepted", "rejected"}, NEW d \in DecisionId,
             NEW t \in Time, DecideAcceptance(r, v, d, t)
      PROVE  Sound(item)'
    <2>1. Sound(item) /\ CanDecide(item, v, page[r], t)
        BY <1>7 DEF DecideAcceptance
    <2>2. BasisOf(item, d, page[r]) \in Basis
        BY <2>1, BasisType DEF Sound
    <2>3. Sound(Decided(item, v, BasisOf(item, d, page[r]), t))
        BY <2>1, <2>2, DecidedSound DEF CanDecide
    <2> QED BY <1>7, <2>3 DEF DecideAcceptance, DecidedV2
<1>8. ASSUME NEW v \in {"accepted", "rejected"}, NEW t \in Time, DecideLegacy(v, t)
      PROVE  Sound(item)'
    BY <1>8, DecidedSound DEF DecideLegacy, DecidedLegacy, CanDecideLegacy
<1>9. CASE UNCHANGED vars
    BY <1>9 DEF vars
<1> QED BY <1>1, <1>2, <1>3, <1>4, <1>5, <1>6, <1>7, <1>8, <1>9 DEF Next

\* An accepted item is backed by a completed attempt, an artifact and passing
\* evidence for every required criterion, whatever arrives afterwards.
THEOREM AcceptedIsAlwaysBacked == Spec => []AcceptedIsBacked
<1>1. Init => (item # None => Sound(item))
    BY DEF Init
<1>2. (item # None => Sound(item)) /\ [Next]_vars => (item # None => Sound(item))'
    BY InductiveStep
<1>3. (item # None => Sound(item)) => AcceptedIsBacked
    BY DEF Sound, Backed, AcceptedIsBacked
<1> QED BY <1>1, <1>2, <1>3, PTL DEF Spec

(***************************************************************************)
(* How an acceptance ends.                                                 *)
(***************************************************************************)

\* On an accepted item a late finish changes no status: the active attempt has
\* already reported its outcome.
LEMMA FinishKeepsAccepted ==
    ASSUME NEW w, Sound(w), w.status = "accepted", NEW a \in AttemptId,
           NEW o \in Outcome, NEW t \in Time, CanFinish(w, a)
    PROVE  Finished(w, a, o, t).status = "accepted"
<1>1. w \in WorkItem /\ HasActive(w) /\ ActiveAttempt(w).runtimeOutcome = "completed"
    BY DEF Sound, Backed, Acceptable
<1>2. w.activeAttemptId # a
    BY <1>1, NoneAssumption DEF CanFinish, ActiveAttempt, Outcome
<1>3. ~ChangesActiveState(w, a)
    BY <1>2 DEF ChangesActiveState
<1> QED BY <1>1, <1>3 DEF Finished, WorkItem

\* An artifact that ends an acceptance is another revision than the active one.
LEMMA ArtifactRevokes ==
    ASSUME NEW w, Sound(w), w.status = "accepted", NEW a \in AttemptId,
           NEW id \in ArtifactId, NEW rev \in Revision, NEW t \in Time,
           ArtifactLinked(w, a, id, rev, t).status # "accepted"
    PROVE  /\ ArtifactLinked(w, a, id, rev, t).attempts = w.attempts
           /\ ArtifactLinked(w, a, id, rev, t).activeArtifact # w.activeArtifact
<1>1. w \in WorkItem /\ w.activeArtifact # None
    BY DEF Sound, Backed, Acceptable
<1>2. ~(SameRevision(w, id, rev) \/ StaleArtifact(w, t))
    BY <1>1 DEF ArtifactLinked, WorkItem
<1>3. ArtifactLinked(w, a, id, rev, t).activeArtifact
            = [artifactId |-> id, revision |-> rev, linkedAt |-> t]
    BY <1>1, <1>2 DEF ArtifactLinked, WorkItem
<1>4. ArtifactLinked(w, a, id, rev, t).attempts = w.attempts
    BY <1>1 DEF ArtifactLinked, WorkItem
<1>5. CASE ArtifactLinked(w, a, id, rev, t).activeArtifact = w.activeArtifact
    <2>1. w.activeArtifact.artifactId = id /\ w.activeArtifact.revision = rev
        BY <1>3, <1>5
    <2> QED BY <1>1, <1>2, <2>1 DEF SameRevision
<1> QED BY <1>4, <1>5

\* Evidence that ends an acceptance changes the latest outcome of a required
\* criterion.
LEMMA EvidenceRevokes ==
    ASSUME NEW w, Sound(w), w.status = "accepted", NEW e \in Evidence,
           EvidenceRecorded(w, e).status # "accepted"
    PROVE  /\ EvidenceRecorded(w, e).attempts = w.attempts
           /\ \E c \in RequiredEvidence :
                LatestOutcome(EvidenceRecorded(w, e), c) # LatestOutcome(w, c)
<1> DEFINE v == [w EXCEPT !.evidence = @ \cup {e}]
           r == EvidenceRecorded(w, e)
           gate == /\ SameRevision(w, e.artifactId, e.revision)
                   /\ e.criterionKey \in RequiredEvidence
                   /\ LatestOutcome(w, e.criterionKey) # LatestOutcome(v, e.criterionKey)
<1>1. v \in WorkItem /\ v.status = w.status /\ v.attempts = w.attempts
    BY DEF Sound, WorkItem
<1>2. gate
    <2>1. ~gate => r = v
        BY DEF EvidenceRecorded
    <2> QED BY <1>1, <2>1
<1>3. \E s \in {"blocked", "reviewing"}, d \in {v.acceptanceDecision, None} :
            r = [v EXCEPT !.status = s, !.acceptanceDecision = d]
    BY <1>2, Zenon DEF EvidenceRecorded
<1>4. LatestOutcome(w, e.criterionKey) # LatestOutcome(v, e.criterionKey)
    BY <1>2
<1>5. e.criterionKey \in RequiredEvidence
    BY <1>2
<1> HIDE DEF v, r
<1>6. /\ r.attempts = v.attempts
      /\ r.evidence = v.evidence
      /\ r.activeAttemptId = v.activeAttemptId
      /\ r.activeArtifact = v.activeArtifact
    BY <1>1, <1>3 DEF WorkItem
<1>7. \A c : LatestOutcome(r, c) = LatestOutcome(v, c)
    BY <1>6 DEF LatestOutcome, LatestEvidence, CurrentEvidence
<1> QED BY <1>1, <1>4, <1>5, <1>6, <1>7 DEF r

\* A legacy decision that ends an acceptance is a rejection, and is recorded.
LEMMA DecisionRevokes ==
    ASSUME NEW w, Sound(w), NEW v \in {"accepted", "rejected"}, NEW t \in Time,
           NEW b \in Basis \cup {None}, Decided(w, v, b, t).status # "accepted"
    PROVE  /\ Decided(w, v, b, t).attempts = w.attempts
           /\ Decided(w, v, b, t).acceptanceHistory # w.acceptanceHistory
           /\ Decided(w, v, b, t).acceptanceDecision.decision = "rejected"
<1> DEFINE d == [decision |-> v, decidedAt |-> t, basis |-> b]
           r == Decided(w, v, b, t)
<1>1. w \in WorkItem /\ d \in Decision
    BY DEF Sound, Decision
<1>2. /\ r.status = IF v = "accepted" THEN "accepted" ELSE "blocked"
      /\ r.attempts = w.attempts
      /\ r.acceptanceDecision = d
      /\ r.acceptanceHistory = Append(w.acceptanceHistory, d)
    BY <1>1 DEF Decided, WorkItem
<1>3. Len(Append(w.acceptanceHistory, d)) # Len(w.acceptanceHistory)
    BY <1>1 DEF WorkItem
<1> QED BY <1>2, <1>3

\* The one event at a time that can end an acceptance.
LEMMA RevokingStep ==
    ASSUME item # None => Sound(item), [Next]_vars
    PROVE  RevokedByFacts
<1> SUFFICES ASSUME item # None, item.status = "accepted", item'.status # "accepted"
             PROVE  RevokedByFacts
    BY DEF RevokedByFacts
<1>s. Sound(item)
    OBVIOUS
<1>1. CASE Create
    BY <1>1 DEF Create
<1>2. ASSUME NEW a \in AttemptId, NEW t \in Time, StartAttempt(a, t) PROVE RevokedByFacts
    BY <1>2 DEF StartAttempt, CanStart
<1>3. ASSUME NEW a \in AttemptId, NEW o \in Outcome, NEW t \in Time, FinishAttempt(a, o, t)
      PROVE  RevokedByFacts
    BY <1>s, <1>3, FinishKeepsAccepted DEF FinishAttempt
<1>4. ASSUME NEW a \in AttemptId, NEW id \in ArtifactId, NEW rev \in Revision,
             NEW t \in Time, LinkArtifact(a, id, rev, t)
      PROVE  RevokedByFacts
    BY <1>s, <1>4, ArtifactRevokes DEF LinkArtifact, RevokedByFacts
<1>5. ASSUME NEW e \in Evidence, RecordEvidence(e) PROVE RevokedByFacts
    BY <1>s, <1>5, EvidenceRevokes DEF RecordEvidence, RevokedByFacts
<1>6. ASSUME NEW r \in Reviewer, OpenReview(r) PROVE RevokedByFacts
    BY <1>6 DEF OpenReview
<1>7. ASSUME NEW r \in Reviewer, NEW v \in {"accepted", "rejected"}, NEW d \in DecisionId,
             NEW t \in Time, DecideAcceptance(r, v, d, t)
      PROVE  RevokedByFacts
    BY <1>s, <1>7 DEF DecideAcceptance, CanDecide, Sound, Backed
<1>8. ASSUME NEW v \in {"accepted", "rejected"}, NEW t \in Time, DecideLegacy(v, t)
      PROVE  RevokedByFacts
    BY <1>s, <1>8, DecisionRevokes DEF DecideLegacy, DecidedLegacy, RevokedByFacts
<1>9. CASE UNCHANGED vars
    BY <1>9 DEF vars
<1> QED BY <1>1, <1>2, <1>3, <1>4, <1>5, <1>6, <1>7, <1>8, <1>9 DEF Next

\* An acceptance ends by another active artifact, by evidence that changes the
\* latest outcome of a required criterion or by an explicit rejection, and by
\* nothing else; when those happened is not compared with the decision.
THEOREM AcceptanceEndsOnlyByFacts == Spec => AcceptanceRevokedOnlyByFacts
<1>1. Init => (item # None => Sound(item))
    BY DEF Init
<1>2. (item # None => Sound(item)) /\ [Next]_vars => (item # None => Sound(item))'
    BY InductiveStep
<1>3. (item # None => Sound(item)) /\ [Next]_vars => [RevokedByFacts]_vars
    BY RevokingStep
<1> QED BY <1>1, <1>2, <1>3, PTL DEF Spec, AcceptanceRevokedOnlyByFacts
-----------------------------------------------------------------------------
(***************************************************************************)
(* The active attempt and artifact are the newest that were reported.      *)
(***************************************************************************)

\* ActiveFactsAreNewest of one item, with the types its comparisons need and
\* no artifact of an attempt that was never started: the artifact of a fresh
\* attempt could otherwise be older than one already there.
Ordered(w) ==
    /\ \A a \in AttemptId :
        w.attempts[a].status # "absent" =>
            /\ HasActive(w)
            /\ w.attempts[a].startedAt \in Time
            /\ a # w.activeAttemptId =>
                /\ w.attempts[a].startedAt < ActiveAttempt(w).startedAt
                /\ w.attempts[a].status # "running"
    /\ \A x \in w.artifacts :
        /\ w.attempts[x.attemptId].status # "absent"
        /\ x.attemptId = w.activeAttemptId =>
            w.activeArtifact # None /\ x.linkedAt <= w.activeArtifact.linkedAt
    /\ \A e \in w.evidence : \E x \in w.artifacts :
            x.id = e.artifactId /\ x.attemptId = e.attemptId /\ x.revision = e.revision

\* The active attempt of a sound item was started.
LEMMA ActiveIsStarted ==
    ASSUME NEW w, Sound(w), Ordered(w), HasActive(w)
    PROVE  /\ w.activeAttemptId \in AttemptId
           /\ ActiveAttempt(w) = w.attempts[w.activeAttemptId]
           /\ ActiveAttempt(w).status # "absent"
           /\ ActiveAttempt(w).startedAt \in Nat
<1>1. w.activeAttemptId \in AttemptId
    BY DEF Sound, HasActive, WorkItem
<1>2. ActiveAttempt(w).status # "absent"
    BY DEF Sound, LiveActive, Outcome
<1> QED BY <1>1, <1>2, TimeAssumption DEF Ordered, ActiveAttempt

\* A start delivered late is filed behind the active attempt; a newer one takes
\* its place and supersedes it.
LEMMA StartedOrdered ==
    ASSUME NEW w, Sound(w), Ordered(w), NEW a \in AttemptId, NEW t \in Time, CanStart(w, a, t)
    PROVE  Ordered(Started(w, a, t))
<1> DEFINE v == Started(w, a, t)
<1>1. w \in WorkItem /\ v \in WorkItem /\ t \in Nat
    BY StartedType, TimeAssumption DEF Sound
<1>2. w.attempts[a].status = "absent"
    BY DEF CanStart
<1>3. /\ v.artifacts = w.artifacts
      /\ v.evidence = w.evidence
    BY <1>1 DEF Started, StartedLate, StartedNow, WorkItem
<1>4. \A x \in w.artifacts : x.attemptId \in AttemptId /\ x.attemptId # a
    BY <1>1, <1>2 DEF Ordered, WorkItem, Artifact
<1>5. CASE HasActive(w) /\ t < ActiveAttempt(w).startedAt
    <2>1. /\ v.activeAttemptId = w.activeAttemptId
          /\ v.activeArtifact = w.activeArtifact
          /\ v.attempts = [w.attempts EXCEPT
                ![a] = NewAttempt("superseded", t, ActiveAttempt(w).startedAt)]
        BY <1>1, <1>5 DEF Started, StartedLate, WorkItem
    <2>2. a # w.activeAttemptId
        BY <1>2, <1>5, ActiveIsStarted
    <2>3. /\ v.attempts[a].status = "superseded"
          /\ v.attempts[a].startedAt = t
          /\ \A b \in AttemptId \ {a} : v.attempts[b] = w.attempts[b]
        BY <1>1, <2>1 DEF NewAttempt, WorkItem
    <2>4. HasActive(v) /\ ActiveAttempt(v) = ActiveAttempt(w)
        BY <1>5, <2>1, <2>2, <2>3, ActiveIsStarted DEF HasActive, ActiveAttempt
    <2> QED BY <1>3, <1>4, <1>5, <2>1, <2>3, <2>4 DEF Ordered
<1>6. CASE ~(HasActive(w) /\ t < ActiveAttempt(w).startedAt)
    <2>1. v = StartedNow(w, a, t)
        BY <1>6 DEF Started
    <2>2. v.activeAttemptId = a /\ v.attempts[a] = NewAttempt("running", t, None)
        BY <1>1, <2>1 DEF StartedNow, WorkItem
    <2>3. HasActive(v) /\ ActiveAttempt(v).startedAt = t
        BY <2>2, NoneAssumption DEF HasActive, ActiveAttempt, NewAttempt
    <2>n. v.attempts = [c \in AttemptId |->
            IF c = a
            THEN NewAttempt("running", t, None)
            ELSE IF c = w.activeAttemptId /\ w.attempts[c].status = "running"
            THEN [w.attempts[c] EXCEPT !.status = "superseded", !.completedAt = t]
            ELSE w.attempts[c]]
        BY <1>1, <2>1, Zenon DEF StartedNow, WorkItem
    <2>4. ASSUME NEW b \in AttemptId \ {a}
          PROVE  v.attempts[b] = IF b = w.activeAttemptId /\ w.attempts[b].status = "running"
                    THEN [w.attempts[b] EXCEPT !.status = "superseded", !.completedAt = t]
                    ELSE w.attempts[b]
        BY <2>n, Zenon
    <2>5. ASSUME NEW b \in AttemptId \ {a}, w.attempts[b].status # "absent"
          PROVE  /\ v.attempts[b].startedAt = w.attempts[b].startedAt
                 /\ v.attempts[b].startedAt \in Time
                 /\ v.attempts[b].startedAt < t
                 /\ v.attempts[b].status \notin {"running", "absent"}
        <3>1. HasActive(w) /\ w.attempts[b] \in Attempt /\ w.attempts[b].startedAt \in Time
            BY <1>1, <2>5 DEF Ordered, WorkItem
        <3>2. ActiveAttempt(w).startedAt < t
            BY <1>1, <1>6, <3>1, ActiveIsStarted DEF CanStart
        <3>3. w.attempts[b].startedAt <= ActiveAttempt(w).startedAt
            <4>1. CASE b = w.activeAttemptId
                <5>1. ActiveAttempt(w) = w.attempts[b] /\ ActiveAttempt(w).startedAt \in Nat
                    BY <3>1, <4>1, ActiveIsStarted
                <5> QED BY <5>1
            <4>2. CASE b # w.activeAttemptId
                <5>1. w.attempts[b].startedAt < ActiveAttempt(w).startedAt
                    BY <2>5, <4>2 DEF Ordered
                <5>2. w.attempts[b].startedAt \in Nat /\ ActiveAttempt(w).startedAt \in Nat
                    BY <3>1, ActiveIsStarted, TimeAssumption
                <5> QED BY <5>1, <5>2
            <4> QED BY <4>1, <4>2
        <3>4. /\ v.attempts[b].startedAt = w.attempts[b].startedAt
              /\ v.attempts[b].status \notin {"running", "absent"}
            BY <2>4, <2>5, <3>1 DEF Attempt, Ordered
        <3>5. ActiveAttempt(w).startedAt \in Nat /\ w.attempts[b].startedAt \in Nat
            BY <3>1, ActiveIsStarted, TimeAssumption
        <3>6. w.attempts[b].startedAt < t
            BY <1>1, <3>2, <3>3, <3>5
        <3> QED BY <3>1, <3>4, <3>6
    <2>6. ASSUME NEW b \in AttemptId \ {a}, w.attempts[b].status = "absent"
          PROVE  v.attempts[b].status = "absent"
        BY <2>4, <2>6
    <2> QED BY <1>3, <1>4, <2>2, <2>3, <2>5, <2>6 DEF Ordered, NewAttempt
<1> QED BY <1>5, <1>6

\* A finish, late or not, keeps when the attempt started and leaves it ended.
LEMMA FinishedOrdered ==
    ASSUME NEW w, Sound(w), Ordered(w), NEW a \in AttemptId, NEW o \in Outcome,
           NEW t \in Time, CanFinish(w, a)
    PROVE  Ordered(Finished(w, a, o, t))
<1> DEFINE v == Finished(w, a, o, t)
<1>1. w \in WorkItem /\ v \in WorkItem
    BY FinishedType DEF Sound
<1>2. /\ v.activeAttemptId = w.activeAttemptId
      /\ v.activeArtifact = w.activeArtifact
      /\ v.artifacts = w.artifacts
      /\ v.evidence = w.evidence
      /\ v.attempts = [w.attempts EXCEPT ![a] = EndedAttempt(w, a, o, t)]
    BY <1>1 DEF Finished, WorkItem
<1>3. \A b \in AttemptId \ {a} : v.attempts[b] = w.attempts[b]
    BY <1>1, <1>2 DEF WorkItem
<1>4. /\ v.attempts[a].startedAt = w.attempts[a].startedAt
      /\ v.attempts[a].status \in {w.attempts[a].status} \cup Outcome
    BY <1>1, <1>2 DEF EndedAttempt, WorkItem
<1>5. w.attempts[a].status # "absent"
    BY DEF CanFinish
<1>6. ASSUME NEW b \in AttemptId
      PROVE  /\ v.attempts[b].startedAt = w.attempts[b].startedAt
             /\ v.attempts[b].status = "absent" <=> w.attempts[b].status = "absent"
             /\ v.attempts[b].status = "running" => w.attempts[b].status = "running"
    BY <1>3, <1>4, <1>5 DEF Outcome
<1>7. HasActive(v) <=> HasActive(w)
    BY <1>2 DEF HasActive
<1>8. HasActive(w) => ActiveAttempt(v).startedAt = ActiveAttempt(w).startedAt
    BY <1>1, <1>2, <1>6 DEF HasActive, ActiveAttempt, WorkItem
<1>9. \A x \in w.artifacts : x.attemptId \in AttemptId
    BY <1>1 DEF WorkItem, Artifact
<1> QED BY <1>2, <1>6, <1>7, <1>8, <1>9 DEF Ordered

\* An artifact older than the active one is kept behind it.
LEMMA ArtifactLinkedOrdered ==
    ASSUME NEW w, Sound(w), Ordered(w), NEW a \in AttemptId, NEW id \in ArtifactId,
           NEW rev \in Revision, NEW t \in Time, CanLinkArtifact(w, a, id, rev, t)
    PROVE  Ordered(ArtifactLinked(w, a, id, rev, t))
<1> DEFINE v == ArtifactLinked(w, a, id, rev, t)
           x0 == [id |-> id, attemptId |-> a, revision |-> rev, linkedAt |-> t]
           same == SameRevision(w, id, rev)
<1>1. w \in WorkItem /\ v \in WorkItem /\ t \in Nat
    BY ArtifactLinkedType, TimeAssumption DEF Sound
<1>2. a = w.activeAttemptId /\ HasActive(w)
    BY NoneAssumption DEF CanLinkArtifact, HasActive
<1>3. /\ v.activeAttemptId = w.activeAttemptId
      /\ v.attempts = w.attempts
      /\ v.evidence = w.evidence
      /\ v.artifacts = IF same THEN w.artifacts ELSE w.artifacts \cup {x0}
      /\ v.activeArtifact = IF same \/ StaleArtifact(w, t) THEN w.activeArtifact
                            ELSE [artifactId |-> id, revision |-> rev, linkedAt |-> t]
    BY <1>1 DEF ArtifactLinked, WorkItem
<1>4. HasActive(v) /\ ActiveAttempt(v) = ActiveAttempt(w)
    BY <1>2, <1>3 DEF HasActive, ActiveAttempt
<1>5. w.attempts[a].status # "absent"
    BY <1>2, ActiveIsStarted
<1>6. w.activeArtifact # None => w.activeArtifact.linkedAt \in Nat
    BY <1>1, TimeAssumption DEF WorkItem, ActiveArtifact
<1>7. \A x \in w.artifacts : x.linkedAt \in Nat
    BY <1>1, TimeAssumption DEF WorkItem, Artifact
<1>8. v.activeArtifact # None \/ v.artifacts = w.artifacts
    BY <1>3, NullAssumption DEF SameRevision, StaleArtifact, ActiveArtifact
<1>9. ASSUME NEW x \in v.artifacts
      PROVE  /\ w.attempts[x.attemptId].status # "absent"
             /\ x.attemptId = w.activeAttemptId =>
                    v.activeArtifact # None /\ x.linkedAt <= v.activeArtifact.linkedAt
    <2>1. CASE same
        BY <1>3, <1>9, <2>1 DEF Ordered
    <2>2. CASE ~same /\ StaleArtifact(w, t)
        BY <1>1, <1>2, <1>3, <1>5, <1>6, <1>9, <2>2 DEF Ordered, StaleArtifact
    <2>3. CASE ~same /\ ~StaleArtifact(w, t)
        <3>1. v.activeArtifact = [artifactId |-> id, revision |-> rev, linkedAt |-> t]
            BY <1>3, <2>3
        <3>2. v.activeArtifact # None /\ v.activeArtifact.linkedAt = t
            BY <3>1, NullAssumption DEF ActiveArtifact
        <3>3. CASE x = x0
            BY <1>1, <1>2, <1>5, <3>2, <3>3
        <3>4. CASE x \in w.artifacts
            <4>1. x.attemptId = w.activeAttemptId =>
                    w.activeArtifact # None /\ x.linkedAt <= w.activeArtifact.linkedAt
                BY <3>4 DEF Ordered
            <4>2. w.activeArtifact # None => w.activeArtifact.linkedAt <= t
                BY <1>1, <1>6, <2>3 DEF StaleArtifact
            <4> QED BY <1>1, <1>6, <1>7, <3>2, <3>4, <4>1, <4>2 DEF Ordered
        <3> QED BY <1>3, <1>9, <3>3, <3>4
    <2> QED BY <2>1, <2>2, <2>3
<1>10. w.artifacts \subseteq v.artifacts
    BY <1>3
<1> QED BY <1>3, <1>4, <1>9, <1>10 DEF Ordered

\* Evidence is only taken about an artifact that was linked.
LEMMA EvidenceRecordedOrdered ==
    ASSUME NEW w, Sound(w), Ordered(w), NEW e \in Evidence, CanRecordEvidence(w, e)
    PROVE  Ordered(EvidenceRecorded(w, e))
<1> DEFINE v == EvidenceRecorded(w, e)
           u == [w EXCEPT !.evidence = @ \cup {e}]
<1>1. w \in WorkItem
    BY DEF Sound
<1>2. u \in WorkItem /\ u.evidence = w.evidence \cup {e}
    BY <1>1 DEF WorkItem
<1>3. /\ u.activeAttemptId = w.activeAttemptId
      /\ u.activeArtifact = w.activeArtifact
      /\ u.artifacts = w.artifacts
      /\ u.attempts = w.attempts
    BY <1>1 DEF WorkItem
<1> HIDE DEF u
<1>4. \/ v = u
      \/ \E s \in {"blocked", "reviewing"}, d \in {u.acceptanceDecision, None} :
            v = [u EXCEPT !.status = s, !.acceptanceDecision = d]
    BY Zenon DEF EvidenceRecorded, u
<1>5. /\ v.activeAttemptId = w.activeAttemptId
      /\ v.activeArtifact = w.activeArtifact
      /\ v.artifacts = w.artifacts
      /\ v.attempts = w.attempts
      /\ v.evidence = w.evidence \cup {e}
    BY <1>2, <1>3, <1>4 DEF WorkItem
<1> QED BY <1>5 DEF Ordered, CanRecordEvidence, HasActive, ActiveAttempt

\* A decision touches none of these.
LEMMA DecidedOrdered ==
    ASSUME NEW w, Sound(w), Ordered(w), NEW x \in {"accepted", "rejected"}, NEW t \in Time,
           NEW b \in Basis \cup {None}
    PROVE  Ordered(Decided(w, x, b, t))
<1> DEFINE v == Decided(w, x, b, t)
<1>1. /\ v.activeAttemptId = w.activeAttemptId
      /\ v.activeArtifact = w.activeArtifact
      /\ v.artifacts = w.artifacts
      /\ v.attempts = w.attempts
      /\ v.evidence = w.evidence
    BY DEF Decided, Sound, WorkItem
<1> QED BY <1>1 DEF Ordered, HasActive, ActiveAttempt

\* What the two theorems below need of one item.
OrderedItem == item # None => Sound(item) /\ Ordered(item)

\* No step of any actor breaks the order.
LEMMA OrderedStep ==
    ASSUME OrderedItem, [Next]_vars
    PROVE  OrderedItem'
<1>s. (item # None => Sound(item))'
    BY InductiveStep DEF OrderedItem
<1>o. item # None => Sound(item) /\ Ordered(item)
    BY DEF OrderedItem
<1> SUFFICES ASSUME item' # None PROVE Ordered(item')
    BY <1>s DEF OrderedItem
<1>1. CASE Create
    <2>1. /\ \A a \in AttemptId : item'.attempts[a].status = "absent"
          /\ item'.artifacts = {} /\ item'.evidence = {}
        BY <1>1 DEF Create, CreatedItem, NoAttempt, NewAttempt
    <2> QED BY <2>1 DEF Ordered
<1>2. ASSUME NEW a \in AttemptId, NEW t \in Time, StartAttempt(a, t) PROVE Ordered(item')
    BY <1>o, <1>2, StartedOrdered DEF StartAttempt
<1>3. ASSUME NEW a \in AttemptId, NEW o \in Outcome, NEW t \in Time, FinishAttempt(a, o, t)
      PROVE  Ordered(item')
    BY <1>o, <1>3, FinishedOrdered DEF FinishAttempt
<1>4. ASSUME NEW a \in AttemptId, NEW id \in ArtifactId, NEW rev \in Revision,
             NEW t \in Time, LinkArtifact(a, id, rev, t)
      PROVE  Ordered(item')
    BY <1>o, <1>4, ArtifactLinkedOrdered DEF LinkArtifact
<1>5. ASSUME NEW e \in Evidence, RecordEvidence(e) PROVE Ordered(item')
    BY <1>o, <1>5, EvidenceRecordedOrdered DEF RecordEvidence
<1>6. ASSUME NEW r \in Reviewer, OpenReview(r) PROVE Ordered(item')
    BY <1>o, <1>6 DEF OpenReview
<1>7. ASSUME NEW r \in Reviewer, NEW v \in {"accepted", "rejected"}, NEW d \in DecisionId,
             NEW t \in Time, DecideAcceptance(r, v, d, t)
      PROVE  Ordered(item')
    <2>1. Sound(item) /\ Ordered(item) /\ CanDecide(item, v, page[r], t)
        BY <1>o, <1>7 DEF DecideAcceptance
    <2>2. BasisOf(item, d, page[r]) \in Basis
        BY <2>1, BasisType DEF Sound
    <2> QED BY <1>7, <2>1, <2>2, DecidedOrdered DEF DecideAcceptance, DecidedV2
<1>8. ASSUME NEW v \in {"accepted", "rejected"}, NEW t \in Time, DecideLegacy(v, t)
      PROVE  Ordered(item')
    BY <1>o, <1>8, DecidedOrdered DEF DecideLegacy, DecidedLegacy
<1>9. CASE UNCHANGED vars
    BY <1>o, <1>9 DEF vars
<1> QED BY <1>1, <1>2, <1>3, <1>4, <1>5, <1>6, <1>7, <1>8, <1>9 DEF Next

\* Whatever the order of delivery, the active attempt began last and the active
\* artifact is the newest linked to it.
THEOREM ActiveFactsStayNewest == Spec => []ActiveFactsAreNewest
<1>1. Init => OrderedItem
    BY DEF Init, OrderedItem
<1>2. OrderedItem /\ [Next]_vars => OrderedItem'
    BY OrderedStep
<1>3. OrderedItem => ActiveFactsAreNewest
    BY DEF OrderedItem, Ordered, ActiveFactsAreNewest
<1> QED BY <1>1, <1>2, <1>3, PTL DEF Spec
-----------------------------------------------------------------------------
(***************************************************************************)
(* What a decision in force is about.                                      *)
(***************************************************************************)

\* The body of DecisionIsCurrent.
Current(w) ==
    (w.acceptanceDecision # None /\ w.acceptanceDecision.basis # None) =>
        /\ w.acceptanceDecision.basis.attemptId = w.activeAttemptId
        /\ (ActiveAttempt(w).status = "completed" /\ w.activeArtifact # None) =>
                w.activeArtifact.linkedAt <= w.acceptanceDecision.decidedAt
        /\ w.status = "accepted" =>
            /\ w.acceptanceDecision.basis.artifactId = w.activeArtifact.artifactId
            /\ w.acceptanceDecision.basis.artifactRevision = w.activeArtifact.revision

\* A handler that leaves the decision's surroundings alone keeps it current.
LEMMA CurrentKept ==
    ASSUME NEW w, NEW v, Current(w),
           v.acceptanceDecision \in {w.acceptanceDecision, None},
           v.status \in {w.status} \cup (ItemStatus \ {"accepted"}),
           v.activeAttemptId = w.activeAttemptId,
           w.acceptanceDecision # None /\ w.acceptanceDecision.basis # None
                => ActiveAttempt(v).status = ActiveAttempt(w).status,
           v.activeArtifact = w.activeArtifact
    PROVE  Current(v)
    BY DEF Current

\* A decision with a basis is about an attempt, so there is an active one.
LEMMA DecidedHasActive ==
    ASSUME NEW w, Sound(w), Current(w),
           w.acceptanceDecision # None, w.acceptanceDecision.basis # None
    PROVE  HasActive(w)
<1>1. w.acceptanceDecision.basis.attemptId \in AttemptId
    BY DEF Sound, WorkItem, Decision, Basis
<1> QED BY <1>1, NoneAssumption DEF Current, HasActive

\* A start either is filed behind the active attempt or clears the decision.
LEMMA StartedCurrent ==
    ASSUME NEW w, Sound(w), Ordered(w), Current(w), NEW a \in AttemptId, NEW t \in Time,
           CanStart(w, a, t)
    PROVE  Current(Started(w, a, t))
<1>1. w \in WorkItem
    BY DEF Sound
<1>2. CASE HasActive(w) /\ t < ActiveAttempt(w).startedAt
    <2> DEFINE v == StartedLate(w, a, t)
    <2>1. a # w.activeAttemptId
        BY <1>2, ActiveIsStarted DEF CanStart
    <2>2. /\ v.acceptanceDecision = w.acceptanceDecision
          /\ v.status = w.status
          /\ v.activeAttemptId = w.activeAttemptId
          /\ v.activeArtifact = w.activeArtifact
        BY <1>1 DEF StartedLate, WorkItem
    <2>3. ActiveAttempt(v) = ActiveAttempt(w)
        BY <1>1, <1>2, <2>1, <2>2 DEF StartedLate, WorkItem, ActiveAttempt, HasActive
    <2> HIDE DEF v
    <2>4. Current(v)
        BY <2>2, <2>3, CurrentKept
    <2> QED BY <1>2, <2>4 DEF Started, v
<1>3. CASE ~(HasActive(w) /\ t < ActiveAttempt(w).startedAt)
    <2>1. Started(w, a, t).acceptanceDecision = None
        BY <1>1, <1>3 DEF Started, StartedNow, WorkItem
    <2> QED BY <2>1 DEF Current
<1> QED BY <1>2, <1>3

\* Only a finish that clears the decision changes the active attempt's status.
LEMMA FinishedCurrent ==
    ASSUME NEW w, Sound(w), Current(w), NEW a \in AttemptId, NEW o \in Outcome,
           NEW t \in Time, CanFinish(w, a)
    PROVE  Current(Finished(w, a, o, t))
<1> DEFINE v == Finished(w, a, o, t)
<1>1. w \in WorkItem
    BY DEF Sound
<1>2. CASE ChangesActiveState(w, a)
    <2>1. v.acceptanceDecision = None
        BY <1>1, <1>2 DEF Finished, WorkItem
    <2> QED BY <2>1 DEF Current
<1>3. CASE ~ChangesActiveState(w, a)
    <2>1. v = [w EXCEPT !.attempts = [w.attempts EXCEPT ![a] = EndedAttempt(w, a, o, t)]]
        BY <1>3 DEF Finished
    <2>2. /\ v.acceptanceDecision = w.acceptanceDecision
          /\ v.status = w.status
          /\ v.activeAttemptId = w.activeAttemptId
          /\ v.activeArtifact = w.activeArtifact
        BY <1>1, <2>1 DEF WorkItem
    <2>3. w.activeAttemptId # a
        BY <1>1, <1>3, NoneAssumption
           DEF CanFinish, ChangesActiveState, Sound, LiveActive, HasActive, ActiveAttempt
    <2>4. HasActive(w) => ActiveAttempt(v) = ActiveAttempt(w)
        BY <1>1, <2>1, <2>2, <2>3 DEF ActiveAttempt, HasActive, WorkItem
    <2> HIDE DEF v
    <2>5. Current(v)
        BY <2>2, <2>4, CurrentKept, DecidedHasActive
    <2> QED BY <2>5 DEF v
<1> QED BY <1>2, <1>3

\* The status an artifact gives an item with a live attempt is never "accepted".
LEMMA NeverBackToAccepted ==
    ASSUME NEW w, Sound(w), HasActive(w)
    PROVE  StatusOfAttempt(w) \in ItemStatus \ {"accepted"}
<1>1. ActiveAttempt(w).status \in {"running"} \cup Outcome
    BY DEF Sound, LiveActive
<1>2. CASE ActiveAttempt(w).status = "running"
    BY <1>2 DEF StatusOfAttempt, ItemStatus
<1>3. CASE ActiveAttempt(w).status = "completed"
    BY <1>3 DEF StatusOfAttempt, ItemStatus
<1>4. CASE ActiveAttempt(w).status \in {"failed", "interrupted"}
    BY <1>4 DEF StatusOfAttempt, ItemStatus
<1> QED BY <1>1, <1>2, <1>3, <1>4 DEF Outcome

\* A decision on a completed attempt survives only an artifact that is no newer.
LEMMA ArtifactLinkedCurrent ==
    ASSUME NEW w, Sound(w), Current(w), NEW a \in AttemptId, NEW id \in ArtifactId,
           NEW rev \in Revision, NEW t \in Time, CanLinkArtifact(w, a, id, rev, t)
    PROVE  Current(ArtifactLinked(w, a, id, rev, t))
<1> DEFINE v == ArtifactLinked(w, a, id, rev, t)
           keep == SameRevision(w, id, rev) \/ StaleArtifact(w, t)
<1>1. w \in WorkItem /\ HasActive(w)
    BY NoneAssumption DEF Sound, CanLinkArtifact, HasActive
<1>2. /\ v.activeAttemptId = w.activeAttemptId
      /\ v.attempts = w.attempts
      /\ v.status = IF keep THEN w.status ELSE StatusOfAttempt(w)
      /\ v.activeArtifact = IF keep THEN w.activeArtifact
                            ELSE [artifactId |-> id, revision |-> rev, linkedAt |-> t]
      /\ v.acceptanceDecision =
            IF keep \/ PreservesDecision(w, t) THEN w.acceptanceDecision ELSE None
    BY <1>1 DEF ArtifactLinked, WorkItem
<1>3. ActiveAttempt(v) = ActiveAttempt(w)
    BY <1>2 DEF ActiveAttempt
<1> HIDE DEF v
<1>4. CASE keep
    <2>1. Current(v)
        BY <1>2, <1>3, <1>4, CurrentKept
    <2> QED BY <2>1 DEF v
<1>5. CASE ~keep
    <2>1. v.status # "accepted"
        BY <1>1, <1>2, <1>5, NeverBackToAccepted
    <2>2. v.activeArtifact.linkedAt = t
        BY <1>2, <1>5
    <2>3. \/ v.acceptanceDecision = None
          \/ v.acceptanceDecision = w.acceptanceDecision /\ PreservesDecision(w, t)
        BY <1>2, <1>5
    <2>4. Current(v)
        BY <1>2, <1>3, <2>1, <2>2, <2>3 DEF Current, PreservesDecision
    <2> QED BY <2>4 DEF v
<1> QED BY <1>4, <1>5

\* Evidence never makes an item accepted and never replaces the artifact.
LEMMA EvidenceRecordedCurrent ==
    ASSUME NEW w, Sound(w), Current(w), NEW e \in Evidence
    PROVE  Current(EvidenceRecorded(w, e))
<1> DEFINE v == EvidenceRecorded(w, e)
           u == [w EXCEPT !.evidence = @ \cup {e}]
<1>1. /\ u.status = w.status
      /\ u.activeAttemptId = w.activeAttemptId
      /\ u.activeArtifact = w.activeArtifact
      /\ u.acceptanceDecision = w.acceptanceDecision
      /\ u.attempts = w.attempts
      /\ u \in WorkItem
    BY DEF Sound, WorkItem
<1> HIDE DEF u
<1>2. \/ v = u
      \/ \E s \in {"blocked", "reviewing"}, d \in {u.acceptanceDecision, None} :
            v = [u EXCEPT !.status = s, !.acceptanceDecision = d]
    BY Zenon DEF EvidenceRecorded, u
<1>3. /\ v.acceptanceDecision \in {w.acceptanceDecision, None}
      /\ v.status \in {w.status} \cup (ItemStatus \ {"accepted"})
      /\ v.activeAttemptId = w.activeAttemptId
      /\ v.activeArtifact = w.activeArtifact
      /\ v.attempts = w.attempts
    BY <1>1, <1>2 DEF WorkItem, ItemStatus
<1>4. ActiveAttempt(v) = ActiveAttempt(w)
    BY <1>3 DEF ActiveAttempt
<1> HIDE DEF v
<1>5. Current(v)
    BY <1>3, <1>4, CurrentKept
<1> QED BY <1>5 DEF v

\* A v2 decision is about the facts the item shows, and no older than them.
LEMMA DecidedV2Current ==
    ASSUME NEW w, Sound(w), NEW x \in {"accepted", "rejected"}, NEW t \in Time,
           NEW d \in DecisionId, NEW rr, CanDecide(w, x, rr, t)
    PROVE  Current(DecidedV2(w, x, d, rr, t))
<1> DEFINE b == BasisOf(w, d, rr)
           v == Decided(w, x, b, t)
<1>1. w \in WorkItem
    BY DEF Sound
<1>2. /\ v.activeAttemptId = w.activeAttemptId
      /\ v.attempts = w.attempts
      /\ v.activeArtifact = w.activeArtifact
      /\ v.acceptanceDecision = [decision |-> x, decidedAt |-> t, basis |-> b]
      /\ v.status = IF x = "accepted" THEN "accepted" ELSE "blocked"
    BY <1>1 DEF Decided, WorkItem
<1>3. b.attemptId = w.activeAttemptId
    BY DEF BasisOf
<1>4. w.activeArtifact # None =>
        /\ b.artifactId = w.activeArtifact.artifactId
        /\ b.artifactRevision = w.activeArtifact.revision
        /\ w.activeArtifact.linkedAt <= t
    BY DEF BasisOf, CanDecide, FactsNoLaterThan
<1>5. x = "accepted" => w.activeArtifact # None
    BY DEF CanDecide, Acceptable
<1> HIDE DEF b, v
<1>6. Current(v)
    BY <1>2, <1>3, <1>4, <1>5 DEF Current
<1> QED BY <1>6 DEF DecidedV2, v, b

\* A decision without a basis is about nothing.
LEMMA DecidedLegacyCurrent ==
    ASSUME NEW w, Sound(w), NEW x \in {"accepted", "rejected"}, NEW t \in Time
    PROVE  Current(DecidedLegacy(w, x, t))
<1>1. DecidedLegacy(w, x, t).acceptanceDecision = [decision |-> x, decidedAt |-> t, basis |-> None]
    BY DEF DecidedLegacy, Decided, Sound, WorkItem
<1> QED BY <1>1 DEF Current

CurrentItem == OrderedItem /\ (item # None => Current(item))

\* No step of any actor leaves a decision in force about something else.
LEMMA CurrentStep ==
    ASSUME CurrentItem, [Next]_vars
    PROVE  CurrentItem'
<1>s. OrderedItem'
    BY OrderedStep DEF CurrentItem
<1>o. item # None => Sound(item) /\ Ordered(item) /\ Current(item)
    BY DEF CurrentItem, OrderedItem
<1> SUFFICES ASSUME item' # None PROVE Current(item')
    BY <1>s DEF CurrentItem
<1>1. CASE Create
    BY <1>1 DEF Create, CreatedItem, Current
<1>2. ASSUME NEW a \in AttemptId, NEW t \in Time, StartAttempt(a, t) PROVE Current(item')
    BY <1>o, <1>2, StartedCurrent DEF StartAttempt
<1>3. ASSUME NEW a \in AttemptId, NEW o \in Outcome, NEW t \in Time, FinishAttempt(a, o, t)
      PROVE  Current(item')
    BY <1>o, <1>3, FinishedCurrent DEF FinishAttempt
<1>4. ASSUME NEW a \in AttemptId, NEW id \in ArtifactId, NEW rev \in Revision,
             NEW t \in Time, LinkArtifact(a, id, rev, t)
      PROVE  Current(item')
    BY <1>o, <1>4, ArtifactLinkedCurrent DEF LinkArtifact
<1>5. ASSUME NEW e \in Evidence, RecordEvidence(e) PROVE Current(item')
    BY <1>o, <1>5, EvidenceRecordedCurrent DEF RecordEvidence
<1>6. ASSUME NEW r \in Reviewer, OpenReview(r) PROVE Current(item')
    BY <1>o, <1>6 DEF OpenReview
<1>7. ASSUME NEW r \in Reviewer, NEW v \in {"accepted", "rejected"}, NEW d \in DecisionId,
             NEW t \in Time, DecideAcceptance(r, v, d, t)
      PROVE  Current(item')
    BY <1>o, <1>7, DecidedV2Current DEF DecideAcceptance
<1>8. ASSUME NEW v \in {"accepted", "rejected"}, NEW t \in Time, DecideLegacy(v, t)
      PROVE  Current(item')
    BY <1>o, <1>8, DecidedLegacyCurrent DEF DecideLegacy
<1>9. CASE UNCHANGED vars
    BY <1>o, <1>9 DEF vars
<1> QED BY <1>1, <1>2, <1>3, <1>4, <1>5, <1>6, <1>7, <1>8, <1>9 DEF Next

\* A v2 decision in force is about the active attempt, whatever was delivered
\* since; the active artifact is no newer than it, unless the attempt did not
\* succeed; and what is accepted is the artifact revision that was signed for.
THEOREM DecisionStaysCurrent == Spec => []DecisionIsCurrent
<1>1. Init => CurrentItem
    BY DEF Init, CurrentItem, OrderedItem
<1>2. CurrentItem /\ [Next]_vars => CurrentItem'
    BY CurrentStep
<1>3. CurrentItem => DecisionIsCurrent
    BY DEF CurrentItem, Current, DecisionIsCurrent
<1> QED BY <1>1, <1>2, <1>3, PTL DEF Spec
-----------------------------------------------------------------------------
(***************************************************************************)
(* A basis is decided once.                                                *)
(***************************************************************************)

\* All evidence of criterion c about one revision of an artifact.
Group(w, a, id, rev, c) ==
    {e \in w.evidence :
        /\ e.criterionKey = c /\ e.attemptId = a
        /\ e.artifactId = id /\ e.revision = rev}

\* Some member is the newest, unless there is none.
HasNewest(S) == S # {} => \E m \in S : \A f \in S : ~NewerEvidence(f, m)

\* The active artifact is one that was linked to the active attempt, and the
\* evidence about every artifact revision has a newest: Newest is defined.
Known(w) ==
    /\ w.activeArtifact # None =>
        /\ HasActive(w)
        /\ [id |-> w.activeArtifact.artifactId, attemptId |-> w.activeAttemptId,
             revision |-> w.activeArtifact.revision, linkedAt |-> w.activeArtifact.linkedAt]
                \in w.artifacts
    /\ \A a, id, rev, c : HasNewest(Group(w, a, id, rev, c))

\* Evidence has numeric times and ids, which NewerEvidence compares.
LEMMA EvidenceNumbers ==
    ASSUME NEW w \in WorkItem, NEW e \in w.evidence
    PROVE  e \in Evidence /\ e.recordedAt \in Nat /\ e.id \in Nat
    BY TimeAssumption DEF WorkItem, Evidence

\* One more piece of evidence leaves a newest.
LEMMA NewestStays ==
    ASSUME NEW S \in SUBSET Evidence, HasNewest(S), NEW e \in Evidence
    PROVE  HasNewest(S \cup {e})
<1>1. \A f \in S \cup {e} : f.recordedAt \in Nat /\ f.id \in Nat
    BY TimeAssumption DEF Evidence
<1>2. ~NewerEvidence(e, e)
    BY <1>1 DEF NewerEvidence
<1>3. CASE S = {}
    BY <1>2, <1>3 DEF HasNewest
<1>4. ASSUME S # {} PROVE HasNewest(S \cup {e})
    <2>1. PICK m \in S : \A f \in S : ~NewerEvidence(f, m)
        BY <1>4 DEF HasNewest
    <2>2. CASE NewerEvidence(e, m)
        <3>1. \A f \in S : ~NewerEvidence(f, e)
            BY <1>1, <2>1, <2>2 DEF NewerEvidence
        <3> QED BY <1>2, <3>1 DEF HasNewest
    <2>3. CASE ~NewerEvidence(e, m)
        BY <2>1, <2>3 DEF HasNewest
    <2> QED BY <2>2, <2>3
<1> QED BY <1>3, <1>4

\* The newest is one of them, and none was recorded after it.
LEMMA NewestIsLast ==
    ASSUME NEW S \in SUBSET Evidence, HasNewest(S), S # {}
    PROVE  /\ Newest(S) \in S /\ Newest(S) # None
           /\ \A f \in S : f.recordedAt <= Newest(S).recordedAt
<1>1. Newest(S) \in S /\ \A f \in S : ~NewerEvidence(f, Newest(S))
    BY DEF HasNewest, Newest
<1>2. \A f \in S : f.recordedAt \in Nat
    BY TimeAssumption DEF Evidence
<1> QED BY <1>1, <1>2, NullAssumption DEF NewerEvidence

\* An event that leaves the active artifact, the artifacts and the evidence alone.
LEMMA KnownKept ==
    ASSUME NEW w, NEW v, Known(w),
           v.artifacts = w.artifacts, v.evidence = w.evidence,
           \/ v.activeArtifact = None
           \/ v.activeArtifact = w.activeArtifact /\ v.activeAttemptId = w.activeAttemptId
    PROVE  Known(v)
<1>1. \A a, id, rev, c : Group(v, a, id, rev, c) = Group(w, a, id, rev, c)
    BY DEF Group
<1> QED BY <1>1 DEF Known, HasActive

\* Every handler keeps it.
LEMMA KnownStep ==
    ASSUME NEW w, Sound(w), Ordered(w), Known(w)
    PROVE  /\ \A a \in AttemptId, t \in Time : CanStart(w, a, t) => Known(Started(w, a, t))
           /\ \A a \in AttemptId, o \in Outcome, t \in Time : Known(Finished(w, a, o, t))
           /\ \A a \in AttemptId, id \in ArtifactId, rev \in Revision, t \in Time :
                CanLinkArtifact(w, a, id, rev, t) => Known(ArtifactLinked(w, a, id, rev, t))
           /\ \A e \in Evidence : Known(EvidenceRecorded(w, e))
           /\ \A x, b, t : Known(Decided(w, x, b, t))
<1>1. w \in WorkItem
    BY DEF Sound
<1>2. ASSUME NEW a \in AttemptId, NEW t \in Time, CanStart(w, a, t)
      PROVE  Known(Started(w, a, t))
    <2> DEFINE v == Started(w, a, t)
    <2>1. /\ v.artifacts = w.artifacts /\ v.evidence = w.evidence
          /\ \/ v.activeArtifact = None
             \/ v.activeArtifact = w.activeArtifact /\ v.activeAttemptId = w.activeAttemptId
        BY <1>1 DEF Started, StartedLate, StartedNow, WorkItem
    <2> QED BY <2>1, KnownKept
<1>3. ASSUME NEW a \in AttemptId, NEW o \in Outcome, NEW t \in Time
      PROVE  Known(Finished(w, a, o, t))
    <2> DEFINE v == Finished(w, a, o, t)
    <2>1. /\ v.artifacts = w.artifacts /\ v.evidence = w.evidence
          /\ v.activeArtifact = w.activeArtifact /\ v.activeAttemptId = w.activeAttemptId
        BY <1>1 DEF Finished, WorkItem
    <2> QED BY <2>1, KnownKept
<1>4. ASSUME NEW a \in AttemptId, NEW id \in ArtifactId, NEW rev \in Revision, NEW t \in Time,
             CanLinkArtifact(w, a, id, rev, t)
      PROVE  Known(ArtifactLinked(w, a, id, rev, t))
    <2> DEFINE v == ArtifactLinked(w, a, id, rev, t)
               x0 == [id |-> id, attemptId |-> a, revision |-> rev, linkedAt |-> t]
               keep == SameRevision(w, id, rev) \/ StaleArtifact(w, t)
    <2>1. a = w.activeAttemptId /\ HasActive(w)
        BY <1>4, NoneAssumption DEF CanLinkArtifact, HasActive
    <2>2. /\ v.activeAttemptId = w.activeAttemptId
          /\ v.evidence = w.evidence
          /\ v.artifacts = IF SameRevision(w, id, rev) THEN w.artifacts ELSE w.artifacts \cup {x0}
          /\ v.activeArtifact = IF keep THEN w.activeArtifact
                                ELSE [artifactId |-> id, revision |-> rev, linkedAt |-> t]
        BY <1>1 DEF ArtifactLinked, WorkItem
    <2> HIDE DEF v
    <2>3. \A b, i, r, c : Group(v, b, i, r, c) = Group(w, b, i, r, c)
        BY <2>2 DEF Group
    <2>4. HasActive(v)
        BY <2>1, <2>2 DEF HasActive
    <2>5. Known(v)
        <3>1. CASE keep
            BY <2>2, <2>3, <2>4, <3>1 DEF Known
        <3>2. CASE ~keep
            BY <2>1, <2>2, <2>3, <2>4, <3>2 DEF Known
        <3> QED BY <3>1, <3>2
    <2> QED BY <2>5 DEF v
<1>5. ASSUME NEW e \in Evidence
      PROVE  Known(EvidenceRecorded(w, e))
    <2> DEFINE v == EvidenceRecorded(w, e)
               u == [w EXCEPT !.evidence = @ \cup {e}]
    <2>1. /\ u.activeAttemptId = w.activeAttemptId
          /\ u.activeArtifact = w.activeArtifact
          /\ u.artifacts = w.artifacts
          /\ u.evidence = w.evidence \cup {e}
          /\ u \in WorkItem
        BY <1>1 DEF WorkItem
    <2> HIDE DEF u
    <2>2. \/ v = u
          \/ \E s \in {"blocked", "reviewing"}, d \in {u.acceptanceDecision, None} :
                v = [u EXCEPT !.status = s, !.acceptanceDecision = d]
        BY Zenon DEF EvidenceRecorded, u
    <2>3. /\ v.activeAttemptId = w.activeAttemptId
          /\ v.activeArtifact = w.activeArtifact
          /\ v.artifacts = w.artifacts
          /\ v.evidence = w.evidence \cup {e}
        BY <2>1, <2>2 DEF WorkItem
    <2> HIDE DEF v
    <2>4. ASSUME NEW a, NEW id, NEW rev, NEW c
          PROVE  HasNewest(Group(v, a, id, rev, c))
        <3>1. Group(w, a, id, rev, c) \in SUBSET Evidence
            BY <1>1 DEF Group, WorkItem
        <3>3. HasNewest(Group(w, a, id, rev, c))
            BY DEF Known
        <3>2. \/ Group(v, a, id, rev, c) = Group(w, a, id, rev, c)
              \/ Group(v, a, id, rev, c) = Group(w, a, id, rev, c) \cup {e}
            BY <2>3 DEF Group
        <3> QED BY <3>1, <3>2, <3>3, NewestStays
    <2>5. Known(v)
        BY <2>3, <2>4 DEF Known, HasActive
    <2> QED BY <2>5 DEF v
<1>6. ASSUME NEW x, NEW b, NEW t
      PROVE  Known(Decided(w, x, b, t))
    <2> DEFINE v == Decided(w, x, b, t)
    <2>1. /\ v.artifacts = w.artifacts /\ v.evidence = w.evidence
          /\ v.activeArtifact = w.activeArtifact /\ v.activeAttemptId = w.activeAttemptId
        BY <1>1 DEF Decided, WorkItem
    <2> QED BY <2>1, KnownKept
<1> QED BY <1>2, <1>3, <1>4, <1>5, <1>6

\* What the reviewer was shown.
Shown(p) == p.basis.reviewRevision

\* A decision with a basis is about a started attempt and about facts that are
\* no newer than the decision.
Signed(p) ==
    /\ p.decidedAt \in Nat
    /\ Shown(p).activeAttemptId \in AttemptId
    /\ p.basis.attemptId = Shown(p).activeAttemptId
    /\ Shown(p).activeAttempt.startedAt \in Nat
    /\ Shown(p).activeArtifact # None =>
        /\ Shown(p).activeArtifact.linkedAt \in Nat
        /\ Shown(p).activeArtifact.linkedAt <= p.decidedAt
    /\ \A c \in RequiredEvidence :
        Shown(p).criteria[c] # None =>
            /\ Shown(p).criteria[c].recordedAt \in Nat
            /\ Shown(p).criteria[c].recordedAt <= p.decidedAt

SameAttempt(w, p) ==
    /\ HasActive(w)
    /\ w.activeAttemptId = Shown(p).activeAttemptId
    /\ ActiveAttempt(w).startedAt = Shown(p).activeAttempt.startedAt

LaterArtifact(w, p) ==
    /\ w.activeArtifact # None
    /\ Shown(p).activeArtifact # None =>
            Shown(p).activeArtifact.linkedAt < w.activeArtifact.linkedAt

LaterEvidence(w, p) ==
    /\ w.activeArtifact # None
    /\ w.activeArtifact = Shown(p).activeArtifact
    /\ \E c \in RequiredEvidence :
        /\ LatestEvidence(w, c) # None
        /\ Shown(p).criteria[c] # None =>
                Shown(p).criteria[c].recordedAt < LatestEvidence(w, c).recordedAt

\* The item has moved on from what the reviewer was shown: attempt, artifact and
\* evidence are compared in this order.
Past(w, p) ==
    \/ HasActive(w) /\ Shown(p).activeAttempt.startedAt < ActiveAttempt(w).startedAt
    \/ SameAttempt(w, p) /\ (LaterArtifact(w, p) \/ LaterEvidence(w, p))

\* Two artifacts of the attempt share a revision and a timestamp.
Tied(w, p) ==
    \E x, y \in w.artifacts :
        /\ x.attemptId = p.basis.attemptId /\ y.attemptId = p.basis.attemptId
        /\ x.id # y.id
        /\ x.revision = y.revision /\ x.linkedAt = y.linkedAt

\* The decision is the one that stands; artifacts it outlived may have come.
InForce(w, p) ==
    /\ w.acceptanceDecision = p
    /\ SameAttempt(w, p) /\ ActiveAttempt(w).runtimeOutcome # None
    /\ Shown(p).activeArtifact # None =>
            w.activeArtifact = Shown(p).activeArtifact \/ LaterArtifact(w, p)

Stands(w, p) == InForce(w, p) \/ Past(w, p) \/ Tied(w, p)

Bases(w) == {i \in DOMAIN w.acceptanceHistory : w.acceptanceHistory[i].basis # None}

\* The inductive invariant: every decision with a basis is in force or behind.
Decisions(w) ==
    /\ \A i \in Bases(w) : Signed(w.acceptanceHistory[i]) /\ Stands(w, w.acceptanceHistory[i])
    /\ \A i, j \in Bases(w) :
        (i # j /\ Shown(w.acceptanceHistory[i]) = Shown(w.acceptanceHistory[j])) =>
            Tied(w, w.acceptanceHistory[i])

\* Who has moved on no longer shows the same review.
LEMMA PastIsAnother ==
    ASSUME NEW w, Sound(w), Ordered(w), NEW p, Signed(p), Past(w, p)
    PROVE  ReviewRevision(w) # Shown(p)
<1> DEFINE r == ReviewRevision(w)
<1>1. HasActive(w) => r.activeAttempt.startedAt = ActiveAttempt(w).startedAt
    BY DEF ReviewRevision
<1>2. r.activeArtifact = w.activeArtifact
    BY DEF ReviewRevision
<1>3. \A c \in RequiredEvidence : r.criteria[c] = LatestEvidence(w, c)
    BY DEF ReviewRevision
<1> HIDE DEF r
<1>4. CASE HasActive(w) /\ Shown(p).activeAttempt.startedAt < ActiveAttempt(w).startedAt
    <2>1. ActiveAttempt(w).startedAt \in Nat
        BY <1>4, ActiveIsStarted
    <2>2. r.activeAttempt.startedAt # Shown(p).activeAttempt.startedAt
        BY <1>1, <1>4, <2>1 DEF Signed
    <2> QED BY <2>2 DEF r
<1>5. CASE LaterArtifact(w, p)
    <2>1. w.activeArtifact # None /\ w.activeArtifact.linkedAt \in Nat
        BY <1>5, TimeAssumption DEF LaterArtifact, Sound, WorkItem, ActiveArtifact
    <2>2. r.activeArtifact # Shown(p).activeArtifact
        BY <1>2, <1>5, <2>1 DEF LaterArtifact, Signed
    <2> QED BY <2>2 DEF r
<1>6. CASE LaterEvidence(w, p)
    <2>1. PICK c \in RequiredEvidence :
            /\ LatestEvidence(w, c) # None
            /\ Shown(p).criteria[c] # None =>
                    Shown(p).criteria[c].recordedAt < LatestEvidence(w, c).recordedAt
        BY <1>6 DEF LaterEvidence
    <2>2. LatestEvidence(w, c).recordedAt \in Nat
        BY <2>1, LatestEvidenceType, TimeAssumption DEF Sound, Evidence
    <2>3. r.criteria[c] # Shown(p).criteria[c]
        BY <1>3, <2>1, <2>2 DEF Signed
    <2> QED BY <2>3 DEF r
<1> QED BY <1>4, <1>5, <1>6 DEF Past

\* An event that decides nothing need only keep each decision where it stands.
LEMMA DecisionsKept ==
    ASSUME NEW w, Sound(w), Decisions(w), NEW v,
           v.acceptanceHistory = w.acceptanceHistory, w.artifacts \subseteq v.artifacts,
           \A p \in Decision : (p.basis # None /\ Signed(p) /\ Stands(w, p)) => Stands(v, p)
    PROVE  Decisions(v)
<1>1. Bases(v) = Bases(w)
    BY DEF Bases
<1>2. \A i \in Bases(w) : w.acceptanceHistory[i] \in Decision /\ w.acceptanceHistory[i].basis # None
    BY DEF Bases, Sound, WorkItem
<1>3. \A p : Tied(w, p) => Tied(v, p)
    BY DEF Tied
<1> QED BY <1>1, <1>2, <1>3 DEF Decisions

\* The order Stands compares by is one of numbers.
LEMMA ShownNumbers ==
    ASSUME NEW w, Sound(w), NEW p, Signed(p)
    PROVE  /\ p.decidedAt \in Nat
           /\ Shown(p).activeAttempt.startedAt \in Nat
           /\ Shown(p).activeArtifact # None => Shown(p).activeArtifact.linkedAt \in Nat
           /\ w.activeArtifact # None => w.activeArtifact.linkedAt \in Nat
    BY TimeAssumption DEF Signed, Sound, WorkItem, ActiveArtifact

\* A start leaves every decision standing: a late one touches nothing that was
\* shown, and one that counts began after every attempt that was.
LEMMA StartedStands ==
    ASSUME NEW w, Sound(w), Ordered(w),
           NEW a \in AttemptId, NEW t \in Time, CanStart(w, a, t),
           NEW p \in Decision, Signed(p), Stands(w, p)
    PROVE  Stands(Started(w, a, t), p)
<1>1. w \in WorkItem /\ t \in Nat
    BY TimeAssumption DEF Sound
<1>2. CASE HasActive(w) /\ t < ActiveAttempt(w).startedAt
    <2> DEFINE v == StartedLate(w, a, t)
    <2>1. a # w.activeAttemptId
        BY <1>2, ActiveIsStarted DEF CanStart, ActiveAttempt
    <2>2. /\ v.activeAttemptId = w.activeAttemptId /\ v.activeArtifact = w.activeArtifact
          /\ v.acceptanceDecision = w.acceptanceDecision
          /\ v.artifacts = w.artifacts /\ v.evidence = w.evidence
        BY <1>1 DEF StartedLate, WorkItem
    <2>3. v.attempts[w.activeAttemptId] = w.attempts[w.activeAttemptId]
        BY <1>1, <2>1 DEF StartedLate, WorkItem
    <2> HIDE DEF v
    <2>4. \A c : LatestEvidence(v, c) = LatestEvidence(w, c)
        BY <2>2 DEF LatestEvidence, CurrentEvidence
    <2>5. Stands(v, p)
        BY <2>2, <2>3, <2>4 DEF Stands, InForce, Past, Tied, SameAttempt, LaterArtifact,
                                LaterEvidence, HasActive, ActiveAttempt
    <2> QED BY <1>2, <2>5 DEF Started, v
<1>3. CASE ~(HasActive(w) /\ t < ActiveAttempt(w).startedAt)
    <2> DEFINE v == StartedNow(w, a, t)
    <2>1. v.activeAttemptId = a /\ v.artifacts = w.artifacts
        BY <1>1 DEF StartedNow, WorkItem
    <2>2. v.attempts = [b \in AttemptId |->
            IF b = a
            THEN NewAttempt("running", t, None)
            ELSE IF b = w.activeAttemptId /\ w.attempts[b].status = "running"
            THEN [w.attempts[b] EXCEPT !.status = "superseded", !.completedAt = t]
            ELSE w.attempts[b]]
        BY <1>1, Zenon DEF StartedNow, WorkItem
    <2> HIDE DEF v
    <2>s. v.attempts[a] = NewAttempt("running", t, None)
        BY <2>2
    <2>3. v.attempts[a].startedAt = t
        BY <2>s DEF NewAttempt
    <2>4. HasActive(v) /\ ActiveAttempt(v).startedAt = t
        BY <2>1, <2>3, NoneAssumption DEF HasActive, ActiveAttempt
    <2>5. ASSUME HasActive(w)
          PROVE  ActiveAttempt(w).startedAt \in Nat /\ ActiveAttempt(w).startedAt < t
        BY <1>1, <1>3, <2>5, ActiveIsStarted DEF CanStart
    <2>6. ASSUME Tied(w, p) PROVE Stands(v, p)
        BY <2>1, <2>6 DEF Tied, Stands
    <2>7. ASSUME InForce(w, p) \/ Past(w, p) PROVE Stands(v, p)
        <3>1. HasActive(w) /\ Shown(p).activeAttempt.startedAt <= ActiveAttempt(w).startedAt
            BY <2>5, <2>7, ShownNumbers DEF InForce, Past, SameAttempt
        <3>2. Shown(p).activeAttempt.startedAt < t
            BY <1>1, <2>5, <3>1, ShownNumbers
        <3> QED BY <2>4, <3>2 DEF Past, Stands
    <2>8. Stands(v, p)
        BY <2>6, <2>7 DEF Stands
    <2> QED BY <1>3, <2>8 DEF Started, v
<1> QED BY <1>2, <1>3

\* No decision is in force on an attempt that is still to finish, and finishing
\* one leaves the facts that others are behind of.
LEMMA FinishedStands ==
    ASSUME NEW w, Sound(w), NEW a \in AttemptId, NEW o \in Outcome, NEW t \in Time,
           CanFinish(w, a), NEW p \in Decision, Signed(p), Stands(w, p)
    PROVE  Stands(Finished(w, a, o, t), p)
<1> DEFINE v == Finished(w, a, o, t)
<1>1. w \in WorkItem
    BY DEF Sound
<1>2. /\ v.activeAttemptId = w.activeAttemptId /\ v.activeArtifact = w.activeArtifact
      /\ v.artifacts = w.artifacts /\ v.evidence = w.evidence
      /\ ~ChangesActiveState(w, a) => v.acceptanceDecision = w.acceptanceDecision
    BY <1>1 DEF Finished, WorkItem
<1>3. v.attempts = [w.attempts EXCEPT ![a] = EndedAttempt(w, a, o, t)]
    BY <1>1 DEF Finished, WorkItem
<1>4. \A b \in AttemptId : v.attempts[b].startedAt = w.attempts[b].startedAt
    BY <1>1, <1>3 DEF EndedAttempt, WorkItem
<1>5. \A b \in AttemptId : b # a => v.attempts[b] = w.attempts[b]
    BY <1>1, <1>3 DEF WorkItem
<1>6. HasActive(w) => w.activeAttemptId \in AttemptId
    BY <1>1 DEF HasActive, WorkItem
<1> HIDE DEF v
<1>7. \A c : LatestEvidence(v, c) = LatestEvidence(w, c)
    BY <1>2 DEF LatestEvidence, CurrentEvidence
<1>8. SameAttempt(w, p) => SameAttempt(v, p)
    BY <1>2, <1>4, <1>6 DEF SameAttempt, HasActive, ActiveAttempt
<1>9. /\ LaterArtifact(w, p) => LaterArtifact(v, p)
      /\ LaterEvidence(w, p) => LaterEvidence(v, p)
    BY <1>2, <1>7 DEF LaterArtifact, LaterEvidence
<1>10. ASSUME InForce(w, p) PROVE Stands(v, p)
    <2>1. HasActive(w) /\ w.activeAttemptId # a
        BY <1>10 DEF InForce, SameAttempt, CanFinish, ActiveAttempt
    <2>2. v.acceptanceDecision = w.acceptanceDecision
        BY <1>2, <2>1 DEF ChangesActiveState
    <2>3. ActiveAttempt(v) = ActiveAttempt(w)
        BY <1>2, <1>5, <1>6, <2>1 DEF ActiveAttempt
    <2> QED BY <1>2, <1>8, <1>9, <1>10, <2>2, <2>3 DEF InForce, Stands
<1>11. ASSUME Past(w, p) PROVE Stands(v, p)
    <2>1. HasActive(w) => HasActive(v) /\ ActiveAttempt(v).startedAt = ActiveAttempt(w).startedAt
        BY <1>2, <1>4, <1>6 DEF HasActive, ActiveAttempt
    <2> QED BY <1>8, <1>9, <1>11, <2>1 DEF Past, Stands
<1>12. ASSUME Tied(w, p) PROVE Stands(v, p)
    BY <1>2, <1>12 DEF Tied, Stands
<1>13. Stands(v, p)
    BY <1>10, <1>11, <1>12 DEF Stands
<1> QED BY <1>13 DEF v

\* A new active artifact is later than the one shown, or tied with it.
LEMMA ArtifactLinkedStands ==
    ASSUME NEW w, Sound(w), Known(w),
           NEW a \in AttemptId, NEW id \in ArtifactId, NEW rev \in Revision, NEW t \in Time,
           CanLinkArtifact(w, a, id, rev, t),
           NEW p \in Decision, Signed(p), Stands(w, p)
    PROVE  Stands(ArtifactLinked(w, a, id, rev, t), p)
<1> DEFINE v == ArtifactLinked(w, a, id, rev, t)
           x0 == [id |-> id, attemptId |-> a, revision |-> rev, linkedAt |-> t]
           y0 == [id |-> w.activeArtifact.artifactId, attemptId |-> w.activeAttemptId,
                  revision |-> w.activeArtifact.revision, linkedAt |-> w.activeArtifact.linkedAt]
           keep == SameRevision(w, id, rev) \/ StaleArtifact(w, t)
<1>1. w \in WorkItem /\ t \in Nat
    BY TimeAssumption DEF Sound
<1>2. a = w.activeAttemptId
    BY DEF CanLinkArtifact
<1>3. /\ v.activeAttemptId = w.activeAttemptId /\ v.attempts = w.attempts
      /\ v.evidence = w.evidence
      /\ v.artifacts = IF SameRevision(w, id, rev) THEN w.artifacts ELSE w.artifacts \cup {x0}
      /\ v.activeArtifact = IF keep THEN w.activeArtifact
                            ELSE [artifactId |-> id, revision |-> rev, linkedAt |-> t]
      /\ keep => v.acceptanceDecision = w.acceptanceDecision
    BY <1>1 DEF ArtifactLinked, WorkItem
<1>4. None # [artifactId |-> id, revision |-> rev, linkedAt |-> t]
    BY NullAssumption DEF ActiveArtifact
<1> HIDE DEF v
<1>5. /\ w.artifacts \subseteq v.artifacts
      /\ HasActive(v) <=> HasActive(w)
      /\ ActiveAttempt(v) = ActiveAttempt(w)
      /\ SameAttempt(v, p) <=> SameAttempt(w, p)
    BY <1>3 DEF SameAttempt, HasActive, ActiveAttempt
<1>6. ASSUME Tied(w, p) PROVE Stands(v, p)
    BY <1>5, <1>6 DEF Tied, Stands
<1>7. ASSUME HasActive(w), Shown(p).activeAttempt.startedAt < ActiveAttempt(w).startedAt
      PROVE  Stands(v, p)
    BY <1>5, <1>7 DEF Past, Stands
<1>8. ASSUME keep, ~Tied(w, p) PROVE Stands(v, p)
    <2>1. /\ v.activeArtifact = w.activeArtifact
          /\ v.acceptanceDecision = w.acceptanceDecision
        BY <1>3, <1>8
    <2>2. \A c : LatestEvidence(v, c) = LatestEvidence(w, c)
        BY <1>3, <2>1 DEF LatestEvidence, CurrentEvidence
    <2>3. /\ LaterArtifact(v, p) <=> LaterArtifact(w, p)
          /\ LaterEvidence(v, p) <=> LaterEvidence(w, p)
        BY <2>1, <2>2 DEF LaterArtifact, LaterEvidence
    <2> QED BY <1>5, <1>8, <2>1, <2>3 DEF Stands, InForce, Past
<1>9. ASSUME ~keep, SameAttempt(w, p),
             Shown(p).activeArtifact # None =>
                w.activeArtifact = Shown(p).activeArtifact \/ LaterArtifact(w, p)
      PROVE  Stands(v, p)
    <2>1. v.activeArtifact = [artifactId |-> id, revision |-> rev, linkedAt |-> t]
        BY <1>3, <1>9
    <2>2. v.activeArtifact # None /\ v.activeArtifact.linkedAt = t
        BY <1>4, <2>1
    <2>3. CASE Shown(p).activeArtifact = None \/ Shown(p).activeArtifact.linkedAt < t
        BY <1>5, <1>9, <2>2, <2>3 DEF LaterArtifact, Past, Stands
    <2>4. CASE ~(Shown(p).activeArtifact = None \/ Shown(p).activeArtifact.linkedAt < t)
        <3>1. /\ w.activeArtifact # None
              /\ w.activeArtifact.linkedAt \in Nat
              /\ w.activeArtifact.linkedAt <= t
            BY <1>1, <1>9, <2>4, ShownNumbers DEF LaterArtifact, StaleArtifact
        <3>2. w.activeArtifact = Shown(p).activeArtifact
            BY <1>1, <1>9, <2>4, <3>1, ShownNumbers DEF LaterArtifact
        <3>3. w.activeArtifact.linkedAt = t
            BY <1>1, <2>4, <3>1, <3>2
        <3>4. w.activeArtifact.revision = rev /\ w.activeArtifact.artifactId # id
            BY <1>9, <3>1, <3>3 DEF CanLinkArtifact, SameRevision
        <3>5. y0 \in v.artifacts
            BY <1>5, <3>1 DEF Known
        <3>6. x0 \in v.artifacts
            BY <1>3, <1>9
        <3>7. p.basis.attemptId = a
            BY <1>2, <1>9 DEF SameAttempt, Signed
        <3>8. /\ x0.attemptId = a /\ y0.attemptId = a /\ x0.id # y0.id
              /\ x0.revision = y0.revision /\ x0.linkedAt = y0.linkedAt
            BY <1>2, <3>3, <3>4
        <3> HIDE DEF x0, y0
        <3> QED BY <3>5, <3>6, <3>7, <3>8 DEF Tied, Stands
    <2> QED BY <2>3, <2>4
<1>10. Stands(v, p)
    BY <1>6, <1>7, <1>8, <1>9 DEF Stands, InForce, Past, LaterEvidence
<1> QED BY <1>10 DEF v

\* More evidence moves the latest forward only.
LEMMA LatestGrows ==
    ASSUME NEW w \in WorkItem, Known(w), NEW v, Known(v), NEW e \in Evidence,
           v.activeAttemptId = w.activeAttemptId, v.activeArtifact = w.activeArtifact,
           v.evidence = w.evidence \cup {e}, NEW c
    PROVE  \A f \in CurrentEvidence(v, c) :
                /\ LatestEvidence(v, c) # None
                /\ f.recordedAt <= LatestEvidence(v, c).recordedAt
<1>1. v.evidence \subseteq Evidence
    BY DEF WorkItem
<1>2. CurrentEvidence(v, c) \in SUBSET Evidence
    BY <1>1 DEF CurrentEvidence
<1>3. SUFFICES ASSUME NEW f \in CurrentEvidence(v, c)
               PROVE  /\ LatestEvidence(v, c) # None
                      /\ f.recordedAt <= LatestEvidence(v, c).recordedAt
    OBVIOUS
<1>4. v.activeArtifact # None
    BY <1>3 DEF CurrentEvidence
<1>5. CurrentEvidence(v, c) =
            Group(v, v.activeAttemptId, v.activeArtifact.artifactId, v.activeArtifact.revision, c)
    BY <1>4 DEF CurrentEvidence, Group
<1>6. HasNewest(CurrentEvidence(v, c))
    BY <1>5 DEF Known
<1> QED BY <1>2, <1>3, <1>6, NewestIsLast DEF LatestEvidence

\* Evidence that cancels a decision is later than all the reviewer was shown.
LEMMA EvidenceRecordedStands ==
    ASSUME NEW w, Sound(w), Known(w), NEW e \in Evidence, CanRecordEvidence(w, e),
           NEW p \in Decision, Signed(p), Stands(w, p),
           Known(EvidenceRecorded(w, e))
    PROVE  Stands(EvidenceRecorded(w, e), p)
<1> DEFINE v == EvidenceRecorded(w, e)
           u == [w EXCEPT !.evidence = @ \cup {e}]
           gate == /\ SameRevision(w, e.artifactId, e.revision)
                   /\ e.criterionKey \in RequiredEvidence
<1>1. w \in WorkItem /\ e.recordedAt \in Nat
    BY TimeAssumption DEF Sound, Evidence
<1>2. /\ u.activeAttemptId = w.activeAttemptId /\ u.activeArtifact = w.activeArtifact
      /\ u.attempts = w.attempts /\ u.artifacts = w.artifacts
      /\ u.evidence = w.evidence \cup {e}
      /\ u.acceptanceDecision = w.acceptanceDecision
      /\ u \in WorkItem
    BY <1>1 DEF WorkItem
<1> HIDE DEF u
<1>3. \/ v = u
      \/ gate /\ \E s \in {"blocked", "reviewing"} :
            v = [u EXCEPT !.status = s,
                          !.acceptanceDecision = IF PreservesDecision(w, e.recordedAt)
                                                 THEN @ ELSE None]
    BY Zenon DEF EvidenceRecorded, u
<1>4. /\ v.activeAttemptId = w.activeAttemptId /\ v.activeArtifact = w.activeArtifact
      /\ v.attempts = w.attempts /\ v.artifacts = w.artifacts
      /\ v.evidence = w.evidence \cup {e}
      /\ \/ v.acceptanceDecision = w.acceptanceDecision
         \/ gate /\ ~PreservesDecision(w, e.recordedAt)
    BY <1>2, <1>3 DEF WorkItem
<1>k. Known(v)
    OBVIOUS
<1> HIDE DEF v
<1>5. /\ HasActive(v) <=> HasActive(w)
      /\ ActiveAttempt(v) = ActiveAttempt(w)
      /\ SameAttempt(v, p) <=> SameAttempt(w, p)
      /\ LaterArtifact(v, p) <=> LaterArtifact(w, p)
    BY <1>4 DEF SameAttempt, HasActive, ActiveAttempt, LaterArtifact
<1>6. \A c : CurrentEvidence(w, c) \subseteq CurrentEvidence(v, c)
    BY <1>4 DEF CurrentEvidence
<1>7. \A c : \A f \in CurrentEvidence(v, c) :
                /\ LatestEvidence(v, c) # None
                /\ f.recordedAt <= LatestEvidence(v, c).recordedAt
    BY <1>1, <1>4, <1>k, LatestGrows
<1>8. \A c : LatestEvidence(v, c) # None => LatestEvidence(v, c).recordedAt \in Nat
    BY <1>1, <1>4, TimeAssumption DEF LatestEvidence, Newest, CurrentEvidence, WorkItem, Evidence
<1>9. \A c : LatestEvidence(w, c) # None =>
            LatestEvidence(w, c) \in CurrentEvidence(w, c)
    BY DEF LatestEvidence, Newest
<1>10. ASSUME Tied(w, p) PROVE Stands(v, p)
    BY <1>4, <1>10 DEF Tied, Stands
<1>11. ASSUME HasActive(w), Shown(p).activeAttempt.startedAt < ActiveAttempt(w).startedAt
       PROVE  Stands(v, p)
    BY <1>5, <1>11 DEF Past, Stands
<1>12. ASSUME SameAttempt(w, p), LaterArtifact(w, p) PROVE Stands(v, p)
    BY <1>5, <1>12 DEF Past, Stands
<1>13. ASSUME SameAttempt(w, p), LaterEvidence(w, p) PROVE Stands(v, p)
    <2>1. PICK c \in RequiredEvidence :
            /\ LatestEvidence(w, c) # None
            /\ Shown(p).criteria[c] # None =>
                    Shown(p).criteria[c].recordedAt < LatestEvidence(w, c).recordedAt
        BY <1>13 DEF LaterEvidence
    <2>2. /\ LatestEvidence(v, c) # None
          /\ LatestEvidence(w, c).recordedAt <= LatestEvidence(v, c).recordedAt
        BY <1>6, <1>7, <1>9, <2>1
    <2>3. LatestEvidence(w, c).recordedAt \in Nat
        BY <2>1, LatestEvidenceType, TimeAssumption, <1>1 DEF Evidence
    <2>4. Shown(p).criteria[c] # None =>
                Shown(p).criteria[c].recordedAt < LatestEvidence(v, c).recordedAt
        BY <1>8, <2>1, <2>2, <2>3 DEF Signed
    <2> QED BY <1>4, <1>5, <1>13, <2>2, <2>4 DEF LaterEvidence, Past, Stands
<1>14. ASSUME InForce(w, p) PROVE Stands(v, p)
    <2>1. CASE v.acceptanceDecision = w.acceptanceDecision
        BY <1>4, <1>5, <1>14, <2>1 DEF InForce, Stands
    <2>2. CASE gate /\ ~PreservesDecision(w, e.recordedAt)
        <3>1. p.decidedAt < e.recordedAt
            BY <1>1, <1>14, <2>2, NullAssumption, ShownNumbers DEF InForce, PreservesDecision
        <3>2. e \in CurrentEvidence(v, e.criterionKey)
            BY <1>4, <2>2 DEF SameRevision, CurrentEvidence, CanRecordEvidence
        <3>3. /\ LatestEvidence(v, e.criterionKey) # None
              /\ e.recordedAt <= LatestEvidence(v, e.criterionKey).recordedAt
            BY <1>7, <3>2
        <3>4. Shown(p).criteria[e.criterionKey] # None =>
                Shown(p).criteria[e.criterionKey].recordedAt
                    < LatestEvidence(v, e.criterionKey).recordedAt
            BY <1>1, <1>8, <2>2, <3>1, <3>3, ShownNumbers DEF Signed
        <3>5. w.activeArtifact # None
            BY <2>2 DEF SameRevision
        <3>6. CASE w.activeArtifact = Shown(p).activeArtifact
            BY <1>4, <1>5, <1>14, <2>2, <3>3, <3>4, <3>5, <3>6
               DEF LaterEvidence, Past, Stands, InForce
        <3>7. CASE w.activeArtifact # Shown(p).activeArtifact
            <4>1. LaterArtifact(w, p)
                BY <1>14, <3>5, <3>7 DEF InForce, LaterArtifact
            <4> QED BY <1>12, <1>14, <4>1 DEF InForce
        <3> QED BY <3>6, <3>7
    <2> QED BY <1>4, <2>1, <2>2
<1>15. Stands(v, p)
    BY <1>10, <1>11, <1>12, <1>13, <1>14 DEF Stands, Past
<1> QED BY <1>15 DEF v

\* The handlers that decide nothing.
LEMMA DecisionsStep ==
    ASSUME NEW w, Sound(w), Ordered(w), Known(w), Decisions(w)
    PROVE  /\ \A a \in AttemptId, t \in Time : CanStart(w, a, t) => Decisions(Started(w, a, t))
           /\ \A a \in AttemptId, o \in Outcome, t \in Time :
                CanFinish(w, a) => Decisions(Finished(w, a, o, t))
           /\ \A a \in AttemptId, id \in ArtifactId, rev \in Revision, t \in Time :
                CanLinkArtifact(w, a, id, rev, t) => Decisions(ArtifactLinked(w, a, id, rev, t))
           /\ \A e \in Evidence :
                CanRecordEvidence(w, e) => Decisions(EvidenceRecorded(w, e))
<1>1. w \in WorkItem
    BY DEF Sound
<1>2. ASSUME NEW a \in AttemptId, NEW t \in Time, CanStart(w, a, t)
      PROVE  Decisions(Started(w, a, t))
    <2>1. /\ Started(w, a, t).acceptanceHistory = w.acceptanceHistory
          /\ Started(w, a, t).artifacts = w.artifacts
        BY <1>1 DEF Started, StartedLate, StartedNow, WorkItem
    <2>2. \A p \in Decision : Signed(p) /\ Stands(w, p) => Stands(Started(w, a, t), p)
        BY <1>2, StartedStands
    <2> QED BY <2>1, <2>2, DecisionsKept
<1>3. ASSUME NEW a \in AttemptId, NEW o \in Outcome, NEW t \in Time, CanFinish(w, a)
      PROVE  Decisions(Finished(w, a, o, t))
    <2>1. /\ Finished(w, a, o, t).acceptanceHistory = w.acceptanceHistory
          /\ Finished(w, a, o, t).artifacts = w.artifacts
        BY <1>1 DEF Finished, WorkItem
    <2>2. \A p \in Decision : Signed(p) /\ Stands(w, p) => Stands(Finished(w, a, o, t), p)
        BY <1>3, FinishedStands
    <2> QED BY <2>1, <2>2, DecisionsKept
<1>4. ASSUME NEW a \in AttemptId, NEW id \in ArtifactId, NEW rev \in Revision, NEW t \in Time,
             CanLinkArtifact(w, a, id, rev, t)
      PROVE  Decisions(ArtifactLinked(w, a, id, rev, t))
    <2>1. /\ ArtifactLinked(w, a, id, rev, t).acceptanceHistory = w.acceptanceHistory
          /\ w.artifacts \subseteq ArtifactLinked(w, a, id, rev, t).artifacts
        BY <1>1 DEF ArtifactLinked, WorkItem
    <2>2. \A p \in Decision :
            Signed(p) /\ Stands(w, p) => Stands(ArtifactLinked(w, a, id, rev, t), p)
        BY <1>4, ArtifactLinkedStands
    <2> QED BY <2>1, <2>2, DecisionsKept
<1>5. ASSUME NEW e \in Evidence, CanRecordEvidence(w, e)
      PROVE  Decisions(EvidenceRecorded(w, e))
    <2> DEFINE u == [w EXCEPT !.evidence = @ \cup {e}]
    <2>1. /\ u.acceptanceHistory = w.acceptanceHistory /\ u.artifacts = w.artifacts
          /\ u \in WorkItem
        BY <1>1 DEF WorkItem
    <2> HIDE DEF u
    <2>2. \/ EvidenceRecorded(w, e) = u
          \/ \E s \in {"blocked", "reviewing"}, d \in {u.acceptanceDecision, None} :
                EvidenceRecorded(w, e) = [u EXCEPT !.status = s, !.acceptanceDecision = d]
        BY Zenon DEF EvidenceRecorded, u
    <2>3. /\ EvidenceRecorded(w, e).acceptanceHistory = w.acceptanceHistory
          /\ EvidenceRecorded(w, e).artifacts = w.artifacts
        BY <2>1, <2>2 DEF WorkItem
    <2>4. Known(EvidenceRecorded(w, e))
        BY KnownStep
    <2>5. \A p \in Decision : Signed(p) /\ Stands(w, p) => Stands(EvidenceRecorded(w, e), p)
        BY <1>5, <2>4, EvidenceRecordedStands
    <2> QED BY <2>3, <2>5, DecisionsKept
<1> QED BY <1>2, <1>3, <1>4, <1>5

\* A decision is taken on a review no earlier decision is in force for, so only a
\* tie can have brought the item back to one that was decided.
LEMMA DecidedV2Decisions ==
    ASSUME NEW w, Sound(w), Ordered(w), Decisions(w), NEW x \in {"accepted", "rejected"},
           NEW d \in DecisionId, NEW rr, NEW t \in Time, CanDecide(w, x, rr, t)
    PROVE  Decisions(DecidedV2(w, x, d, rr, t))
<1> DEFINE b == BasisOf(w, d, rr)
           q == [decision |-> x, decidedAt |-> t, basis |-> b]
           v == DecidedV2(w, x, d, rr, t)
           n == Len(w.acceptanceHistory)
<1>1. w \in WorkItem /\ t \in Nat /\ w.acceptanceHistory \in Seq(Decision)
    BY TimeAssumption DEF Sound, WorkItem
<1>2. /\ v.activeAttemptId = w.activeAttemptId /\ v.activeArtifact = w.activeArtifact
      /\ v.attempts = w.attempts /\ v.artifacts = w.artifacts /\ v.evidence = w.evidence
      /\ v.acceptanceDecision = q
      /\ v.acceptanceHistory = Append(w.acceptanceHistory, q)
    BY <1>1 DEF DecidedV2, Decided, WorkItem
<1>3. HasActive(w) /\ w.acceptanceDecision = None /\ rr = ReviewRevision(w)
      /\ ActiveAttempt(w).runtimeOutcome # None
    BY DEF CanDecide
<1>4. /\ q.basis.attemptId = w.activeAttemptId /\ Shown(q) = rr /\ q.decidedAt = t
    BY DEF BasisOf, Shown
<1>5. /\ rr.activeAttemptId = w.activeAttemptId
      /\ rr.activeAttempt = ActiveAttempt(w)
      /\ rr.activeArtifact = w.activeArtifact
      /\ \A c \in RequiredEvidence : rr.criteria[c] = LatestEvidence(w, c)
    BY <1>3 DEF ReviewRevision
<1> HIDE DEF b, q, v
<1>6. \A c : LatestEvidence(v, c) = LatestEvidence(w, c)
    BY <1>2 DEF LatestEvidence, CurrentEvidence
<1>7. Signed(q)
    <2>1. ActiveAttempt(w).startedAt \in Nat /\ w.activeAttemptId \in AttemptId
        BY <1>3, ActiveIsStarted
    <2>2. w.activeArtifact # None =>
            w.activeArtifact.linkedAt \in Nat /\ w.activeArtifact.linkedAt <= t
        BY <1>1, TimeAssumption DEF CanDecide, FactsNoLaterThan, WorkItem, ActiveArtifact
    <2>3. \A c \in RequiredEvidence : LatestEvidence(w, c) # None =>
            LatestEvidence(w, c).recordedAt \in Nat /\ LatestEvidence(w, c).recordedAt <= t
        BY <1>1, LatestEvidenceType, TimeAssumption DEF CanDecide, FactsNoLaterThan, Evidence
    <2> QED BY <1>1, <1>4, <1>5, <2>1, <2>2, <2>3 DEF Signed
<1>8. Stands(v, q)
    BY <1>2, <1>3, <1>4, <1>5 DEF Stands, InForce, SameAttempt, HasActive, ActiveAttempt
<1>9. \A i \in Bases(w) :
        w.acceptanceHistory[i] \in Decision /\ w.acceptanceHistory[i].basis # None
    BY <1>1 DEF Bases
<1>10. \A p : Tied(w, p) => Tied(v, p)
    BY <1>2 DEF Tied
<1>11. \A i \in Bases(w) : Past(w, w.acceptanceHistory[i]) \/ Tied(w, w.acceptanceHistory[i])
    BY <1>3, <1>9, NullAssumption DEF Decisions, Stands, InForce
<1>12. \A p : Past(w, p) => Past(v, p)
    BY <1>2, <1>6 DEF Past, SameAttempt, LaterArtifact, LaterEvidence, HasActive, ActiveAttempt
<1>13. /\ n \in Nat
       /\ \A i \in Bases(w) : v.acceptanceHistory[i] = w.acceptanceHistory[i]
       /\ v.acceptanceHistory[n + 1] = q
       /\ \A i \in Bases(v) : i \in Bases(w) \/ i = n + 1
    BY <1>1, <1>2 DEF Bases
<1>14. \A i \in Bases(w) : Shown(w.acceptanceHistory[i]) = Shown(q) =>
            Tied(v, w.acceptanceHistory[i]) /\ Tied(v, q)
    <2> SUFFICES ASSUME NEW i \in Bases(w), Shown(w.acceptanceHistory[i]) = Shown(q)
                 PROVE  Tied(v, w.acceptanceHistory[i]) /\ Tied(v, q)
        OBVIOUS
    <2>1. Signed(w.acceptanceHistory[i])
        BY DEF Decisions
    <2>2. ~Past(w, w.acceptanceHistory[i])
        BY <1>3, <1>4, <2>1, PastIsAnother
    <2>3. Tied(v, w.acceptanceHistory[i])
        BY <1>10, <1>11, <2>2
    <2>4. w.acceptanceHistory[i].basis.attemptId = q.basis.attemptId
        BY <1>7, <2>1 DEF Signed
    <2> QED BY <2>3, <2>4 DEF Tied
<1>15. Decisions(v)
    <2>1. \A i \in Bases(v) : Signed(v.acceptanceHistory[i]) /\ Stands(v, v.acceptanceHistory[i])
        BY <1>7, <1>8, <1>10, <1>11, <1>12, <1>13 DEF Decisions, Stands
    <2>2. \A i, j \in Bases(v) :
            (i # j /\ Shown(v.acceptanceHistory[i]) = Shown(v.acceptanceHistory[j])) =>
                Tied(v, v.acceptanceHistory[i])
        BY <1>10, <1>13, <1>14 DEF Decisions
    <2> QED BY <2>1, <2>2 DEF Decisions
<1> QED BY <1>15 DEF v

\* A legacy decision has no basis, and none before it has one.
LEMMA DecidedLegacyDecisions ==
    ASSUME NEW w \in WorkItem, NEW x, NEW t,
           \A i \in DOMAIN w.acceptanceHistory : w.acceptanceHistory[i].basis = None
    PROVE  Decisions(DecidedLegacy(w, x, t))
<1> DEFINE v == DecidedLegacy(w, x, t)
           q == [decision |-> x, decidedAt |-> t, basis |-> None]
<1>1. v.acceptanceHistory = Append(w.acceptanceHistory, q)
    BY DEF DecidedLegacy, Decided, WorkItem
<1>2. q.basis = None
    OBVIOUS
<1> HIDE DEF v, q
<1>3. Bases(v) = {}
    BY <1>1, <1>2 DEF Bases, WorkItem
<1>4. Decisions(v)
    BY <1>3 DEF Decisions
<1> QED BY <1>4 DEF v

DecidedItem == OrderedItem /\ (item # None => Known(item) /\ Decisions(item))

\* No step of any actor takes a decision twice.
LEMMA DecidedStep ==
    ASSUME DecidedItem, [Next]_vars
    PROVE  DecidedItem'
<1>s. OrderedItem'
    BY OrderedStep DEF DecidedItem
<1>o. item # None => Sound(item) /\ Ordered(item) /\ Known(item) /\ Decisions(item)
    BY DEF DecidedItem, OrderedItem
<1> SUFFICES ASSUME item' # None PROVE Known(item') /\ Decisions(item')
    BY <1>s DEF DecidedItem
<1>1. CASE Create
    <2>1. /\ item'.activeArtifact = None /\ item'.evidence = {}
          /\ item'.acceptanceHistory = <<>>
        BY <1>1 DEF Create, CreatedItem
    <2> QED BY <2>1 DEF Known, Group, HasNewest, Decisions, Bases
<1>2. ASSUME NEW a \in AttemptId, NEW t \in Time, StartAttempt(a, t)
      PROVE  Known(item') /\ Decisions(item')
    BY <1>o, <1>2, KnownStep, DecisionsStep DEF StartAttempt
<1>3. ASSUME NEW a \in AttemptId, NEW o \in Outcome, NEW t \in Time, FinishAttempt(a, o, t)
      PROVE  Known(item') /\ Decisions(item')
    BY <1>o, <1>3, KnownStep, DecisionsStep DEF FinishAttempt
<1>4. ASSUME NEW a \in AttemptId, NEW id \in ArtifactId, NEW rev \in Revision,
             NEW t \in Time, LinkArtifact(a, id, rev, t)
      PROVE  Known(item') /\ Decisions(item')
    BY <1>o, <1>4, KnownStep, DecisionsStep DEF LinkArtifact
<1>5. ASSUME NEW e \in Evidence, RecordEvidence(e) PROVE Known(item') /\ Decisions(item')
    BY <1>o, <1>5, KnownStep, DecisionsStep DEF RecordEvidence
<1>6. ASSUME NEW r \in Reviewer, OpenReview(r) PROVE Known(item') /\ Decisions(item')
    BY <1>o, <1>6 DEF OpenReview
<1>7. ASSUME NEW r \in Reviewer, NEW v \in {"accepted", "rejected"}, NEW d \in DecisionId,
             NEW t \in Time, DecideAcceptance(r, v, d, t)
      PROVE  Known(item') /\ Decisions(item')
    <2>1. Decisions(item')
        BY <1>o, <1>7, DecidedV2Decisions DEF DecideAcceptance
    <2>2. Known(item')
        BY <1>o, <1>7, KnownStep DEF DecideAcceptance, DecidedV2
    <2> QED BY <2>1, <2>2
<1>8. ASSUME NEW v \in {"accepted", "rejected"}, NEW t \in Time, DecideLegacy(v, t)
      PROVE  Known(item') /\ Decisions(item')
    <2>1. Decisions(item')
        BY <1>o, <1>8, DecidedLegacyDecisions DEF DecideLegacy, Sound
    <2>2. Known(item')
        BY <1>o, <1>8, KnownStep DEF DecideLegacy, DecidedLegacy
    <2> QED BY <2>1, <2>2
<1>9. CASE UNCHANGED vars
    BY <1>o, <1>9 DEF vars
<1> QED BY <1>1, <1>2, <1>3, <1>4, <1>5, <1>6, <1>7, <1>8, <1>9 DEF Next

\* Whatever is delivered between two decisions, they are not about the same
\* review - unless two artifacts of the attempt are tied.
THEOREM BasisDecidedOnce == Spec => []OneDecisionPerBasis
<1>1. Init => DecidedItem
    BY DEF Init, DecidedItem, OrderedItem
<1>2. DecidedItem /\ [Next]_vars => DecidedItem'
    BY DecidedStep
<1>3. DecidedItem => OneDecisionPerBasis
    BY DEF DecidedItem, Decisions, Bases, Shown, Tied, OneDecisionPerBasis
<1> QED BY <1>1, <1>2, <1>3, PTL DEF Spec
=============================================================================
