------------------------------ MODULE Workflow ------------------------------
(***************************************************************************)
(* The delivery rules of one work item: src/domain/workflow.ts.            *)
(*                                                                         *)
(* A work item is a record; every canonical event is a pair of operators,  *)
(* CanX (the checks the handler makes before it returns) and X (the item   *)
(* it returns).  An event whose check fails throws a DomainError and       *)
(* leaves the item alone.  Events carry the provider's timestamp, so they  *)
(* may be applied in any order of those timestamps.                        *)
(*                                                                         *)
(* Abstracted: titles, urls, actors, reasons, agent ids and artifact kinds *)
(* (payload the rules never compare); sha256 of a projection is the        *)
(* projection itself; arrays whose order no rule reads are sets.           *)
(***************************************************************************)
EXTENDS Integers, Sequences

CONSTANTS
    AttemptId,         \* ids of attempts
    ArtifactId,        \* ids of artifacts (a pull request)
    Revision,          \* artifact revisions (commit ids)
    Criterion,         \* evidence criteria a provider may report on
    RequiredEvidence,  \* the criteria acceptance depends on
    EvidenceId,        \* evidence ids, in localeCompare order
    DecisionId,        \* ids of v2 acceptance decisions
    Time,              \* provider timestamps
    None               \* JavaScript's null and undefined

ASSUME TimeAssumption == Time \subseteq Nat /\ EvidenceId \subseteq Nat
ASSUME RequiredAssumption == RequiredEvidence \subseteq Criterion /\ RequiredEvidence # {}

ItemStatus == {"planned", "running", "reviewing", "blocked", "accepted"}
Outcome == {"completed", "failed", "interrupted"}
AttemptStatus == {"absent", "running", "superseded"} \cup Outcome
Verdict == {"passed", "failed"}

ASSUME NoneAssumption ==
    /\ None \notin AttemptId
    /\ None \notin Time
    /\ None \notin Outcome \cup Verdict

Attempt == [status: AttemptStatus, runtimeOutcome: Outcome \cup {None},
            startedAt: Time \cup {None}, completedAt: Time \cup {None}]
Artifact == [id: ArtifactId, attemptId: AttemptId, revision: Revision, linkedAt: Time]
ActiveArtifact == [artifactId: ArtifactId, revision: Revision, linkedAt: Time]
Evidence == [id: EvidenceId, attemptId: AttemptId, artifactId: ArtifactId,
             revision: Revision, criterionKey: Criterion, outcome: Verdict,
             recordedAt: Time]

\* computeAcceptanceReviewRevision: the facts a reviewer is shown and signs.
\* A signed revision never holds an earlier decision.
ReviewRevisions(decisions) ==
    [status: ItemStatus, acceptanceDecision: decisions,
     activeAttemptId: AttemptId \cup {None}, activeAttempt: Attempt \cup {None},
     activeArtifact: ActiveArtifact \cup {None},
     criteria: [RequiredEvidence -> Evidence \cup {None}]]
Basis == [decisionId: DecisionId, reviewRevision: ReviewRevisions({None}),
          attemptId: AttemptId, artifactId: ArtifactId \cup {None},
          artifactRevision: Revision \cup {None}]
Decision == [decision: {"accepted", "rejected"}, decidedAt: Time, basis: Basis \cup {None}]

WorkItem == [status: ItemStatus, activeAttemptId: AttemptId \cup {None},
             activeArtifact: ActiveArtifact \cup {None},
             attempts: [AttemptId -> Attempt], artifacts: SUBSET Artifact,
             evidence: SUBSET Evidence, acceptanceDecision: Decision \cup {None},
             acceptanceHistory: Seq(Decision)]

ASSUME NullAssumption ==
    None \notin Decision /\ None \notin ActiveArtifact /\ None \notin Evidence

NewAttempt(status, startedAt, completedAt) ==
    [status |-> status, runtimeOutcome |-> None,
     startedAt |-> startedAt, completedAt |-> completedAt]

NoAttempt == NewAttempt("absent", None, None)

\* work_item.created
CreatedItem ==
    [status |-> "planned", activeAttemptId |-> None, activeArtifact |-> None,
     attempts |-> [a \in AttemptId |-> NoAttempt], artifacts |-> {},
     evidence |-> {}, acceptanceDecision |-> None, acceptanceHistory |-> <<>>]

HasActive(w) == w.activeAttemptId # None
ActiveAttempt(w) == w.attempts[w.activeAttemptId]

-----------------------------------------------------------------------------
(* attempt.started                                                         *)

\* Mutant: an accepted item may be run again.
CanStartAgain(w, a, t) ==
    /\ w.attempts[a].status = "absent"
    /\ HasActive(w) => ActiveAttempt(w).startedAt # t

CanStart(w, a, t) ==
    /\ w.status # "accepted"
    /\ w.attempts[a].status = "absent"
    /\ HasActive(w) => ActiveAttempt(w).startedAt # t

\* An attempt that began before the active one is recorded as already superseded.
StartedLate(w, a, t) ==
    [w EXCEPT !.attempts = [@ EXCEPT
        ![a] = NewAttempt("superseded", t, ActiveAttempt(w).startedAt)]]

StartedNow(w, a, t) ==
    [w EXCEPT
        !.status = "running",
        !.activeAttemptId = a,
        !.activeArtifact = None,
        !.acceptanceDecision = None,
        !.attempts = [b \in AttemptId |->
            IF b = a
            THEN NewAttempt("running", t, None)
            ELSE IF b = w.activeAttemptId /\ w.attempts[b].status = "running"
            THEN [w.attempts[b] EXCEPT !.status = "superseded", !.completedAt = t]
            ELSE w.attempts[b]]]

\* Mutant: a start is taken for the newest whenever it arrives.
StartedInArrivalOrder(w, a, t) == StartedNow(w, a, t)

Started(w, a, t) ==
    IF HasActive(w) /\ t < ActiveAttempt(w).startedAt
    THEN StartedLate(w, a, t)
    ELSE StartedNow(w, a, t)

-----------------------------------------------------------------------------
(* attempt.finished                                                        *)

CanFinish(w, a) ==
    /\ w.attempts[a].status # "absent"
    /\ w.attempts[a].runtimeOutcome = None

\* A superseded attempt keeps its status: only its runtime outcome is recorded.
ChangesActiveState(w, a) ==
    w.activeAttemptId = a /\ w.attempts[a].status = "running"

EndedAttempt(w, a, outcome, t) ==
    [status |-> IF ChangesActiveState(w, a) THEN outcome ELSE w.attempts[a].status,
     runtimeOutcome |-> outcome,
     startedAt |-> w.attempts[a].startedAt,
     completedAt |-> IF w.attempts[a].completedAt = None THEN t
                     ELSE w.attempts[a].completedAt]

Finished(w, a, outcome, t) ==
    LET attempts == [w.attempts EXCEPT ![a] = EndedAttempt(w, a, outcome, t)]
    IN  IF ~ChangesActiveState(w, a)
        THEN [w EXCEPT !.attempts = attempts]
        ELSE [w EXCEPT !.attempts = attempts,
                       !.status = IF outcome = "completed" THEN "reviewing" ELSE "blocked",
                       !.acceptanceDecision = None]

-----------------------------------------------------------------------------
(* Mutant: a decision survives every later fact.                           *)
PreservesAlways(w, t) == w.acceptanceDecision # None

(* The decision survives a fact that is no newer than it is, and any fact   *)
(* about an attempt that did not succeed.                                   *)
PreservesDecision(w, t) ==
    /\ w.acceptanceDecision # None
    /\ \/ ActiveAttempt(w).status \in {"failed", "interrupted"}
       \/ t <= w.acceptanceDecision.decidedAt

-----------------------------------------------------------------------------
(* artifact.linked                                                         *)

SameRevision(w, id, rev) ==
    /\ w.activeArtifact # None
    /\ w.activeArtifact.artifactId = id
    /\ w.activeArtifact.revision = rev

StaleArtifact(w, t) ==
    w.activeArtifact # None /\ t < w.activeArtifact.linkedAt

CanLinkArtifact(w, a, id, rev, t) ==
    /\ a = w.activeAttemptId
    /\ ~ /\ w.activeArtifact # None
         /\ ~SameRevision(w, id, rev)
         /\ t = w.activeArtifact.linkedAt
         /\ rev # w.activeArtifact.revision

StatusOfAttempt(w) ==
    CASE ActiveAttempt(w).status = "running"   -> "running"
      [] ActiveAttempt(w).status = "completed" -> "reviewing"
      [] ActiveAttempt(w).status \in {"failed", "interrupted"} -> "blocked"
      [] OTHER -> w.status

\* Linking the active revision again refreshes its kind and url only.
ArtifactLinked(w, a, id, rev, t) ==
    LET same     == SameRevision(w, id, rev)
        preserve == same \/ StaleArtifact(w, t)
        artifact == [id |-> id, attemptId |-> a, revision |-> rev, linkedAt |-> t]
    IN  [w EXCEPT
            !.status = IF preserve THEN @ ELSE StatusOfAttempt(w),
            !.activeArtifact =
                IF preserve THEN @
                ELSE [artifactId |-> id, revision |-> rev, linkedAt |-> t],
            !.artifacts = IF same THEN @ ELSE @ \cup {artifact},
            !.acceptanceDecision =
                IF preserve \/ PreservesDecision(w, t) THEN @ ELSE None]

-----------------------------------------------------------------------------
(* evidence.recorded                                                       *)

\* Evidence of criterion c about the active revision of the active attempt.
CurrentEvidence(w, c) ==
    {e \in w.evidence :
        /\ e.criterionKey = c
        /\ e.attemptId = w.activeAttemptId
        /\ w.activeArtifact # None
        /\ e.artifactId = w.activeArtifact.artifactId
        /\ e.revision = w.activeArtifact.revision}

NewerEvidence(e, f) ==
    \/ e.recordedAt > f.recordedAt
    \/ e.recordedAt = f.recordedAt /\ e.id > f.id

Newest(S) ==
    IF \E e \in S : \A f \in S : ~NewerEvidence(f, e)
    THEN CHOOSE e \in S : \A f \in S : ~NewerEvidence(f, e)
    ELSE None

LatestEvidence(w, c) == Newest(CurrentEvidence(w, c))

LatestOutcome(w, c) ==
    IF LatestEvidence(w, c) = None THEN None ELSE LatestEvidence(w, c).outcome

CanRecordEvidence(w, e) ==
    /\ e.attemptId = w.activeAttemptId
    /\ \E x \in w.artifacts : /\ x.id = e.artifactId
                              /\ x.attemptId = e.attemptId
                              /\ x.revision = e.revision
    /\ \A f \in w.evidence :
        (/\ f.attemptId = e.attemptId
         /\ f.artifactId = e.artifactId
         /\ f.revision = e.revision
         /\ f.criterionKey = e.criterionKey
         /\ f.recordedAt = e.recordedAt) => f.outcome = e.outcome

\* Mutant: a preserved decision also keeps the status.
EvidenceRecordedKeepingStatus(w, e) ==
    LET v == [w EXCEPT !.evidence = @ \cup {e}]
        failed == \E c \in RequiredEvidence : LatestOutcome(v, c) = "failed"
    IN  IF PreservesDecision(w, e.recordedAt) THEN v
        ELSE [v EXCEPT !.status = IF failed THEN "blocked" ELSE "reviewing",
                       !.acceptanceDecision = None]

EvidenceRecorded(w, e) ==
    LET v == [w EXCEPT !.evidence = @ \cup {e}]
        current == SameRevision(w, e.artifactId, e.revision)
        gate == /\ current
                /\ e.criterionKey \in RequiredEvidence
                /\ LatestOutcome(w, e.criterionKey) # LatestOutcome(v, e.criterionKey)
        failing == \/ ActiveAttempt(w).status \in {"failed", "interrupted"}
                   \/ \E c \in RequiredEvidence : LatestOutcome(v, c) = "failed"
    IN  IF ~gate THEN v
        ELSE [v EXCEPT
                !.status = IF failing THEN "blocked" ELSE "reviewing",
                !.acceptanceDecision =
                    IF PreservesDecision(w, e.recordedAt) THEN @ ELSE None]

-----------------------------------------------------------------------------
(* acceptance.decided                                                      *)

ReviewRevision(w) ==
    [status |-> w.status,
     acceptanceDecision |-> w.acceptanceDecision,
     activeAttemptId |-> w.activeAttemptId,
     activeAttempt |-> IF HasActive(w) THEN ActiveAttempt(w) ELSE None,
     activeArtifact |-> w.activeArtifact,
     criteria |-> [c \in RequiredEvidence |-> LatestEvidence(w, c)]]

\* latestAcceptanceFactTimestamp <= t
FactsNoLaterThan(w, t) ==
    /\ IF ActiveAttempt(w).completedAt = None
       THEN ActiveAttempt(w).startedAt <= t
       ELSE ActiveAttempt(w).completedAt <= t
    /\ w.activeArtifact # None => w.activeArtifact.linkedAt <= t
    /\ \A c \in RequiredEvidence :
        LatestEvidence(w, c) # None => LatestEvidence(w, c).recordedAt <= t

AllRequiredPassed(w) ==
    \A c \in RequiredEvidence : LatestOutcome(w, c) = "passed"

\* What both versions of the event require of an acceptance.
Acceptable(w) ==
    /\ w.activeArtifact # None
    /\ AllRequiredPassed(w)
    /\ HasActive(w)
    /\ ActiveAttempt(w).runtimeOutcome = "completed"

Decided(w, verdict, basis, t) ==
    LET decision == [decision |-> verdict, decidedAt |-> t, basis |-> basis]
    IN  [w EXCEPT
            !.status = IF verdict = "accepted" THEN "accepted" ELSE "blocked",
            !.acceptanceDecision = decision,
            !.acceptanceHistory = Append(@, decision)]

\* The legacy event: no basis, and nothing but Acceptable is checked.
CanDecideLegacy(w, verdict) == verdict = "accepted" => Acceptable(w)

DecidedLegacy(w, verdict, t) == Decided(w, verdict, None, t)

\* Mutant: the submitted review revision is recorded but not compared.
CanDecideStale(w, verdict, expectedReviewRevision, t) ==
    /\ w.acceptanceDecision = None
    /\ HasActive(w)
    /\ ActiveAttempt(w).runtimeOutcome # None
    /\ verdict = "rejected" => w.status \in {"reviewing", "blocked"}
    /\ FactsNoLaterThan(w, t)
    /\ verdict = "accepted" => Acceptable(w)

CanDecide(w, verdict, expectedReviewRevision, t) ==
    /\ w.acceptanceDecision = None
    /\ expectedReviewRevision = ReviewRevision(w)
    /\ HasActive(w)
    /\ ActiveAttempt(w).runtimeOutcome # None
    /\ verdict = "rejected" => w.status \in {"reviewing", "blocked"}
    /\ FactsNoLaterThan(w, t)
    /\ verdict = "accepted" => Acceptable(w)

BasisOf(w, decisionId, expectedReviewRevision) ==
    [decisionId |-> decisionId,
     reviewRevision |-> expectedReviewRevision,
     attemptId |-> w.activeAttemptId,
     artifactId |-> IF w.activeArtifact = None THEN None ELSE w.activeArtifact.artifactId,
     artifactRevision |-> IF w.activeArtifact = None THEN None ELSE w.activeArtifact.revision]

DecidedV2(w, verdict, decisionId, expectedReviewRevision, t) ==
    Decided(w, verdict, BasisOf(w, decisionId, expectedReviewRevision), t)
=============================================================================
