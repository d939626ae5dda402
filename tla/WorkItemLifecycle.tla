-------------------------- MODULE WorkItemLifecycle --------------------------
(***************************************************************************)
(* One work item under every order of delivery: the runner, providers that *)
(* report late and out of order, and reviewers who decide on a page they    *)
(* opened some time ago.  The steps are the events TaskSealService hands    *)
(* to applyEvent one at a time; an exact duplicate of an applied event is   *)
(* skipped there and is a stuttering step here.                             *)
(***************************************************************************)
EXTENDS Workflow, FiniteSets

CONSTANTS
    Reviewer,       \* people with a review page open
    MaxArtifacts,   \* bound on the artifacts linked to the item
    MaxEvidence,    \* bound on the evidence recorded for the item
    MaxDecisions    \* bound on the decisions taken on the item

VARIABLES
    item,   \* workItems[id]; None before work_item.created
    page    \* what each reviewer was shown: a review revision, or None

vars == <<item, page>>

Init == item = None /\ page = [r \in Reviewer |-> None]

Create == item = None /\ item' = CreatedItem /\ UNCHANGED page

StartAttempt(a, t) ==
    /\ item # None
    /\ CanStart(item, a, t)
    /\ item' = Started(item, a, t)
    /\ UNCHANGED page

FinishAttempt(a, outcome, t) ==
    /\ item # None
    /\ CanFinish(item, a)
    /\ item' = Finished(item, a, outcome, t)
    /\ UNCHANGED page

LinkArtifact(a, id, rev, t) ==
    /\ item # None
    /\ CanLinkArtifact(item, a, id, rev, t)
    /\ item' = ArtifactLinked(item, a, id, rev, t)
    /\ Cardinality(item'.artifacts) <= MaxArtifacts
    /\ UNCHANGED page

RecordEvidence(e) ==
    /\ item # None
    /\ CanRecordEvidence(item, e)
    /\ Cardinality(item.evidence) < MaxEvidence
    /\ item' = EvidenceRecorded(item, e)
    /\ UNCHANGED page

\* A reviewer is shown an item that can be decided; the page keeps the revision
\* it was given, whatever happens before it is submitted.
OpenReview(r) ==
    /\ item # None
    /\ item.acceptanceDecision = None
    /\ item.status \in {"reviewing", "blocked"}
    /\ HasActive(item) /\ ActiveAttempt(item).runtimeOutcome # None
    /\ page' = [page EXCEPT ![r] = ReviewRevision(item)]
    /\ UNCHANGED item

\* A decision id that is already in the history is answered from it.
DecisionIsNew(w, d) ==
    \A i \in DOMAIN w.acceptanceHistory :
        w.acceptanceHistory[i].basis # None => w.acceptanceHistory[i].basis.decisionId # d

DecideAcceptance(r, verdict, d, t) ==
    /\ item # None
    /\ page[r] # None
    /\ Len(item.acceptanceHistory) < MaxDecisions
    /\ DecisionIsNew(item, d)
    /\ CanDecide(item, verdict, page[r], t)
    /\ item' = DecidedV2(item, verdict, d, page[r], t)
    /\ UNCHANGED page

\* The acceptance.decided event without a basis that earlier versions wrote: in
\* a journal it comes before every decision of this version.
DecideLegacy(verdict, t) ==
    /\ item # None
    /\ Len(item.acceptanceHistory) < MaxDecisions
    /\ \A i \in DOMAIN item.acceptanceHistory : item.acceptanceHistory[i].basis = None
    /\ CanDecideLegacy(item, verdict)
    /\ item' = DecidedLegacy(item, verdict, t)
    /\ UNCHANGED page

Next ==
    \/ Create
    \/ \E a \in AttemptId, t \in Time : StartAttempt(a, t)
    \/ \E a \in AttemptId, o \in Outcome, t \in Time : FinishAttempt(a, o, t)
    \/ \E a \in AttemptId, id \in ArtifactId, rev \in Revision, t \in Time :
            LinkArtifact(a, id, rev, t)
    \/ \E e \in Evidence : RecordEvidence(e)
    \/ \E r \in Reviewer : OpenReview(r)
    \/ \E r \in Reviewer, v \in {"accepted", "rejected"}, d \in DecisionId, t \in Time :
            DecideAcceptance(r, v, d, t)
    \/ \E v \in {"accepted", "rejected"}, t \in Time : DecideLegacy(v, t)

Spec == Init /\ [][Next]_vars

-----------------------------------------------------------------------------
(* Properties.                                                             *)

\* The item and every page hold the values workflow.ts can give them.
TypeOK ==
    /\ item \in WorkItem \cup {None}
    /\ page \in [Reviewer -> ReviewRevisions({None}) \cup {None}]

\* An accepted item is one whose active attempt completed, whose active artifact
\* is known and whose every required criterion has last been reported passed on
\* exactly that artifact revision - however facts arrive before or after the
\* decision (decideAcceptance, and every handler that keeps the status).
AcceptedIsBacked ==
    (item # None /\ item.status = "accepted") =>
        /\ item.acceptanceDecision # None
        /\ item.acceptanceDecision.decision = "accepted"
        /\ Acceptable(item)

\* In whatever order facts are delivered, the active attempt is the one that
\* began last and no other is running; no artifact linked to it is newer than
\* the active one; and evidence is only held about artifacts that were linked.
ActiveFactsAreNewest ==
    item # None =>
        /\ \A a \in AttemptId :
            item.attempts[a].status # "absent" =>
                /\ HasActive(item)
                /\ a # item.activeAttemptId =>
                    /\ item.attempts[a].startedAt < ActiveAttempt(item).startedAt
                    /\ item.attempts[a].status # "running"
        /\ \A x \in item.artifacts :
            x.attemptId = item.activeAttemptId =>
                item.activeArtifact # None /\ x.linkedAt <= item.activeArtifact.linkedAt
        /\ \A e \in item.evidence : \E x \in item.artifacts :
                x.id = e.artifactId /\ x.attemptId = e.attemptId /\ x.revision = e.revision

\* A v2 decision in force is about the active attempt and, unless that attempt
\* did not succeed, is no older than the active artifact (PreservesDecision);
\* and what an acceptance was signed for is what the accepted item still shows.
DecisionIsCurrent ==
    (item # None /\ item.acceptanceDecision # None /\ item.acceptanceDecision.basis # None) =>
        LET basis == item.acceptanceDecision.basis
        IN  /\ basis.attemptId = item.activeAttemptId
            /\ (ActiveAttempt(item).status = "completed" /\ item.activeArtifact # None) =>
                    item.activeArtifact.linkedAt <= item.acceptanceDecision.decidedAt
            /\ item.status = "accepted" =>
                /\ basis.artifactId = item.activeArtifact.artifactId
                /\ basis.artifactRevision = item.activeArtifact.revision

\* A later fact that cancels a decision moves the review past its basis, so a
\* basis is decided once - unless two artifacts of one attempt have the same
\* revision and the same provider timestamp, between which the item can move
\* back and forth (linkArtifact refuses a tie of different revisions only).
OneDecisionPerBasis ==
    item # None =>
        \A i, j \in DOMAIN item.acceptanceHistory :
            LET p == item.acceptanceHistory[i].basis
                q == item.acceptanceHistory[j].basis
            IN  (i # j /\ p # None /\ q # None /\ p.reviewRevision = q.reviewRevision) =>
                    \E x, y \in item.artifacts :
                        /\ x.attemptId = p.attemptId /\ y.attemptId = p.attemptId
                        /\ x.id # y.id
                        /\ x.revision = y.revision /\ x.linkedAt = y.linkedAt

\* What a step that takes an item out of "accepted" must have done.
RevokedByFacts ==
    (item # None /\ item.status = "accepted" /\ item'.status # "accepted") =>
        /\ item'.attempts = item.attempts
        /\ \/ item'.activeArtifact # item.activeArtifact
           \/ \E c \in RequiredEvidence : LatestOutcome(item', c) # LatestOutcome(item, c)
           \/ /\ item'.acceptanceHistory # item.acceptanceHistory
              /\ item'.acceptanceDecision.decision = "rejected"

\* An item leaves "accepted" only by another active artifact, by evidence that
\* changes the latest outcome of a required criterion, or by an explicit
\* rejection: never because an attempt started or finished late.
AcceptanceRevokedOnlyByFacts == [][RevokedByFacts]_vars
=============================================================================
