---------------------------- MODULE GitHubDelivery ----------------------------
(***************************************************************************)
(* Reconciling the delivery of a work item with its GitHub pull request:   *)
(* src/application/github-delivery-reconciliation.ts, started by           *)
(* src/github-reconciliation-runtime.ts.                                   *)
(*                                                                         *)
(* The delivery index of the repository names, for a work item, the pull    *)
(* request and what counts as evidence of each criterion.  A preview reads  *)
(* the pull request, the checks and reviews of its head, and the pull       *)
(* request again; what the workflow does not yet say becomes a plan of      *)
(* module SnapshotImport.  An apply makes the preview anew and goes on only *)
(* when it is the plan that was reviewed, or answers with the receipt when  *)
(* that plan was applied before.                                            *)
(*                                                                         *)
(* The versions of a pull request are [at, head, artifact, mapped], of a    *)
(* check [at, head, status, outcome], of a review [head, submitted, state].  *)
(* Abstracted: urls, names of repositories and branches (mapped says they   *)
(* are the ones of the index), pages of an answer.                          *)
(***************************************************************************)
EXTENDS SnapshotImport

LOCAL INSTANCE FiniteSets
LOCAL INSTANCE TLC

CONSTANTS
    Index,     \* entries [item, issue, scope, pull, evidence: Criterion -> source]
    SourceOf,  \* [Object -> source]: the selector a check or review matches
    RunEvents  \* what the run of the work item reports meanwhile

VARIABLE session   \* the reconciliation at work, or None

deliveryVars == <<importVars, session>>

\* What GitHub answers about an object now.
Now(o) == [object |-> o, k |-> version[o]] @@ Versions[o][version[o]]

\* parseEvidenceBinding and parseEntry: no selector names two criteria.
IsSource(source) == source.kind \in {"check_run", "pull_request_review"}
IsEntry(b) ==
    /\ b.item \in ItemId
    /\ DOMAIN b.evidence # {}
    /\ \A c \in DOMAIN b.evidence : IsSource(b.evidence[c])
    /\ \A c, d \in DOMAIN b.evidence : b.evidence[c] = b.evidence[d] => c = d

\* parseGitHubDeliveryIndexUnsafe: item, issue and pull request name the entry.
IsIndex(index) ==
    /\ \A b \in index : IsEntry(b)
    /\ \A b, c \in index : b.item = c.item \/ b.issue = c.issue \/ b.pull = c.pull => b = c

ASSUME IndexAssumption == IsIndex(Index)

-----------------------------------------------------------------------------
(* Before anything is read.                                                *)

\* validateLocalBinding: one item owns the issue, and has no other of Linear's,
\* the criteria are the required ones, and there is an attempt to credit.
HasLocalBinding(w, b) ==
    /\ b.item \in Known(w)
    /\ Owners(w, b.issue) = {b.item}
    /\ LET linear == {l \in w.items[b.item].links :
                        ~l.legacy /\ ProviderOf[l.scope] = "linear"}
       IN  Cardinality(linear) = 1 /\ \A l \in linear : l.object = b.issue
    /\ w.items[b.item].required = DOMAIN b.evidence
    /\ HasActive(w.items[b.item].delivery)
    /\ ActiveAttempt(w.items[b.item].delivery).status \in {"running", "completed"}

\* createGitHubDeliveryImportPolicy: the runtime brings a policy of its own.
DeliveryPolicy(b) ==
    [s \in Scope |-> IF s = b.scope
                     THEN [types |-> ObjectType \ {"issue"}, capability |-> "apply"] ELSE None]

DeliveryMapping(b, attempt, pull) ==
    [item |-> b.item, scope |-> b.scope, managed |-> FALSE, attempt |-> attempt,
     revision |-> pull.head, artifact |-> pull.artifact, binding |-> b]

-----------------------------------------------------------------------------
(* Facts.                                                                  *)

\* normalizeGitHubPullRequestFact
PullFact(pull) ==
    [rev |-> pull.at, under |-> None, evidence |-> EvidenceOf(pull.object, 0)] @@ pull

\* normalizeGitHubCheckFact: its revision names the pull request's.
CheckFact(check, pull, criterion) ==
    [object |-> check.object, k |-> check.k, at |-> check.at, head |-> check.head,
     rev |-> <<check.at, pull.at>>, artifact |-> pull.artifact, criterion |-> criterion,
     outcome |-> check.outcome, evidence |-> EvidenceOf(check.object, 0),
     under |-> [object |-> pull.object, revision |-> <<pull.at, pull.head>>]]

\* normalizeGitHubPullRequestReviewFact: recorded at the pull request's time.
ReviewFact(review, pull, criterion) ==
    [object |-> review.object, k |-> review.k, at |-> pull.at, head |-> review.head,
     rev |-> <<pull.at, Position(review.state, ReviewStates)>>, artifact |-> pull.artifact, criterion |-> criterion,
     outcome |-> IF review.state = "approved" THEN "passed" ELSE "failed",
     evidence |-> EvidenceOf(review.object, Position(review.state, ReviewStates)),
     under |-> [object |-> pull.object, revision |-> <<pull.at, pull.head>>]]

\* readGitHubHeadChecks: the latest checks of a head that a selector names
ChecksOf(source, head) ==
    {Now(o) : o \in {x \in Object :
        TypeOf[x] = "check" /\ SourceOf[x] = source /\ Versions[x][version[x]].head = head}}

\* readGitHubPullRequestReviews: those that were submitted
ReviewsOf(pull) ==
    {r \in {Now(o) : o \in {x \in Object : TypeOf[x] = "pull_request_review"}} :
        r.state # "pending"}

\* An unfinished check is no evidence.
Completed(checks) == {c \in checks : c.status = "completed"}

\* selectReview: the newest decisive review of a reviewer about the head
SelectedReview(reviews, source, head) ==
    LET decisive == {r \in reviews : /\ SourceOf[r.object] = source /\ r.head = head
                                     /\ r.state # "commented"}
        later(r, s) == \/ r.submitted > s.submitted
                       \/ r.submitted = s.submitted /\ r.object > s.object
    IN  {r \in decisive : \A s \in decisive \ {r} : later(r, s)}

\* collectEvidence
EvidenceFacts(b, pull, checks, reviews) ==
    UNION {IF b.evidence[c].kind = "check_run"
           THEN {CheckFact(x, pull, c) : x \in Completed(checks[c])}
           ELSE {ReviewFact(x, pull, c) : x \in SelectedReview(reviews, b.evidence[c], pull.head)} :
           c \in DOMAIN b.evidence}

\* One object is evidence of one criterion.
Unambiguous(facts) == \A f, g \in facts : f.object = g.object => f = g

\* filterRepresentedFacts
ArtifactRepresented(d, attempt, pull) ==
    /\ d.activeArtifact # None
    /\ d.activeArtifact.artifactId = pull.artifact
    /\ d.activeArtifact.revision = pull.head
    /\ \E a \in d.artifacts : /\ a.id = pull.artifact /\ a.attemptId = attempt
                              /\ a.revision = pull.head

EvidenceRepresented(d, attempt, f) ==
    \E e \in d.evidence :
        /\ e.id = f.evidence /\ e.attemptId = attempt /\ e.artifactId = f.artifact
        /\ e.revision = f.head /\ e.criterionKey = f.criterion /\ e.outcome = f.outcome

PendingFacts(d, attempt, pull, facts) ==
    (IF ArtifactRepresented(d, attempt, pull) THEN {} ELSE {PullFact(pull)})
    \cup {f \in facts : ~EvidenceRepresented(d, attempt, f)}

DeliverySnapshot(b, attempt, pull, facts) ==
    [mapping |-> DeliveryMapping(b, attempt, pull),
     facts |-> [o \in {f.object : f \in facts} |-> CHOOSE f \in facts : f.object = o]]

-----------------------------------------------------------------------------
(* Replaying an applied plan.                                              *)

\* evidenceMatchesSource
IsEvidenceFrom(e, o) == e.id \div 10 = o

\* findReceiptRetry: what was applied is still what the work item stands on.
StillStands(w, b, p) ==
    LET d == w.items[b.item].delivery
        artifacts == {a \in d.artifacts :
                        /\ d.activeArtifact # None
                        /\ a.id = d.activeArtifact.artifactId
                        /\ a.revision = d.activeArtifact.revision
                        /\ a.attemptId = d.activeAttemptId}
        first(a) == \A x \in artifacts : a.linkedAt <= x.linkedAt
    IN  /\ artifacts # {}
        /\ p.snapshot.mapping = DeliveryMapping(b, d.activeAttemptId,
               [head |-> d.activeArtifact.revision, artifact |-> d.activeArtifact.artifactId])
        /\ \A f \in Elements(p.events) :
            IF f.type = "artifact.linked" THEN \E a \in artifacts : first(a) /\ a.linkedAt = f.at
            ELSE \E e \in d.evidence :
                    /\ IsEvidenceFrom(e, f.id[3]) /\ e.attemptId = d.activeAttemptId
                    /\ e.artifactId = d.activeArtifact.artifactId
                    /\ e.revision = d.activeArtifact.revision
                    /\ e.criterionKey \in DOMAIN b.evidence

-----------------------------------------------------------------------------
(* The reconciliation.                                                     *)

UnchangedImports == UNCHANGED importVars

\* preview, or apply of a reviewed plan that has no receipt
BeginReconcile(b, expected) ==
    /\ session = None /\ applying = None
    /\ expected \notin receipts
    /\ HasLocalBinding(workflow, b)
    /\ session' = [entry |-> b, expected |-> expected, stage |-> "pull", w |-> workflow,
                   attempt |-> workflow.items[b.item].delivery.activeAttemptId,
                   pull |-> None, checks |-> None, reviews |-> None]
    /\ UnchangedImports

\* What an apply answers for a plan that was applied: nothing is read from GitHub.
Replay(w, b, p) ==
    IF ~HasLocalBinding(w, b) THEN "refused"
    ELSE IF StillStands(w, b, p) THEN "idempotent" ELSE "stale"

\* assertMappedPullRequest: the head repository and branch of the entry
IsMapped(pull) == pull.mapped

\* assertArtifactOwnership: no other item has linked the pull request.
OwnsArtifact(w, b, pull) ==
    \A i \in Known(w) \ {b.item} : \A a \in w.items[i].delivery.artifacts : a.id # pull.artifact

ReplayReceipt(b, p) ==
    /\ session = None /\ applying = None
    /\ Replay(workflow, b, p) # "refused"
    /\ UNCHANGED deliveryVars

\* The pull request of the entry.
ReadPullRequest ==
    /\ session # None
    /\ session.stage = "pull"
    /\ LET pull == Now(session.entry.pull) IN
       /\ IsMapped(pull)
       /\ OwnsArtifact(session.w, session.entry, pull)
       /\ session' = [session EXCEPT !.stage = "collect", !.pull = pull]
    /\ UnchangedImports

\* The checks of the head and the reviews are read side by side.
ReadChecks ==
    /\ session # None
    /\ session.stage = "collect"
    /\ session.checks = None
    /\ LET criteria == {c \in DOMAIN session.entry.evidence :
                            session.entry.evidence[c].kind = "check_run"}
           checks == [c \in criteria |-> ChecksOf(session.entry.evidence[c], session.pull.head)]
       IN  /\ \A c \in criteria : Cardinality(checks[c]) <= 1
           /\ session' = [session EXCEPT !.checks = checks]
    /\ UnchangedImports

ReadReviews ==
    /\ session # None
    /\ session.stage = "collect"
    /\ session.reviews = None
    /\ session' = [session EXCEPT !.reviews = ReviewsOf(session.pull)]
    /\ UnchangedImports

\* samePullRequestFence: identity, time, head and branch
SamePull(p, q) == p.object = q.object /\ p.at = q.at /\ p.head = q.head /\ p.mapped = q.mapped

\* The facts the session has collected, and those the workflow lacks.
Collected == EvidenceFacts(session.entry, session.pull, session.checks, session.reviews)
Pending ==
    PendingFacts(session.w.items[session.entry.item].delivery, session.attempt, session.pull,
                 Collected)

DeliveryPlan ==
    LET s == DeliverySnapshot(session.entry, session.attempt, session.pull, Pending)
    IN  PlanOf(s, session.w, PolicyBinding(DeliveryPolicy(session.entry), session.entry.scope,
                                           TypesOf(s)))

HasNothingToAdd(p) == p.events = <<>> /\ p.conflicts = {}

\* The pull request is read again; the facts are compared with the workflow.
Conclude ==
    /\ session # None
    /\ session.stage = "collect"
    /\ session.checks # None /\ session.reviews # None
    /\ SamePull(session.pull, Now(session.entry.pull))
    /\ Unambiguous(Collected)
    /\ \/ /\ \/ Pending = {}
             \/ Pending # {} /\ HasNothingToAdd(DeliveryPlan)
          /\ session' = None
          /\ UNCHANGED plans
       \/ /\ Pending # {}
          /\ ~HasNothingToAdd(DeliveryPlan)
          /\ IF session.expected = None
             THEN /\ Cardinality(plans) < MaxPlans /\ Cardinality(receipts) < MaxReceipts
                  /\ plans' = plans \cup {DeliveryPlan}
                  /\ session' = None
             ELSE /\ session.expected = DeliveryPlan
                  /\ session' = [session EXCEPT !.stage = "apply"]
                  /\ UNCHANGED plans
    /\ UNCHANGED <<workflow, version, policy, receipts, applying>>

\* applySnapshotImport of the plan made anew
ApplyReviewed ==
    /\ session # None
    /\ session.stage = "apply"
    /\ BeginApply(session.expected)
    /\ session' = None

\* A read fails, the fence does not hold or the plan is another one.
GiveUp ==
    /\ session # None
    /\ session' = None
    /\ UnchangedImports

Reconcile ==
    \/ \E b \in Index, p \in plans \cup {None} : BeginReconcile(b, p)
    \/ \E b \in Index, p \in receipts : ReplayReceipt(b, p)
    \/ ReadPullRequest \/ ReadChecks \/ ReadReviews \/ Conclude \/ ApplyReviewed \/ GiveUp

Delivering == UNION {{b.pull} \cup {o \in Object : \E c \in DOMAIN b.evidence :
                                       SourceOf[o] = b.evidence[c]} : b \in Index}

\* GitHub and the service go on meanwhile.
Meanwhile ==
    /\ \/ \E o \in Delivering : Edit(o)
       \/ Verify \/ Abandon \/ Commit
       \/ \E p \in plans : Discard(p)
       \/ \E e \in RunEvents : AppendEvent(e)
    /\ UNCHANGED session

DeliveryInit(w) ==
    /\ workflow = w
    /\ version = [o \in Object |-> 1]
    /\ \E b \in Index : policy = DeliveryPolicy(b)
    /\ plans = {} /\ receipts = {}
    /\ applying = None
    /\ session = None

DeliveryNext == Reconcile \/ Meanwhile

-----------------------------------------------------------------------------
\* Everything is read and nothing is missing: the answer is "up to date".
IsUpToDate ==
    /\ session # None
    /\ session.stage = "collect"
    /\ session.checks # None /\ session.reviews # None
    /\ Unambiguous(Collected)
    /\ Pending = {}

\* docs/specs/0020:97: a reconciliation answers "up to date" when what GitHub says
\* is already in the workflow: every criterion there has the outcome it has on GitHub.
UpToDateIsRepresented ==
    IsUpToDate =>
        \A f \in Collected :
            LatestOutcome(session.w.items[session.entry.item].delivery, f.criterion) = f.outcome
=============================================================================
