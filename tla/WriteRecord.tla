----------------------------- MODULE WriteRecord -----------------------------
(***************************************************************************)
(* The record of a controlled write in full, as it is kept in the journal: *)
(* src/application/controlled-write-operation.ts.  ProviderOperation keeps *)
(* of it what decides the next step; here are its times, its approval, its *)
(* submission and its reconciliation, what a record must look like to be   *)
(* read again, and which record the journal accepts after which.           *)
(*                                                                         *)
(* A digest is the value it is taken of; identifiers, texts and targets    *)
(* are model values, all well formed.  Schema 1 knows the target's team,   *)
(* schema 2 a whole placement and the draft the issue comes from.          *)
(***************************************************************************)
EXTENDS Naturals, Sequences

LOCAL INSTANCE TLC

CONSTANTS
    Request,      \* client request ids
    Target,       \* where the issue goes, and where it may be seen
    Source,       \* ticket drafts
    Payload,
    MaxTime,      \* bound: the clock
    MaxAttempts,  \* bound: reconciliations of an operation
    None

VARIABLE op  \* the operation, or None

Time == 0..MaxTime

-----------------------------------------------------------------------------
(* The plan.                                                               *)

\* createPlanV1, createPlanV2; the operation key depends on the request alone.
CreatePlan(schema, target, request, source, payload) ==
    LET plan == [schema |-> schema, target |-> target, request |-> request,
                 source |-> source, payload |-> payload]
    IN  plan @@ [payloadDigest |-> payload, sourceDigest |-> source,
                 operationKey |-> <<request>>, planDigest |-> plan]

\* normalizePlan: the digests of a stored plan are taken again.
IsPlan(p) ==
    /\ p.schema = 1 => p.source = None
    /\ p = CreatePlan(p.schema, p.target, p.request, p.source, p.payload)

\* classifyControlledWritePlan
Classify(p, q) ==
    IF p.operationKey # q.operationKey THEN "different"
    ELSE IF p.planDigest = q.planDigest THEN "idempotent" ELSE "conflict"

-----------------------------------------------------------------------------
(* What a record looks like.                                               *)

NoSubmission == [attempt |-> 0, startedAt |-> None, completedAt |-> None, issue |-> None]

\* createControlledWriteOperation, createControlledWriteOperationV2
Create(plan, at) ==
    [schema |-> plan.schema, plan |-> plan, version |-> 1, status |-> "approval_required",
     approval |-> None, submission |-> NoSubmission, reconciliation |-> None,
     diagnostic |-> None, createdAt |-> at, updatedAt |-> at]

\* The times of a record never go back.
IsTimeline(o) ==
    LET happened == <<o.createdAt>>
            \o (IF o.approval = None THEN <<>> ELSE <<o.approval.decidedAt>>)
            \o <<o.submission.startedAt, o.submission.completedAt>>
            \o (IF o.reconciliation = None THEN <<>>
                ELSE <<o.reconciliation.startedAt, o.reconciliation.completedAt>>)
        times == SelectSeq(happened, LAMBDA t : t # None)
    IN  /\ \A k \in 1..(Len(times) - 1) : times[k] <= times[k + 1]
        /\ o.createdAt <= o.updatedAt

\* issuePlacementMatchesPlan
IsPlaced(issue, plan) == plan.schema = 2 => issue.placement = plan.target

IsDispatched(o) ==
    /\ o.approval # None /\ o.approval.decision = "approved"
    /\ o.submission.attempt = 1 /\ o.submission.startedAt # None

IsUnanswered(o) ==
    IsDispatched(o) /\ o.submission.completedAt # None /\ o.submission.issue = None

\* A reconciliation that began after the submission was answered, and its number
\* in the operation's versions.
IsReconciling(o, first) ==
    /\ IsUnanswered(o) /\ o.reconciliation # None
    /\ o.version = first + 2 * (o.reconciliation.attempt - 1)

ReconciliationCode(result) ==
    IF result = "failed" THEN "LINEAR_RECONCILIATION_FAILED" ELSE "LINEAR_RECONCILIATION_AMBIGUOUS"

Ended(o, result) ==
    /\ IsReconciling(o, 6)
    /\ o.reconciliation.result = result
    /\ o.reconciliation.completedAt # None /\ o.updatedAt = o.reconciliation.completedAt

IsDecided(o) ==
    /\ o.version = 2
    /\ o.approval # None /\ o.approval.decision = o.status
    /\ o.updatedAt = o.approval.decidedAt
    /\ o.submission = NoSubmission /\ o.reconciliation = None /\ o.diagnostic = None

IsSubmitting(o) ==
    /\ o.version = 3 /\ IsDispatched(o)
    /\ o.submission.completedAt = None /\ o.submission.issue = None
    /\ o.updatedAt = o.submission.startedAt
    /\ o.reconciliation = None /\ o.diagnostic = None

IsCreated(o) ==
    /\ o.version = 4 /\ IsDispatched(o)
    /\ o.submission.issue # None /\ o.submission.issue.id = o.plan.request
    /\ IsPlaced(o.submission.issue, o.plan)
    /\ o.submission.completedAt # None /\ o.updatedAt = o.submission.completedAt
    /\ o.reconciliation = None /\ o.diagnostic = None

\* The submission ended without an issue, and nothing was reconciled since.
IsUncreated(o, code) ==
    /\ o.version = 4 /\ IsUnanswered(o) /\ o.updatedAt = o.submission.completedAt
    /\ o.reconciliation = None /\ o.diagnostic = code

IsUnknown(o) ==
    \/ IsUncreated(o, "LINEAR_WRITE_OUTCOME_UNKNOWN")
    \/ \E result \in {"failed", "ambiguous"} :
        /\ Ended(o, result) /\ o.reconciliation.issue = None
        /\ o.diagnostic = ReconciliationCode(result)

\* The diagnostic of the step before stays.
IsUnderway(o) ==
    /\ IsReconciling(o, 5)
    /\ o.reconciliation.completedAt = None /\ o.reconciliation.result = None
    /\ o.reconciliation.issue = None
    /\ o.updatedAt = o.reconciliation.startedAt
    /\ o.diagnostic # "LINEAR_WRITE_NOT_DISPATCHED"
    /\ o.reconciliation.attempt = 1 => o.diagnostic = "LINEAR_WRITE_OUTCOME_UNKNOWN"

IsFound(o) ==
    /\ Ended(o, "found") /\ o.diagnostic = None
    /\ o.reconciliation.issue # None /\ o.reconciliation.issue.id = o.plan.request
    /\ IsPlaced(o.reconciliation.issue, o.plan)

IsAbsent(o) == Ended(o, "absent") /\ o.diagnostic = None /\ o.reconciliation.issue = None

\* What each status asks of the record.
HasStatus(o) ==
    CASE o.status = "approval_required"         -> o = Create(o.plan, o.createdAt)
      [] o.status \in {"approved", "rejected"} -> IsDecided(o)
      [] o.status = "submitting"                -> IsSubmitting(o)
      [] o.status = "created"                   -> IsCreated(o)
      [] o.status = "failed"                    -> IsUncreated(o, "LINEAR_WRITE_NOT_DISPATCHED")
      [] o.status = "outcome_unknown"           -> IsUnknown(o)
      [] o.status = "reconciling"               -> IsUnderway(o)
      [] o.status = "reconciled"                -> IsFound(o)
      [] o.status = "reconciliation_absent"     -> IsAbsent(o)

\* normalizeOperation
IsOperation(o) ==
    /\ IsPlan(o.plan) /\ o.schema = o.plan.schema
    /\ o.approval # None => /\ o.approval.operationKey = o.plan.operationKey
                            /\ o.approval.planDigest = o.plan.planDigest
    /\ IsTimeline(o)
    /\ HasStatus(o)

-----------------------------------------------------------------------------
(* The transitions.                                                        *)

\* normalizeObservedIssue: the issue is the one that was asked for, where it was
\* asked for; schema 1 does not keep where.
IsObserved(a, plan) == a.issue.id = plan.request /\ a.issue.placement = plan.target

KeptIssue(a, plan) == IF plan.schema = 1 THEN [a.issue EXCEPT !.placement = None] ELSE a.issue

Submitted(o, a, issue) ==
    [o.submission EXCEPT !.completedAt = a.at, !.issue = issue]

Reconciled(o, a, result, issue) ==
    [o.reconciliation EXCEPT !.completedAt = a.at, !.result = result, !.issue = issue]

Attempt(o) == IF o.reconciliation = None THEN 1 ELSE o.reconciliation.attempt + 1

\* requireTransition, and what an action must agree with
IsLegal(o, a) ==
    /\ a.at >= o.updatedAt
    /\ CASE a.type \in {"approved", "rejected"} ->
              /\ o.status = "approval_required"
              /\ a.operationKey = o.plan.operationKey /\ a.planDigest = o.plan.planDigest
         [] a.type = "begin_submission" -> o.status = "approved"
         [] a.type = "created" -> o.status = "submitting" /\ IsObserved(a, o.plan)
         [] a.type \in {"not_dispatched", "unknown"} -> o.status = "submitting"
         [] a.type = "begin_reconciliation" ->
              o.status \in {"outcome_unknown", "reconciliation_absent"}
         [] a.type = "found" -> o.status = "reconciling" /\ IsObserved(a, o.plan)
         [] a.type \in {"absent", "failed", "ambiguous"} -> o.status = "reconciling"
         [] OTHER -> FALSE

Moved(o, a, status) ==
    [o EXCEPT !.version = @ + 1, !.status = status, !.updatedAt = a.at]

Decide(o, a) ==
    [Moved(o, a, a.type) EXCEPT
        !.approval = [decision |-> a.type, operationKey |-> a.operationKey,
                      planDigest |-> a.planDigest, decidedAt |-> a.at]]

BeginSubmission(o, a) ==
    [Moved(o, a, "submitting") EXCEPT
        !.submission = [attempt |-> 1, startedAt |-> a.at, completedAt |-> None, issue |-> None]]

SubmissionCreated(o, a) ==
    [Moved(o, a, "created") EXCEPT !.submission = Submitted(o, a, KeptIssue(a, o.plan)),
                                   !.diagnostic = None]

\* Mutant: an answer that never came is recorded as a refusal.
SubmissionRefused(o, a) ==
    [Moved(o, a, "failed") EXCEPT !.submission = Submitted(o, a, None),
                                  !.diagnostic = "LINEAR_WRITE_NOT_DISPATCHED"]

SubmissionEnded(o, a) ==
    [Moved(o, a, IF a.type = "not_dispatched" THEN "failed" ELSE "outcome_unknown") EXCEPT
        !.submission = Submitted(o, a, None),
        !.diagnostic = IF a.type = "not_dispatched" THEN "LINEAR_WRITE_NOT_DISPATCHED"
                       ELSE "LINEAR_WRITE_OUTCOME_UNKNOWN"]

BeginReconciliation(o, a) ==
    [Moved(o, a, "reconciling") EXCEPT
        !.reconciliation = [attempt |-> Attempt(o), startedAt |-> a.at, completedAt |-> None,
                            result |-> None, issue |-> None]]

ReconciliationSaw(o, a) ==
    [Moved(o, a, IF a.type = "found" THEN "reconciled" ELSE "reconciliation_absent") EXCEPT
        !.reconciliation =
            Reconciled(o, a, a.type, IF a.type = "found" THEN KeptIssue(a, o.plan) ELSE None),
        !.diagnostic = None]

ReconciliationFailed(o, a) ==
    [Moved(o, a, "outcome_unknown") EXCEPT
        !.reconciliation = Reconciled(o, a, a.type, None),
        !.diagnostic = ReconciliationCode(a.type)]

Unfinalized(o, a) ==
    CASE a.type \in {"approved", "rejected"}      -> Decide(o, a)
      [] a.type = "begin_submission"              -> BeginSubmission(o, a)
      [] a.type = "created"                       -> SubmissionCreated(o, a)
      [] a.type \in {"not_dispatched", "unknown"} -> SubmissionEnded(o, a)
      [] a.type = "begin_reconciliation"          -> BeginReconciliation(o, a)
      [] a.type \in {"found", "absent"}           -> ReconciliationSaw(o, a)
      [] OTHER                                    -> ReconciliationFailed(o, a)

\* transitionControlledWriteOperation: the next record, or None when refused
Transition(o, a) ==
    IF IsLegal(o, a) /\ IsOperation(Unfinalized(o, a)) THEN Unfinalized(o, a) ELSE None

-----------------------------------------------------------------------------
(* What the journal accepts after a record.                                *)

\* deriveTransitionAction: the action that may have made next, or None
Derived(prev, next) ==
    LET Act(type) == [type |-> type, at |-> next.updatedAt]
        See(type, issue) == [type |-> type, at |-> next.updatedAt,
                             issue |-> [issue EXCEPT !.placement =
                                            IF next.schema = 1 THEN next.plan.target ELSE @]]
        result == IF next.reconciliation = None THEN None ELSE next.reconciliation.result
    IN  CASE prev.status = "approval_required" /\ next.status \in {"approved", "rejected"}
                /\ next.approval # None ->
              [type |-> next.status, at |-> next.updatedAt,
               operationKey |-> next.approval.operationKey,
               planDigest |-> next.approval.planDigest]
          [] prev.status = "approved" /\ next.status = "submitting" -> Act("begin_submission")
          [] prev.status = "submitting" /\ next.status = "created"
                /\ next.submission.issue # None -> See("created", next.submission.issue)
          [] prev.status = "submitting" /\ next.status = "failed" -> Act("not_dispatched")
          [] prev.status = "submitting" /\ next.status = "outcome_unknown"
                /\ next.reconciliation = None -> Act("unknown")
          [] prev.status \in {"outcome_unknown", "reconciliation_absent"}
                /\ next.status = "reconciling" -> Act("begin_reconciliation")
          [] prev.status = "reconciling" /\ next.status = "reconciled" /\ result = "found"
                /\ next.reconciliation.issue # None -> See("found", next.reconciliation.issue)
          [] prev.status = "reconciling" /\ next.status = "reconciliation_absent"
                /\ result = "absent" -> Act("absent")
          [] prev.status = "reconciling" /\ next.status = "outcome_unknown"
                /\ result \in {"failed", "ambiguous"} -> Act(result)
          [] OTHER -> None

\* Mutant: the record is not made again.
IsDerivable(prev, next) ==
    /\ IsOperation(next)
    /\ next.schema = prev.schema /\ next.version = prev.version + 1
    /\ Derived(prev, next) # None

\* validateControlledWriteOperationTransition
Validates(prev, next) ==
    /\ IsOperation(next)
    /\ next.schema = prev.schema /\ next.version = prev.version + 1
    /\ Derived(prev, next) # None
    /\ Transition(prev, Derived(prev, next)) = next

-----------------------------------------------------------------------------
Plans ==
    {CreatePlan(1, t, r, None, y) : t \in Target, r \in Request, y \in Payload}
        \cup {CreatePlan(2, t, r, s, y) : t \in Target, r \in Request, s \in Source, y \in Payload}

Issue == [id : Request, placement : Target]

\* What may be asked of the operation: an approval of any plan, any answer.
Actions(o) ==
    [type : {"approved", "rejected"}, at : Time, operationKey : {<<r>> : r \in Request},
     planDigest : {p.planDigest : p \in Plans}]
      \cup [type : {"created", "found"}, at : Time, issue : Issue]
      \cup [type : {"begin_submission", "not_dispatched", "unknown", "absent", "failed",
                    "ambiguous"}, at : Time]
      \cup (IF Attempt(o) <= MaxAttempts THEN [type : {"begin_reconciliation"}, at : Time] ELSE {})

Init == op = None

Prepare == op = None /\ \E plan \in Plans, at \in Time : op' = Create(plan, at)

Take == op # None /\ \E a \in Actions(op) : Transition(op, a) # None /\ op' = Transition(op, a)

Next == Prepare \/ Take

Spec == Init /\ [][Next]_op

-----------------------------------------------------------------------------
\* A record that was changed in one place.
Changed(o) ==
    LET Issues == {None} \cup [id : Request, placement : Target \cup {None}]
        Times == Time \cup {None} IN
    {[o EXCEPT !.status = s] : s \in {"approved", "rejected", "created", "failed", "submitting",
        "outcome_unknown", "reconciling", "reconciled", "reconciliation_absent"}}
      \cup {[o EXCEPT !.version = v] : v \in {o.version + 1, o.version + 2}}
      \cup {[o EXCEPT !.plan = p, !.schema = p.schema] : p \in Plans}
      \cup {[o EXCEPT !.diagnostic = d] : d \in {None, "LINEAR_WRITE_NOT_DISPATCHED",
            "LINEAR_WRITE_OUTCOME_UNKNOWN", "LINEAR_RECONCILIATION_FAILED"}}
      \cup {[o EXCEPT !.updatedAt = t] : t \in Time} \cup {[o EXCEPT !.createdAt = t] : t \in Time}
      \cup {[o EXCEPT !.approval = None]} \cup {[o EXCEPT !.submission = NoSubmission]}
      \cup {[o EXCEPT !.reconciliation = None]}
      \cup {[o EXCEPT !.submission.startedAt = t] : t \in Times}
      \cup {[o EXCEPT !.submission.issue = i] : i \in Issues}
      \cup (IF o.approval = None THEN {}
            ELSE {[o EXCEPT !.approval.decidedAt = t] : t \in Time}
                   \cup {[o EXCEPT !.approval.decision = d] : d \in {"approved", "rejected"}})
      \cup (IF o.reconciliation = None THEN {}
            ELSE {[o EXCEPT !.reconciliation.result = r] : r \in {None, "found", "absent", "failed"}}
                   \cup {[o EXCEPT !.reconciliation.issue = i] : i \in Issues}
                   \cup {[o EXCEPT !.reconciliation.attempt = k] : k \in 1..MaxAttempts})

Successors(o) == {Transition(o, a) : a \in Actions(o)} \ {None}

\* docs/specs/0009, 0010: no legal answer is refused for the record it would
\* leave, and after a record the journal accepts what a transition makes of it
\* and nothing else, however little it differs.
JournalAcceptsTransitions ==
    op # None =>
        /\ \A a \in Actions(op) : IsLegal(op, a) => Validates(op, Unfinalized(op, a))
        /\ \A s \in Successors(op) : \A c \in Changed(s) : Validates(op, c) => c \in Successors(op)

Steps == INSTANCE ProviderOperation WITH Plan <- {p.planDigest : p \in Plans}

Abstracted(o) ==
    [version |-> o.version, status |-> o.status, plan |-> o.plan.planDigest,
     approval |-> IF o.approval = None THEN None
                  ELSE [decision |-> o.approval.decision, plan |-> o.approval.planDigest]]

\* What ProviderOperation makes of an action.
Expected(r, a) ==
    CASE a.type \in {"approved", "rejected"} -> Steps!Decided(r, a.type, a.planDigest)
      [] a.type \in {"created", "not_dispatched", "unknown"} -> Steps!SubmissionResult(r, a.type)
      [] a.type \in {"found", "absent", "failed", "ambiguous"} ->
            Steps!ReconciliationResult(r, a.type)
      [] a.type = "begin_submission" -> Steps!Moved(r, "submitting")
      [] OTHER -> Steps!Moved(r, "reconciling")

\* A write in full takes the steps of ProviderOperation, which ControlledWrite
\* and its proofs are about.
IsProviderOperation ==
    op # None => \A a \in Actions(op) :
        Transition(op, a) # None => Abstracted(Transition(op, a)) = Expected(Abstracted(op), a)
=============================================================================
