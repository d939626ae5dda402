-------------------------- MODULE TransitionRecord --------------------------
(***************************************************************************)
(* The record of the transition of an accepted issue in full, as it is     *)
(* kept in the journal: src/application/controlled-transition-operation.ts.*)
(* It is a copy of the record of a write (WriteRecord) that asks less of a *)
(* record by itself: times in bounds instead of equal times, a version of  *)
(* the right parity instead of a count of reconciliations, no diagnostic   *)
(* of a reconciliation under way; and what was seen of the issue is kept   *)
(* also when it did not move.                                              *)
(***************************************************************************)
EXTENDS Naturals

CONSTANTS
    Decision,     \* acceptance decisions
    Issue,        \* issues and where they are: team and project
    State,        \* workflow states of an issue
    MaxTime,      \* bound: the clock, also that of an issue's revisions
    MaxAttempts,  \* bound: reconciliations of an operation
    None

VARIABLE op  \* the operation, or None

Time == 0..MaxTime

-----------------------------------------------------------------------------
(* The plan.                                                               *)

\* The operation key depends on the decision alone.
CreatePlan(decision, target) ==
    [decision |-> decision, target |-> target, operationKey |-> <<decision>>,
     planDigest |-> <<decision, target>>]

\* normalizeResolvedTarget
IsTarget(t) == t.expectedState # t.targetState

\* normalizePlan: the digests of a stored plan are taken again.
IsPlan(p) == IsTarget(p.target) /\ p = CreatePlan(p.decision, p.target)

\* classifyControlledTransitionPlan
Classify(p, q) ==
    IF p.operationKey # q.operationKey THEN "different"
    ELSE IF p.planDigest = q.planDigest THEN "idempotent" ELSE "conflict"

\* assertIssueMatches: the issue where it was expected and as it was then, or
\* where it was to go, at that revision or a later one.
IsSource(seen, plan) ==
    /\ seen.id = plan.target.issue
    /\ seen.state = plan.target.expectedState
    /\ seen.revision = plan.target.expectedRevision

IsTargetReached(seen, plan) ==
    /\ seen.id = plan.target.issue
    /\ seen.state = plan.target.targetState
    /\ seen.revision >= plan.target.expectedRevision

-----------------------------------------------------------------------------
(* What a record looks like.                                               *)

NoSubmission == [attempt |-> 0, startedAt |-> None, completedAt |-> None, issue |-> None]

\* createControlledTransitionOperation
Create(plan, at) ==
    [plan |-> plan, version |-> 1, status |-> "approval_required", approval |-> None,
     submission |-> NoSubmission, reconciliation |-> None, diagnostic |-> None,
     createdAt |-> at, updatedAt |-> at]

Within(t, first, last) == t # None /\ first <= t /\ t <= last

IsApproved(o) ==
    /\ o.approval # None
    /\ o.approval.operationKey = o.plan.operationKey
    /\ o.approval.planDigest = o.plan.planDigest
    /\ Within(o.approval.decidedAt, o.createdAt, o.updatedAt)

IsDecided(o) ==
    /\ IsApproved(o) /\ o.approval.decision = o.status
    /\ o.version = 2
    /\ o.submission = NoSubmission /\ o.reconciliation = None /\ o.diagnostic = None

IsDispatched(o) ==
    /\ IsApproved(o) /\ o.approval.decision = "approved"
    /\ o.submission.attempt = 1
    /\ Within(o.submission.startedAt, o.approval.decidedAt, o.updatedAt)

IsSubmitting(o) ==
    /\ IsDispatched(o) /\ o.version = 3
    /\ o.submission.completedAt = None /\ o.submission.issue = None
    /\ o.reconciliation = None /\ o.diagnostic = None

IsAnswered(o) ==
    IsDispatched(o) /\ Within(o.submission.completedAt, o.submission.startedAt, o.updatedAt)

IsTransitioned(o) ==
    /\ IsAnswered(o) /\ o.version = 4
    /\ o.reconciliation = None /\ o.diagnostic = None
    /\ o.submission.issue # None /\ IsTargetReached(o.submission.issue, o.plan)

IsUnmoved(o, code) ==
    /\ IsAnswered(o) /\ o.version = 4
    /\ o.submission.issue = None /\ o.reconciliation = None /\ o.diagnostic = code

IsReconciled(o) ==
    /\ IsAnswered(o) /\ o.submission.issue = None
    /\ o.reconciliation # None
    /\ Within(o.reconciliation.startedAt, o.submission.completedAt, o.updatedAt)

IsUnderway(o) ==
    /\ IsReconciled(o)
    /\ o.version >= 5 /\ o.version % 2 = 1
    /\ o.reconciliation.completedAt = None /\ o.reconciliation.result = None
    /\ o.reconciliation.issue = None

Ended(o, result) ==
    /\ IsReconciled(o)
    /\ Within(o.reconciliation.completedAt, o.reconciliation.startedAt, o.updatedAt)
    /\ o.version >= 6 /\ o.version % 2 = 0
    /\ o.reconciliation.result = result

IsFound(o) ==
    /\ Ended(o, "found") /\ o.diagnostic = None
    /\ o.reconciliation.issue # None /\ IsTargetReached(o.reconciliation.issue, o.plan)

IsAbsent(o) ==
    /\ Ended(o, "absent") /\ o.diagnostic = None
    /\ o.reconciliation.issue # None /\ IsSource(o.reconciliation.issue, o.plan)

ReconciliationCode(result) ==
    IF result = "failed" THEN "LINEAR_RECONCILIATION_FAILED" ELSE "LINEAR_RECONCILIATION_AMBIGUOUS"

IsUnknown(o) ==
    \/ IsUnmoved(o, "LINEAR_WRITE_OUTCOME_UNKNOWN")
    \/ \E result \in {"failed", "ambiguous"} :
        /\ Ended(o, result) /\ o.reconciliation.issue = None
        /\ o.diagnostic = ReconciliationCode(result)

\* parseControlledTransitionOperation, validateOperationSemantics
IsOperation(o) ==
    /\ IsPlan(o.plan)
    /\ CASE o.status = "approval_required"         -> o = Create(o.plan, o.createdAt)
         [] o.status \in {"approved", "rejected"} -> IsDecided(o)
         [] o.status = "submitting"                -> IsSubmitting(o)
         [] o.status = "transitioned"              -> IsTransitioned(o)
         [] o.status = "failed"                    -> IsUnmoved(o, "LINEAR_WRITE_NOT_DISPATCHED")
         [] o.status = "outcome_unknown"           -> IsUnknown(o)
         [] o.status = "reconciling"               -> IsUnderway(o)
         [] o.status = "reconciled"                -> IsFound(o)
         [] o.status = "reconciliation_absent"     -> IsAbsent(o)

-----------------------------------------------------------------------------
(* The transitions.                                                        *)

Attempt(o) == IF o.reconciliation = None THEN 1 ELSE o.reconciliation.attempt + 1

\* requireStatus, and what an action must agree with
IsLegal(o, a) ==
    /\ a.at >= o.updatedAt
    /\ CASE a.type \in {"approved", "rejected"} ->
              /\ o.status = "approval_required"
              /\ a.operationKey = o.plan.operationKey /\ a.planDigest = o.plan.planDigest
         [] a.type = "begin_submission" -> o.status = "approved"
         [] a.type = "confirmed" -> o.status = "submitting" /\ IsTargetReached(a.issue, o.plan)
         [] a.type \in {"not_dispatched", "unknown"} -> o.status = "submitting"
         [] a.type = "begin_reconciliation" ->
              o.status \in {"outcome_unknown", "reconciliation_absent"}
         [] a.type = "found" -> o.status = "reconciling" /\ IsTargetReached(a.issue, o.plan)
         [] a.type = "absent" -> o.status = "reconciling" /\ IsSource(a.issue, o.plan)
         [] OTHER -> o.status = "reconciling"

Moved(o, a, status) ==
    [o EXCEPT !.version = @ + 1, !.status = status, !.updatedAt = a.at]

Decide(o, a) ==
    [Moved(o, a, a.type) EXCEPT
        !.approval = [decision |-> a.type, operationKey |-> a.operationKey,
                      planDigest |-> a.planDigest, decidedAt |-> a.at]]

BeginSubmission(o, a) ==
    [Moved(o, a, "submitting") EXCEPT
        !.submission = [attempt |-> 1, startedAt |-> a.at, completedAt |-> None, issue |-> None]]

TransitionConfirmed(o, a) ==
    [Moved(o, a, "transitioned") EXCEPT
        !.submission = [@ EXCEPT !.completedAt = a.at, !.issue = a.issue], !.diagnostic = None]

SubmissionEnded(o, a) ==
    [Moved(o, a, IF a.type = "not_dispatched" THEN "failed" ELSE "outcome_unknown") EXCEPT
        !.submission = [@ EXCEPT !.completedAt = a.at],
        !.diagnostic = IF a.type = "not_dispatched" THEN "LINEAR_WRITE_NOT_DISPATCHED"
                       ELSE "LINEAR_WRITE_OUTCOME_UNKNOWN"]

BeginReconciliation(o, a) ==
    [Moved(o, a, "reconciling") EXCEPT
        !.reconciliation = [attempt |-> Attempt(o), startedAt |-> a.at, completedAt |-> None,
                            result |-> None, issue |-> None]]

\* Mutant: an issue that did not move is recorded as moved.
ReconciliationFound(o, a) ==
    [Moved(o, a, "reconciled") EXCEPT
        !.reconciliation = [@ EXCEPT !.completedAt = a.at, !.result = "found",
                                     !.issue = [a.issue EXCEPT !.state = o.plan.target.targetState]],
        !.diagnostic = None]

ReconciliationSaw(o, a) ==
    [Moved(o, a, IF a.type = "found" THEN "reconciled" ELSE "reconciliation_absent") EXCEPT
        !.reconciliation = [@ EXCEPT !.completedAt = a.at, !.result = a.type, !.issue = a.issue],
        !.diagnostic = None]

ReconciliationFailed(o, a) ==
    [Moved(o, a, "outcome_unknown") EXCEPT
        !.reconciliation = [@ EXCEPT !.completedAt = a.at, !.result = a.type],
        !.diagnostic = ReconciliationCode(a.type)]

Unparsed(o, a) ==
    CASE a.type \in {"approved", "rejected"}      -> Decide(o, a)
      [] a.type = "begin_submission"              -> BeginSubmission(o, a)
      [] a.type = "confirmed"                     -> TransitionConfirmed(o, a)
      [] a.type \in {"not_dispatched", "unknown"} -> SubmissionEnded(o, a)
      [] a.type = "begin_reconciliation"          -> BeginReconciliation(o, a)
      [] a.type \in {"found", "absent"}           -> ReconciliationSaw(o, a)
      [] OTHER                                    -> ReconciliationFailed(o, a)

\* transitionControlledTransitionOperation: the next record, or None when refused
Transition(o, a) ==
    IF IsLegal(o, a) /\ IsOperation(Unparsed(o, a)) THEN Unparsed(o, a) ELSE None

-----------------------------------------------------------------------------
(* What the journal accepts after a record.                                *)

\* deriveAction: the action that may have made next, or None
Derived(prev, next) ==
    LET Act(type) == [type |-> type, at |-> next.updatedAt]
        See(type, issue) == [type |-> type, at |-> next.updatedAt, issue |-> issue]
        result == IF next.reconciliation = None THEN None ELSE next.reconciliation.result
    IN  CASE prev.status = "approval_required" /\ next.status \in {"approved", "rejected"}
                /\ next.approval # None ->
              [type |-> next.status, at |-> next.updatedAt,
               operationKey |-> next.approval.operationKey,
               planDigest |-> next.approval.planDigest]
          [] prev.status = "approved" /\ next.status = "submitting" -> Act("begin_submission")
          [] prev.status = "submitting" /\ next.status = "transitioned"
                /\ next.submission.issue # None -> See("confirmed", next.submission.issue)
          [] prev.status = "submitting" /\ next.status = "failed" -> Act("not_dispatched")
          [] prev.status = "submitting" /\ next.status = "outcome_unknown"
                /\ next.reconciliation = None -> Act("unknown")
          [] prev.status \in {"outcome_unknown", "reconciliation_absent"}
                /\ next.status = "reconciling" -> Act("begin_reconciliation")
          [] prev.status = "reconciling"
                /\ <<next.status, result>> \in {<<"reconciled", "found">>,
                                                <<"reconciliation_absent", "absent">>}
                /\ next.reconciliation.issue # None -> See(result, next.reconciliation.issue)
          [] prev.status = "reconciling" /\ next.status = "outcome_unknown"
                /\ result \in {"failed", "ambiguous"} -> Act(result)
          [] OTHER -> None

\* Mutant: the record is not made again.
IsDerivable(prev, next) ==
    /\ IsOperation(next)
    /\ next.version = prev.version + 1 /\ next.plan.planDigest = prev.plan.planDigest
    /\ Derived(prev, next) # None

\* validateControlledTransitionOperationTransition
Validates(prev, next) ==
    /\ IsOperation(next)
    /\ next.version = prev.version + 1 /\ next.plan.planDigest = prev.plan.planDigest
    /\ Derived(prev, next) # None
    /\ Transition(prev, Derived(prev, next)) = next

-----------------------------------------------------------------------------
Targets ==
    {t \in [issue : Issue, expectedState : State, targetState : State, expectedRevision : Time] :
        IsTarget(t)}

Plans == {CreatePlan(d, t) : d \in Decision, t \in Targets}

Seen == [id : Issue, state : State, revision : Time]

\* What may be asked of the operation: an approval of any plan, any answer.
Actions(o) ==
    [type : {"approved", "rejected"}, at : Time, operationKey : {<<d>> : d \in Decision},
     planDigest : {p.planDigest : p \in Plans}]
      \cup [type : {"confirmed", "found", "absent"}, at : Time, issue : Seen]
      \cup [type : {"begin_submission", "not_dispatched", "unknown", "failed", "ambiguous"},
            at : Time]
      \cup (IF Attempt(o) <= MaxAttempts THEN [type : {"begin_reconciliation"}, at : Time] ELSE {})

Init == op = None

Prepare == op = None /\ \E plan \in Plans, at \in Time : op' = Create(plan, at)

Take == op # None /\ \E a \in Actions(op) : Transition(op, a) # None /\ op' = Transition(op, a)

Next == Prepare \/ Take

Spec == Init /\ [][Next]_op

-----------------------------------------------------------------------------
\* A record that was changed in one place.
Changed(o) ==
    {[o EXCEPT !.status = s] : s \in {"approved", "rejected", "transitioned", "failed",
        "submitting", "outcome_unknown", "reconciling", "reconciled", "reconciliation_absent"}}
      \cup {[o EXCEPT !.version = v] : v \in {o.version + 1, o.version + 2}}
      \cup {[o EXCEPT !.plan = p] : p \in Plans}
      \cup {[o EXCEPT !.diagnostic = d] : d \in {None, "LINEAR_WRITE_NOT_DISPATCHED",
            "LINEAR_WRITE_OUTCOME_UNKNOWN", "LINEAR_RECONCILIATION_FAILED"}}
      \cup {[o EXCEPT !.updatedAt = t] : t \in Time} \cup {[o EXCEPT !.createdAt = t] : t \in Time}
      \cup {[o EXCEPT !.approval = None]} \cup {[o EXCEPT !.submission = NoSubmission]}
      \cup {[o EXCEPT !.reconciliation = None]}
      \cup {[o EXCEPT !.submission.startedAt = t] : t \in Time \cup {None}}
      \cup {[o EXCEPT !.submission.issue = i] : i \in Seen \cup {None}}
      \cup (IF o.approval = None THEN {}
            ELSE {[o EXCEPT !.approval.decidedAt = t] : t \in Time}
                   \cup {[o EXCEPT !.approval.decision = d] : d \in {"approved", "rejected"}})
      \cup (IF o.reconciliation = None THEN {}
            ELSE {[o EXCEPT !.reconciliation.result = r] : r \in {None, "found", "absent", "failed"}}
                   \cup {[o EXCEPT !.reconciliation.issue = i] : i \in Seen \cup {None}}
                   \cup {[o EXCEPT !.reconciliation.attempt = k] : k \in 1..MaxAttempts})

Successors(o) == {Transition(o, a) : a \in Actions(o)} \ {None}

\* docs/specs/0021: no legal answer is refused for the record it would leave, and
\* after a record the journal accepts what a transition makes of it and nothing
\* else, although it asks less of a record by itself.
JournalAcceptsTransitions ==
    op # None =>
        /\ \A a \in Actions(op) : IsLegal(op, a) => Validates(op, Unparsed(op, a))
        /\ \A s \in Successors(op) : \A c \in Changed(s) : Validates(op, c) => c \in Successors(op)

Steps == INSTANCE ProviderOperation WITH Plan <- {p.planDigest : p \in Plans}

Abstracted(o) ==
    [version |-> o.version, status |-> o.status, plan |-> o.plan.planDigest,
     approval |-> IF o.approval = None THEN None
                  ELSE [decision |-> o.approval.decision, plan |-> o.approval.planDigest]]

\* What ProviderOperation makes of an action.
Expected(r, a) ==
    CASE a.type \in {"approved", "rejected"} -> Steps!Decided(r, a.type, a.planDigest)
      [] a.type = "confirmed" -> Steps!Moved(r, "transitioned")
      [] a.type \in {"not_dispatched", "unknown"} -> Steps!SubmissionResult(r, a.type)
      [] a.type \in {"found", "absent", "failed", "ambiguous"} ->
            Steps!ReconciliationResult(r, a.type)
      [] a.type = "begin_submission" -> Steps!Moved(r, "submitting")
      [] OTHER -> Steps!Moved(r, "reconciling")

\* A transition in full takes the steps of ProviderOperation, which
\* LinearTransition is about.
IsProviderOperation ==
    op # None => \A a \in Actions(op) :
        Transition(op, a) # None => Abstracted(Transition(op, a)) = Expected(Abstracted(op), a)
=============================================================================
