-------------------------- MODULE ProviderOperation --------------------------
(***************************************************************************)
(* One controlled write to a provider, as the records kept of it:          *)
(* src/application/controlled-write-operation.ts and, for the statuses of  *)
(* an issue's transition, controlled-transition-operation.ts.              *)
(*                                                                         *)
(* Each transition returns the next record, one version later; its guard   *)
(* (requireTransition) is the operator's own Can... or the status it is     *)
(* defined for.  Abstracted: timestamps, actors, diagnostic codes and the  *)
(* issue itself; a plan digest is the plan.                                *)
(***************************************************************************)
EXTENDS Naturals

CONSTANTS
    Plan,  \* what may be written: payload and target, by digest
    None

ASSUME NoPlanAssumption == None \notin Plan

Interrupted == {"submitting", "reconciling"}
Unresolved == {"outcome_unknown", "reconciliation_absent"}
Undecided == {"approval_required", "approved", "rejected"}
Settled == {"created", "transitioned", "failed", "reconciled"}
Status == Interrupted \cup Unresolved \cup Undecided \cup Settled

Approval == [decision: {"approved", "rejected"}, plan: Plan]
Record == [version: Nat, status: Status, plan: Plan, approval: Approval \cup {None}]

ASSUME NoRecordAssumption == None \notin Approval /\ None \notin Record

Prepared(plan) ==
    [version |-> 1, status |-> "approval_required", plan |-> plan, approval |-> None]

\* finalizeTransition: the next version of a record
Successor(op, status, approval) ==
    [version |-> op.version + 1, status |-> status, plan |-> op.plan, approval |-> approval]

Moved(op, status) == Successor(op, status, op.approval)

Decided(op, decision, plan) ==
    Successor(op, decision, [decision |-> decision, plan |-> plan])

\* Mutant: an answer that never came is taken for a refusal.
SubmissionResultOrFailed(op, answer) ==
    Moved(op, IF answer = "created" THEN "created" ELSE "failed")

\* projectSubmissionResult: anything but a valid answer leaves the outcome unknown.
SubmissionResult(op, answer) ==
    Moved(op, CASE answer = "created"        -> "created"
                [] answer = "not_dispatched" -> "failed"
                [] OTHER                     -> "outcome_unknown")

\* projectReconciliationResult
ReconciliationResult(op, answer) ==
    Moved(op, CASE answer = "found"  -> "reconciled"
                [] answer = "absent" -> "reconciliation_absent"
                [] OTHER             -> "outcome_unknown")

\* What a restart makes of a command that was interrupted.
Recovered(op) == Moved(op, "outcome_unknown")
=============================================================================
