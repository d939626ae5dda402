---------------------------- MODULE PlanJournal ----------------------------
(***************************************************************************)
(* The journal of approved and retired decomposition plans:                *)
(* application/decomposition-plan-journal.ts over                          *)
(* storage/decomposition-plan-store.ts.                                    *)
(*                                                                         *)
(* Writes wait in one queue.  A write validates its command when its turn  *)
(* comes, replaces the whole file, and changes the memory last.  Between   *)
(* the replacement and its confirmation a failure leaves the outcome       *)
(* unknown: the journal is then fenced until the process starts again.     *)
(*                                                                         *)
(* Abstracted: actors, reasons and notes (a repeated command is the same   *)
(* command), timestamps, byte limits, inodes; the file's order of records. *)
(***************************************************************************)
EXTENDS Naturals, Sequences, FiniteSets

CONSTANTS
    WorkItem,
    Plan,       \* plan ids
    Root,       \* the root work item of each plan
    Node,       \* the node work items of each plan
    PlanLimit,  \* MAX_APPROVED_PLANS
    None

VARIABLES
    records,   \* #records: the approvals in memory
    retired,   \* #retirements: the plan ids retired in memory
    disk,      \* decomposition-plans.json: [records, retired]
    queue,     \* #writeQueue: commands, the head being the one whose turn it is
    replaced,  \* the head has replaced the file and awaits the confirmation
    health     \* #health: "ready" or "fenced"

journal == <<records, retired, disk, queue, replaced, health>>

Owned(p) == Node[p] \cup {Root[p]}

\* An approval: revision is the profile its nodes' owner had, baselines the
\* number of attempts of each owned item, or None in legacy records.
Approval(p, revision, baselines) == [plan |-> p, revision |-> revision, baselines |-> baselines]
PlansIn(rs) == {r.plan : r \in rs}

\* activeRecords(): get() and list() see no others.
ActiveOf(rs, ret) == {r \in rs : r.plan \notin ret}
Active == ActiveOf(records, retired)
ActivePlans == PlansIn(Active)

\* assertPlanOwnershipAvailable
OwnershipAvailable(active, p) == \A r \in active : Owned(r.plan) \cap Owned(p) = {}

-----------------------------------------------------------------------------
(* open(): the file is parsed; a file that does not hold together is       *)
(* corrupt, and the Control Room does not start.                           *)
EnvelopeParses(file) ==
    /\ Cardinality(file.records) <= PlanLimit
    /\ \A r, s \in file.records : r.plan = s.plan => r = s
    /\ file.retired \subseteq PlansIn(file.records)
    /\ \A r \in ActiveOf(file.records, file.retired) :
            OwnershipAvailable(ActiveOf(file.records, file.retired) \ {r}, r.plan)

OpenJournal ==
    /\ EnvelopeParses(disk)
    /\ records' = disk.records
    /\ retired' = disk.retired
    /\ queue' = <<>>
    /\ replaced' = FALSE
    /\ health' = "ready"
    /\ UNCHANGED disk

-----------------------------------------------------------------------------
(* enqueueWrite                                                            *)

Enqueue(command) ==
    /\ queue' = Append(queue, command)
    /\ UNCHANGED <<records, retired, disk, replaced, health>>

Turn == queue[1]

\* Mutant: the ownership was checked when the approval was queued.
CanApproveUnchecked(p) == p \notin PlansIn(records) /\ Cardinality(records) < PlanLimit

CanApprove(p) ==
    /\ p \notin PlansIn(records)
    /\ OwnershipAvailable(Active, p)
    /\ Cardinality(records) < PlanLimit

CanRetire(p) == p \in PlansIn(records) /\ p \notin retired

Accepts(command) ==
    /\ health = "ready"
    /\ IF command.op = "approve" THEN CanApprove(command.plan) ELSE CanRetire(command.plan)

\* What the memory and the file hold once the command is carried out.
After(command) ==
    IF command.op = "approve"
    THEN [records |-> records \cup {Approval(command.plan, command.revision, command.baselines)},
          retired |-> retired]
    ELSE [records |-> records, retired |-> retired \cup {command.plan}]

LeaveQueue ==
    /\ queue' = Tail(queue)
    /\ replaced' = FALSE

\* A conflict, a limit, a fence, a command that is already carried out, or a
\* write that fails before the file is replaced.
TurnChangesNothing ==
    /\ queue # <<>> /\ ~replaced
    /\ LeaveQueue
    /\ UNCHANGED <<records, retired, disk, health>>

Replace ==
    /\ queue # <<>> /\ ~replaced
    /\ Accepts(Turn)
    /\ disk' = After(Turn)
    /\ replaced' = TRUE
    /\ UNCHANGED <<records, retired, queue, health>>

Confirm ==
    /\ replaced
    /\ records' = After(Turn).records
    /\ retired' = After(Turn).retired
    /\ LeaveQueue
    /\ UNCHANGED <<disk, health>>

\* Mutant: an unknown outcome is reported as a plain failure.
OutcomeUnknownUnfenced ==
    /\ replaced
    /\ LeaveQueue
    /\ UNCHANGED <<records, retired, disk, health>>

OutcomeUnknown ==
    /\ replaced
    /\ health' = "fenced"
    /\ LeaveQueue
    /\ UNCHANGED <<records, retired, disk>>

\* The command at the head has an answer, and its caller's claims go.
Answered == TurnChangesNothing \/ Confirm \/ OutcomeUnknown
=============================================================================
