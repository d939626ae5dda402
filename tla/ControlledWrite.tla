--------------------------- MODULE ControlledWrite ---------------------------
(***************************************************************************)
(* Creating an issue at a provider on behalf of a person:                  *)
(* src/application/controlled-write-coordinator.ts.                        *)
(*                                                                         *)
(* A command reads the operation's record, appends the next one, may call  *)
(* the provider and appends its result.  Commands of one operation run one *)
(* after another (enqueue), those of different operations interleave at    *)
(* every await.  A waiting command holds nothing but its input, so the     *)
(* input is chosen when it begins.  The process may end at any point; what *)
(* it sent to the provider is then still on its way.                       *)
(*                                                                         *)
(* A command appends the successor of a record it read while it held the   *)
(* operation's queue: no append of this coordinator meets a conflict.      *)
(*                                                                         *)
(* get and history only read and are left out.  The v2 form of an operation *)
(* differs in its payload and takes the same steps.                        *)
(***************************************************************************)
EXTENDS OperationJournal

VARIABLES
    mode,     \* "closed", "opening" (recovering what was interrupted), or "open"
    fenced,   \* #reopenRequired
    step,     \* what the operation's command does
    issue,    \* at the provider: "none", "sent", "present" or "lost"
    creates   \* createIssue calls made for each operation

vars == <<journalVars, mode, fenced, step, issue, creates>>

\* stage: "only" for a command of one append, "begin" before the provider's
\* answer and "result" after it, "recovery" when opened.
Idle == [at |-> "idle"]
Steps(at, stages) == [at : at, stage : stages, next : Record]
Step ==
    {Idle} \cup Steps({"append", "replace"}, {"only", "begin", "result", "recovery"})
           \cup Steps({"permit", "called"}, {"begin"})

Append(stage, next) == [at |-> "append", stage |-> stage, next |-> next]

Init ==
    /\ JournalInit
    /\ mode = "closed"
    /\ fenced = FALSE
    /\ step = [o \in Operation |-> Idle]
    /\ issue = [o \in Operation |-> "none"]
    /\ creates = [o \in Operation |-> 0]

-----------------------------------------------------------------------------
\* Commands, up to their first append.  A command that finds nothing to do, or
\* whose read fails, changes nothing.  (One that finds an interrupted record
\* fences the coordinator: RecordedOutcomeIsTrue shows that none does.)
Begins(o, stage, next) ==
    /\ step' = [step EXCEPT ![o] = Append(stage, next)]
    /\ UNCHANGED <<journalVars, mode, fenced, issue, creates>>

Ready(o) == mode = "open" /\ ~fenced /\ ~journalFenced /\ step[o] = Idle

\* requireCurrent
Current(o, plan) == disk[o] # None /\ disk[o].plan = plan

Prepare(o, plan) ==
    /\ Ready(o) /\ disk[o] = None
    /\ Begins(o, "only", Prepared(plan))

Decide(o, plan, decision) ==
    /\ Ready(o) /\ Current(o, plan)
    /\ disk[o].approval = None
    /\ disk[o].status = "approval_required"
    /\ Begins(o, "only", Decided(disk[o], decision, plan))

\* Mutant: an operation whose create may be lost is submitted again.
CanSubmitAgain(op) == op.status \in {"approved", "reconciliation_absent"}

\* Mutant: a decision of any kind lets the write go out.
CanSubmitDecided(op) == op.status \in {"approved", "rejected"}

CanSubmit(op) == op.status = "approved"

Submit(o, plan) ==
    /\ Ready(o) /\ Current(o, plan)
    /\ CanSubmit(disk[o])
    /\ Begins(o, "begin", Moved(disk[o], "submitting"))

Reconcile(o, plan) ==
    /\ Ready(o) /\ Current(o, plan)
    /\ disk[o].status \in Unresolved
    /\ Begins(o, "begin", Moved(disk[o], "reconciling"))

-----------------------------------------------------------------------------
\* append
LoadNext(o) ==
    /\ step[o].at = "append"
    /\ Load(o, step[o].next)
    /\ step' = [step EXCEPT ![o].at = "replace"]
    /\ UNCHANGED <<mode, fenced, issue, creates>>

Committed(o) ==
    /\ step[o].at = "replace"
    /\ Replace(o, step[o].next, TRUE)
    /\ step' = [step EXCEPT ![o] = IF @.stage = "begin" THEN [@ EXCEPT !.at = "permit"] ELSE Idle]
    /\ UNCHANGED <<mode, fenced, issue, creates>>

\* A failed append ends its command, and fences the coordinator once the
\* provider was called; while opening it fails the open.
GivesUp(o) ==
    /\ step' = [step EXCEPT ![o] = Idle]
    /\ fenced' = (fenced \/ step[o].stage = "result")
    /\ mode' = IF step[o].stage = "recovery" THEN "closed" ELSE mode
    /\ UNCHANGED <<issue, creates>>

\* The file cannot be read, holds RecordLimit records, or is not replaced.
AppendFails(o) ==
    /\ \/ step[o].at = "append" /\ Turn /\ ~journalFenced /\ UNCHANGED journalVars
       \/ step[o].at = "replace" /\ NotReplaced(o)
    /\ GivesUp(o)

\* Commit outcome unknown, or a journal that has to be reopened.
AppendFences(o) ==
    /\ \/ step[o].at = "append" /\ Turn /\ journalFenced /\ UNCHANGED journalVars
       \/ step[o].at = "replace" /\ Replace(o, step[o].next, FALSE)
    /\ step' = [step EXCEPT ![o] = Idle]
    /\ fenced' = TRUE
    /\ mode' = IF step[o].stage = "recovery" THEN "closed" ELSE mode
    /\ UNCHANGED <<issue, creates>>

-----------------------------------------------------------------------------
\* createIssue or queryByClientUuid is called.
Call(o) ==
    /\ step[o].at = "permit"
    /\ step' = [step EXCEPT ![o].at = "called"]
    /\ IF step[o].next.status = "submitting"
       THEN /\ creates' = [creates EXCEPT ![o] = @ + 1]
            /\ issue' = [issue EXCEPT ![o] = IF @ = "none" THEN "sent" ELSE @]
       ELSE UNCHANGED <<creates, issue>>
    /\ UNCHANGED <<journalVars, mode, fenced>>

\* The answer; a throw or a malformed answer is "none".
Answered(o, next) ==
    /\ step[o].at = "called"
    /\ step' = [step EXCEPT ![o] = Append("result", next)]
    /\ UNCHANGED <<journalVars, mode, fenced, creates>>

CreateReturns(o, answer) ==
    /\ step[o].at = "called" /\ step[o].next.status = "submitting"
    /\ answer = "created" => issue[o] = "present"
    /\ answer = "not_dispatched" => issue[o] = "sent"
    /\ issue' = [issue EXCEPT ![o] = IF answer = "not_dispatched" THEN "lost" ELSE @]
    /\ Answered(o, SubmissionResult(step[o].next, answer))

QueryReturns(o, answer) ==
    /\ step[o].at = "called" /\ step[o].next.status = "reconciling"
    /\ answer = "found" => issue[o] = "present"
    /\ answer = "absent" => issue[o] # "present"
    /\ Answered(o, ReconciliationResult(step[o].next, answer))
    /\ UNCHANGED issue

\* The provider takes what was sent, or it never arrives.
Arrive(o) ==
    /\ issue[o] = "sent"
    /\ \E fate \in {"present", "lost"} : issue' = [issue EXCEPT ![o] = fate]
    /\ UNCHANGED <<journalVars, mode, fenced, step, creates>>

-----------------------------------------------------------------------------
\* The process ends, by a crash or to be reopened.
End ==
    /\ mode # "closed"
    /\ JournalClosed
    /\ mode' = "closed"
    /\ fenced' = FALSE
    /\ step' = [o \in Operation |-> Idle]
    /\ UNCHANGED <<issue, creates>>

Open ==
    /\ mode = "closed"
    /\ mode' = "opening"
    /\ fenced' = FALSE
    /\ JournalClosed
    /\ UNCHANGED <<step, issue, creates>>

NeedsRecovery(o) == disk[o] # None /\ disk[o].status \in Interrupted

\* recoverInterruptedOperations, one after the other
Recover(o) ==
    /\ mode = "opening"
    /\ \A p \in Operation : step[p] = Idle
    /\ NeedsRecovery(o)
    /\ Begins(o, "recovery", Recovered(disk[o]))

Serve ==
    /\ mode = "opening"
    /\ \A o \in Operation : step[o] = Idle /\ ~NeedsRecovery(o)
    /\ mode' = "open"
    /\ UNCHANGED <<journalVars, fenced, step, issue, creates>>

-----------------------------------------------------------------------------
Next ==
    \/ \E o \in Operation :
        \/ \E plan \in Plan :
            \/ Prepare(o, plan)
            \/ \E decision \in {"approved", "rejected"} : Decide(o, plan, decision)
            \/ Submit(o, plan)
            \/ Reconcile(o, plan)
        \/ LoadNext(o) \/ Committed(o) \/ AppendFails(o) \/ AppendFences(o)
        \/ Call(o) \/ Arrive(o)
        \/ \E answer \in {"created", "not_dispatched", "none"} : CreateReturns(o, answer)
        \/ \E answer \in {"found", "absent", "none"} : QueryReturns(o, answer)
        \/ Recover(o)
    \/ End \/ Open \/ Serve

Spec == Init /\ [][Next]_vars

-----------------------------------------------------------------------------
TypeOK ==
    /\ JournalTypeOK
    /\ mode \in {"closed", "opening", "open"}
    /\ fenced \in BOOLEAN
    /\ step \in [Operation -> Step]
    /\ issue \in [Operation -> {"none", "sent", "present", "lost"}]
    /\ creates \in [Operation -> Nat]

\* docs/specs/0012, "unique permit": whatever fails, is retried, crashes or is
\* reconciled, an operation's issue is asked for at most once.
OneCreate == \A o \in Operation : creates[o] <= 1

\* A create goes out only when the file already says so, for the plan a person
\* approved: no crash can make the call and forget that it was made.
CreateIsRecorded ==
    [][\A o \in Operation : creates'[o] # creates[o] =>
        /\ disk[o] # None
        /\ disk[o].status = "submitting"
        /\ disk[o].approval = [decision |-> "approved", plan |-> disk[o].plan]]_vars

\* What the file says of the outcome is so: an issue recorded as created or
\* found is there, one recorded as failed will never be, and one recorded as on
\* its way is being worked on by a coordinator that takes commands.
RecordedOutcomeIsTrue ==
    \A o \in Operation : disk[o] # None =>
        /\ disk[o].status \in {"created", "reconciled"} => issue[o] = "present"
        /\ disk[o].status = "failed" => issue[o] = "lost"
        /\ (disk[o].status \in Interrupted /\ mode = "open" /\ ~fenced) => step[o] # Idle

\* No write of one operation undoes a committed record of another.
RecordsSurvive ==
    [][\A o \in Operation : disk[o] # None =>
        /\ disk'[o] # None
        /\ disk'[o].plan = disk[o].plan
        /\ disk'[o].version >= disk[o].version]_vars
=============================================================================
