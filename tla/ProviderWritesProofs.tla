------------------------ MODULE ProviderWritesProofs ------------------------
(***************************************************************************)
(* Of the issues that are created; at the end, of these and the issues that *)
(* are moved (LinearTransitionProofs) together.                            *)
(*                                                                         *)
(* OneCreate is not inductive: it says nothing about a command that is      *)
(* about to call.  The invariant adds that the right to call is spent by    *)
(* the record: an operation that has called, or whose command holds the    *)
(* permit, has left the undecided statuses on disk for good, and a command *)
(* that still has to append "submitting" found no call made.  It rests on  *)
(* two facts about the journal: the file a running append loaded is still  *)
(* the file (one append at a time), and an append of a command moves its    *)
(* own operation on from where it is.                                      *)
(***************************************************************************)
EXTENDS ProviderWrites, TLAPS

\* Only the running append has a loaded file, and it is the file on disk.
LoadedIsCurrent ==
    \A o \in Operation : loaded[o] # None =>
        /\ loaded[o] = disk
        /\ step[o].at = "replace"
        /\ \A p \in Operation : loaded[p] # None => p = o

\* A record past the decision: never undecided again.
Spent(o) == disk[o] # None /\ disk[o].status \notin Undecided

\* What a command of the operation is about to append or has just appended.
StepFollowsDisk ==
    \A o \in Operation : 
        /\ step[o].at \in {"append", "replace"} =>
              IF step[o].next.status = "submitting"
              THEN creates[o] = 0
              ELSE step[o].next.status \in Undecided => ~Spent(o)
        /\ (step[o].at = "permit" /\ step[o].next.status = "submitting") =>
              creates[o] = 0 /\ Spent(o)

CallsAreSpent ==
    \A o \in Operation : creates[o] = 0 \/ (creates[o] = 1 /\ Spent(o))

IInv == TypeOK /\ LoadedIsCurrent /\ StepFollowsDisk /\ CallsAreSpent

-----------------------------------------------------------------------------
\* The records a transition makes (controlled-write-operation.ts) are records,
\* with the status it names.
LEMMA SuccessorIsRecord ==
    ASSUME NEW op \in Record, NEW status \in Status, NEW approval \in Approval \cup {None}
    PROVE  /\ Successor(op, status, approval) \in Record
           /\ Successor(op, status, approval).status = status
<1>1. op.version + 1 \in Nat /\ op.plan \in Plan
  BY DEF Record
<1> QED BY <1>1 DEF Record, Successor

LEMMA MovedIsRecord ==
    ASSUME NEW op \in Record, NEW status \in Status
    PROVE  /\ Moved(op, status) \in Record
           /\ Moved(op, status).status = status
<1>1. op.approval \in Approval \cup {None}
  BY DEF Record
<1> QED BY <1>1, SuccessorIsRecord DEF Moved

LEMMA PreparedIsRecord ==
    ASSUME NEW plan \in Plan
    PROVE  /\ Prepared(plan) \in Record
           /\ Prepared(plan).status = "approval_required"
BY DEF Prepared, Record, Status, Undecided

LEMMA DecidedIsRecord ==
    ASSUME NEW op \in Record, NEW plan \in Plan, NEW decision \in {"approved", "rejected"}
    PROVE  /\ Decided(op, decision, plan) \in Record
           /\ Decided(op, decision, plan).status = decision
<1>1. decision \in Status
  BY DEF Status, Undecided
<1>2. [decision |-> decision, plan |-> plan] \in Approval
  BY DEF Approval
<1> QED BY <1>1, <1>2, SuccessorIsRecord DEF Decided

\* The result of a call never reopens an operation.
LEMMA ResultIsRecord ==
    ASSUME NEW op \in Record, NEW answer
    PROVE  /\ SubmissionResult(op, answer) \in Record
           /\ SubmissionResult(op, answer).status \notin Undecided \cup {"submitting"}
           /\ ReconciliationResult(op, answer) \in Record
           /\ ReconciliationResult(op, answer).status \notin Undecided \cup {"submitting"}
<1>1. \A status \in {"created", "failed", "outcome_unknown", "reconciled", "reconciliation_absent"} :
        /\ Moved(op, status) \in Record
        /\ Moved(op, status).status \notin Undecided \cup {"submitting"}
  BY MovedIsRecord DEF Status, Undecided, Unresolved, Settled, Interrupted
<1>2. /\ SubmissionResult(op, answer) \in Record
      /\ SubmissionResult(op, answer).status \notin Undecided \cup {"submitting"}
  <2>1. \E status \in {"created", "failed", "outcome_unknown"} :
          SubmissionResult(op, answer) = Moved(op, status)
    BY DEF SubmissionResult
  <2> QED BY <1>1, <2>1
<1>3. /\ ReconciliationResult(op, answer) \in Record
      /\ ReconciliationResult(op, answer).status \notin Undecided \cup {"submitting"}
  <2>1. \E status \in {"reconciled", "reconciliation_absent", "outcome_unknown"} :
          ReconciliationResult(op, answer) = Moved(op, status)
    BY DEF ReconciliationResult
  <2> QED BY <1>1, <2>1
<1> QED BY <1>2, <1>3

\* A step in the middle of a command has a record; the idle one has none.
LEMMA StepForms ==
    ASSUME NEW s \in Step
    PROVE  /\ s # Idle => s.next \in Record
           /\ s = Idle <=> s.at = "idle"
           /\ s.at \in {"append", "replace", "permit", "called"} => s.next \in Record
BY DEF Step, Steps, Idle

\* append's argument, as the first state of a command.
LEMMA AppendIsStep ==
    ASSUME NEW next \in Record, NEW stage \in {"only", "begin", "result", "recovery"}
    PROVE  /\ Append(stage, next) \in Step
           /\ Append(stage, next).at = "append"
           /\ Append(stage, next).next = next
BY DEF Append, Step, Steps

-----------------------------------------------------------------------------
LEMMA Initially == Init => IInv
<1> SUFFICES ASSUME Init PROVE IInv
  OBVIOUS
<1> USE DEF Init, JournalInit
<1>1. TypeOK
  BY DEF TypeOK, JournalTypeOK, File, NoAppend, Step
<1>2. LoadedIsCurrent /\ StepFollowsDisk /\ CallsAreSpent
  BY DEF LoadedIsCurrent, StepFollowsDisk, CallsAreSpent, NoAppend, Idle
<1> QED BY <1>1, <1>2 DEF IInv

\* A command reaches an append (of its first record or of its result) that
\* may be made of the operation as it stands.
LEMMA AppendKeeps ==
    ASSUME IInv, NEW o \in Operation, NEW next \in Record,
           NEW stage \in {"only", "begin", "result", "recovery"},
           step[o].at # "replace",
           next.status = "submitting" => creates[o] = 0,
           next.status \in Undecided => ~Spent(o),
           step' = [step EXCEPT ![o] = Append(stage, next)],
           UNCHANGED <<journalVars, mode, fenced, creates>>,
           issue' \in [Operation -> {"none", "sent", "present", "lost"}]
    PROVE  IInv'
<1> USE DEF IInv, TypeOK
<1>1. step' \in [Operation -> Step] /\ step'[o] = Append(stage, next)
      /\ \A p \in Operation \ {o} : step'[p] = step[p]
  BY AppendIsStep
<1>2. TypeOK'
  BY <1>1 DEF JournalTypeOK, journalVars
<1>3. LoadedIsCurrent'
  BY <1>1 DEF LoadedIsCurrent, journalVars
<1>4. CallsAreSpent'
  BY DEF CallsAreSpent, Spent, journalVars
<1>5. StepFollowsDisk'
  <2> SUFFICES ASSUME NEW p \in Operation
               PROVE  /\ step'[p].at \in {"append", "replace"} =>
                            IF step'[p].next.status = "submitting"
                            THEN creates'[p] = 0
                            ELSE step'[p].next.status \in Undecided => ~Spent(p)'
                      /\ (step'[p].at = "permit" /\ step'[p].next.status = "submitting") =>
                            creates'[p] = 0 /\ Spent(p)'
    BY DEF StepFollowsDisk
  <2>1. creates' = creates /\ (Spent(p)' <=> Spent(p))
    BY DEF Spent, journalVars
  <2>2. CASE p = o
    BY <1>1, <2>1, <2>2, AppendIsStep
  <2>3. CASE p # o
    BY <1>1, <2>1, <2>3 DEF StepFollowsDisk
  <2> QED BY <2>2, <2>3
<1> QED BY <1>2, <1>3, <1>4, <1>5

\* A command is over and the file is as it was.
LEMMA EndingKeeps ==
    ASSUME IInv, NEW o \in Operation,
           loaded' = [loaded EXCEPT ![o] = None],
           step' = [step EXCEPT ![o] = Idle],
           UNCHANGED <<disk, journalFenced, issue, creates>>,
           mode' \in {"closed", "opening", "open"}, fenced' \in BOOLEAN
    PROVE  IInv'
<1> USE DEF IInv, TypeOK
<1>1. TypeOK'
  BY DEF JournalTypeOK, Step
<1>2. LoadedIsCurrent'
  BY DEF LoadedIsCurrent, JournalTypeOK
<1>3. CallsAreSpent'
  BY DEF CallsAreSpent, Spent
<1>4. StepFollowsDisk'
  BY DEF StepFollowsDisk, Spent, Idle
<1> QED BY <1>1, <1>2, <1>3, <1>4

\* The file is replaced: the operation's record is the appended one and every
\* other record is what it was.
LEMMA ReplaceKeeps ==
    ASSUME IInv, NEW o \in Operation, NEW verified \in BOOLEAN, NEW s \in Step,
           step[o].at = "replace",
           Replace(o, step[o].next, verified),
           step' = [step EXCEPT ![o] = s],
           s = Idle \/ (s.at = "permit" /\ s.next = step[o].next),
           UNCHANGED <<issue, creates>>,
           mode' \in {"closed", "opening", "open"}, fenced' \in BOOLEAN
    PROVE  IInv'
<1> USE DEF IInv, TypeOK
<1>1. step[o] \in Step /\ step[o].next \in Record
  BY StepForms
<1>2. loaded[o] = disk /\ \A p \in Operation \ {o} : loaded[p] = None
  BY DEF Replace, LoadedIsCurrent
<1>3. disk' \in File /\ disk'[o] = step[o].next
      /\ \A p \in Operation \ {o} : disk'[p] = disk[p]
  BY <1>1, <1>2 DEF Replace, JournalTypeOK, File
<1>4. loaded' = [p \in Operation |-> None]
  BY <1>2 DEF Replace, JournalTypeOK
<1>5. TypeOK'
  BY <1>3, <1>4 DEF JournalTypeOK, Replace
<1>6. LoadedIsCurrent'
  BY <1>4 DEF LoadedIsCurrent
<1>7. disk'[o] # None
  BY <1>1, <1>3, NoRecordAssumption
<1>8. creates[o] = 0 \/ Spent(o)'
  <2>1. CASE creates[o] = 0
    BY <2>1
  <2>2. CASE creates[o] # 0
    <3>1. Spent(o)
      BY <2>2 DEF CallsAreSpent
    <3>2. step[o].next.status \notin Undecided
      BY <2>2, <3>1 DEF StepFollowsDisk
    <3> QED BY <1>3, <1>7, <3>2 DEF Spent
  <2> QED BY <2>1, <2>2
<1>9. CallsAreSpent'
  BY <1>3, <1>8 DEF CallsAreSpent, Spent
<1>10. StepFollowsDisk'
  <2>1. ASSUME s.at = "permit", s.next = step[o].next, s.next.status = "submitting"
        PROVE  creates[o] = 0 /\ Spent(o)'
    BY <2>1, <1>3, <1>7 DEF StepFollowsDisk, Spent, Undecided
  <2>2. step'[o] = s /\ \A p \in Operation \ {o} : step'[p] = step[p]
    OBVIOUS
  <2>3. s.at \notin {"append", "replace"}
    BY DEF Idle
  <2>4. s.at = "permit" => s.next = step[o].next
    BY DEF Idle
  <2>5. \A p \in Operation \ {o} : Spent(p)' <=> Spent(p)
    BY <1>3 DEF Spent
  <2> QED BY <2>1, <2>2, <2>3, <2>4, <2>5 DEF StepFollowsDisk
<1> QED BY <1>5, <1>6, <1>9, <1>10

-----------------------------------------------------------------------------
\* A record that is read from the file.
LEMMA DiskRecord ==
    ASSUME TypeOK, NEW o \in Operation, disk[o] # None
    PROVE  disk[o] \in Record
BY DEF TypeOK, JournalTypeOK, File

\* While the command is not replacing the file it has loaded none.
LEMMA NothingLoaded ==
    ASSUME IInv, NEW o \in Operation, step[o].at # "replace"
    PROVE  loaded[o] = None /\ loaded = [loaded EXCEPT ![o] = None]
BY DEF IInv, TypeOK, JournalTypeOK, LoadedIsCurrent

LEMMA CommandsKeep ==
    ASSUME IInv, NEW o \in Operation, NEW plan \in Plan,
           \/ Prepare(o, plan)
           \/ \E decision \in {"approved", "rejected"} : Decide(o, plan, decision)
           \/ Submit(o, plan)
           \/ Reconcile(o, plan)
    PROVE  IInv'
<1> USE DEF IInv
<1>1. step[o].at # "replace"
  BY DEF Prepare, Decide, Submit, Reconcile, Ready, Idle
<1>2. issue' \in [Operation -> {"none", "sent", "present", "lost"}]
  BY DEF Prepare, Decide, Submit, Reconcile, Begins, TypeOK
<1>3. CASE Prepare(o, plan)
  <2>1. ~Spent(o)
    BY <1>3 DEF Prepare, Spent
  <2>2. Prepared(plan) \in Record /\ Prepared(plan).status # "submitting"
    BY PreparedIsRecord
  <2> QED BY <1>1, <1>2, <1>3, <2>1, <2>2, AppendKeeps DEF Prepare, Begins
<1>4. ASSUME NEW decision \in {"approved", "rejected"}, Decide(o, plan, decision)
      PROVE  IInv'
  <2>1. disk[o] \in Record /\ ~Spent(o)
    BY <1>4, DiskRecord DEF Decide, Current, Spent, Undecided
  <2>2. /\ Decided(disk[o], decision, plan) \in Record
        /\ Decided(disk[o], decision, plan).status # "submitting"
    BY <2>1, DecidedIsRecord
  <2> QED BY <1>1, <1>2, <1>4, <2>1, <2>2, AppendKeeps DEF Decide, Begins
<1>5. CASE Submit(o, plan)
  <2>1. disk[o] \in Record /\ ~Spent(o)
    BY <1>5, DiskRecord DEF Submit, CanSubmit, Current, Spent, Undecided
  <2>2. creates[o] = 0
    BY <2>1 DEF CallsAreSpent
  <2>3. Moved(disk[o], "submitting") \in Record
    BY <2>1, MovedIsRecord DEF Status, Interrupted
  <2> QED BY <1>1, <1>2, <1>5, <2>1, <2>2, <2>3, AppendKeeps DEF Submit, Begins
<1>6. CASE Reconcile(o, plan)
  <2>1. disk[o] \in Record
    BY <1>6, DiskRecord DEF Reconcile, Current
  <2>2. /\ Moved(disk[o], "reconciling") \in Record
        /\ Moved(disk[o], "reconciling").status \notin Undecided \cup {"submitting"}
    BY <2>1, MovedIsRecord DEF Status, Interrupted, Undecided
  <2> QED BY <1>1, <1>2, <1>6, <2>2, AppendKeeps DEF Reconcile, Begins
<1> QED BY <1>3, <1>4, <1>5, <1>6

LEMMA AppendsKeep ==
    ASSUME IInv, NEW o \in Operation,
           LoadNext(o) \/ Committed(o) \/ AppendFails(o) \/ AppendFences(o)
    PROVE  IInv'
<1> USE DEF IInv
<1>1. CASE LoadNext(o)
  <2> USE DEF TypeOK
  <2>1. step[o] \in Step /\ step[o].next \in Record
    BY <1>1, StepForms DEF LoadNext
  <2>2. [step[o] EXCEPT !.at = "replace"] \in Step
        /\ [step[o] EXCEPT !.at = "replace"].at = "replace"
        /\ [step[o] EXCEPT !.at = "replace"].next = step[o].next
    BY <1>1 DEF LoadNext, Step, Steps, Idle
  <2>3. step'[o] = [step[o] EXCEPT !.at = "replace"]
        /\ \A p \in Operation \ {o} : step'[p] = step[p]
    BY <1>1 DEF LoadNext
  <2>4. loaded'[o] = disk /\ \A p \in Operation \ {o} : loaded'[p] = None
    BY <1>1 DEF LoadNext, Load, Fits, Turn, NoAppend
  <2>5. UNCHANGED <<disk, journalFenced, mode, fenced, issue, creates>>
    BY <1>1 DEF LoadNext, Load, Fits
  <2>6. TypeOK'
    <3>1. step' \in [Operation -> Step]
      BY <1>1, <2>2 DEF LoadNext
    <3>2. loaded' \in [Operation -> File \cup {None}]
      BY <1>1 DEF LoadNext, Load, Fits, JournalTypeOK
    <3> QED BY <2>5, <3>1, <3>2 DEF JournalTypeOK
  <2>7. LoadedIsCurrent'
    BY <2>2, <2>3, <2>4, <2>5 DEF LoadedIsCurrent
  <2>8. CallsAreSpent'
    BY <2>5 DEF CallsAreSpent, Spent
  <2>9. StepFollowsDisk'
    BY <1>1, <2>2, <2>3, <2>5 DEF StepFollowsDisk, Spent, LoadNext
  <2> QED BY <2>6, <2>7, <2>8, <2>9
<1>2. CASE Committed(o)
  <2>1. step[o] \in Step /\ step[o].next \in Record
    BY <1>2, StepForms DEF Committed, TypeOK
  <2> DEFINE s == IF step[o].stage = "begin" THEN [step[o] EXCEPT !.at = "permit"] ELSE Idle
  <2>2. s \in Step /\ (s = Idle \/ (s.at = "permit" /\ s.next = step[o].next))
    BY <1>2, <2>1 DEF Committed, Step, Steps, Idle
  <2>3. step' = [step EXCEPT ![o] = s]
    BY <1>2 DEF Committed
  <2>4. UNCHANGED <<issue, creates>> /\ step[o].at = "replace"
        /\ Replace(o, step[o].next, TRUE)
    BY <1>2 DEF Committed
  <2>5. mode' \in {"closed", "opening", "open"} /\ fenced' \in BOOLEAN
    BY <1>2 DEF Committed, TypeOK
  <2> HIDE DEF s
  <2> QED BY <2>2, <2>3, <2>4, <2>5, ReplaceKeeps
<1>3. CASE AppendFails(o)
  <2>1. loaded' = [loaded EXCEPT ![o] = None] /\ UNCHANGED <<disk, journalFenced>>
    BY <1>3, NothingLoaded DEF AppendFails, NotReplaced, journalVars
  <2>2. /\ step' = [step EXCEPT ![o] = Idle]
        /\ UNCHANGED <<issue, creates>>
        /\ mode' \in {"closed", "opening", "open"}
        /\ fenced' \in BOOLEAN
    BY <1>3 DEF AppendFails, GivesUp, TypeOK
  <2> QED BY <2>1, <2>2, EndingKeeps
<1>4. CASE AppendFences(o)
  <2>1. /\ step' = [step EXCEPT ![o] = Idle]
        /\ UNCHANGED <<issue, creates>>
        /\ mode' \in {"closed", "opening", "open"}
        /\ fenced' \in BOOLEAN
    BY <1>4 DEF AppendFences, TypeOK
  <2>2. CASE step[o].at = "append" /\ UNCHANGED journalVars
    <3>1. loaded' = [loaded EXCEPT ![o] = None] /\ UNCHANGED <<disk, journalFenced>>
      BY <2>2, NothingLoaded DEF journalVars
    <3> QED BY <2>1, <3>1, EndingKeeps
  <2>3. CASE step[o].at = "replace" /\ Replace(o, step[o].next, FALSE)
    <3>1. Idle \in Step
      BY DEF Step
    <3> QED BY <2>1, <2>3, <3>1, ReplaceKeeps
  <2> QED BY <1>4, <2>2, <2>3 DEF AppendFences
<1> QED BY <1>1, <1>2, <1>3, <1>4

\* What leaves the file and the counts alone, and every command where it was or
\* idle, keeps the invariant.
LEMMA RestKeeps ==
    ASSUME IInv,
           UNCHANGED <<disk, creates>>,
           \/ UNCHANGED <<loaded, step>>
           \/ loaded' = NoAppend /\ step' = step
           \/ loaded' = NoAppend /\ step' = [p \in Operation |-> Idle],
           journalFenced' \in BOOLEAN, fenced' \in BOOLEAN,
           mode' \in {"closed", "opening", "open"},
           issue' \in [Operation -> {"none", "sent", "present", "lost"}]
    PROVE  IInv'
<1> USE DEF IInv
<1>1. TypeOK'
  BY DEF TypeOK, JournalTypeOK, NoAppend, Step
<1>2. LoadedIsCurrent'
  BY DEF LoadedIsCurrent, NoAppend
<1>3. CallsAreSpent'
  BY DEF CallsAreSpent, Spent
<1>4. StepFollowsDisk'
  BY DEF StepFollowsDisk, Spent, Idle
<1> QED BY <1>1, <1>2, <1>3, <1>4

LEMMA CallKeeps ==
    ASSUME IInv, NEW o \in Operation, Call(o)
    PROVE  IInv'
<1> USE DEF IInv, TypeOK
<1>1. step[o] \in Step /\ step[o].at = "permit"
  BY DEF Call
<1>2. [step[o] EXCEPT !.at = "called"] \in Step
      /\ [step[o] EXCEPT !.at = "called"].at = "called"
  BY <1>1 DEF Step, Steps, Idle
<1>3. step'[o].at = "called" /\ \A p \in Operation \ {o} : step'[p] = step[p]
  BY <1>2 DEF Call
<1>4. UNCHANGED <<disk, loaded, journalFenced, mode, fenced>>
  BY DEF Call, journalVars
<1>5. creates' = IF step[o].next.status = "submitting"
                 THEN [creates EXCEPT ![o] = @ + 1] ELSE creates
  BY DEF Call
<1>6. TypeOK'
  <2>1. step' \in [Operation -> Step]
    BY <1>2 DEF Call
  <2>2. creates' \in [Operation -> Nat]
    BY <1>5
  <2>3. issue' \in [Operation -> {"none", "sent", "present", "lost"}]
    BY DEF Call
  <2> QED BY <1>4, <2>1, <2>2, <2>3 DEF JournalTypeOK
<1>7. LoadedIsCurrent'
  BY <1>1, <1>3, <1>4 DEF LoadedIsCurrent
<1>8. CallsAreSpent'
  <2>1. step[o].next.status = "submitting" => creates[o] = 0 /\ Spent(o)
    BY <1>1 DEF StepFollowsDisk
  <2>2. \A p \in Operation : Spent(p)' <=> Spent(p)
    BY <1>4 DEF Spent
  <2> QED BY <1>5, <2>1, <2>2 DEF CallsAreSpent
<1>9. StepFollowsDisk'
  <2>1. \A p \in Operation \ {o} : creates'[p] = creates[p]
    BY <1>5
  <2>2. \A p \in Operation : Spent(p)' <=> Spent(p)
    BY <1>4 DEF Spent
  <2> QED BY <1>3, <2>1, <2>2 DEF StepFollowsDisk
<1> QED BY <1>6, <1>7, <1>8, <1>9

LEMMA AnswerKeeps ==
    ASSUME IInv, NEW o \in Operation, NEW answer,
           CreateReturns(o, answer) \/ QueryReturns(o, answer)
    PROVE  IInv'
<1>1. step[o].next \in Record /\ step[o].at = "called"
  BY StepForms DEF IInv, TypeOK, CreateReturns, QueryReturns
<1>2. PICK next \in Record :
        next.status \notin Undecided \cup {"submitting"} /\ Answered(o, next)
  BY <1>1, ResultIsRecord DEF CreateReturns, QueryReturns
<1>3. issue' \in [Operation -> {"none", "sent", "present", "lost"}]
  BY DEF CreateReturns, QueryReturns, IInv, TypeOK
<1> QED BY <1>1, <1>2, <1>3, AppendKeeps DEF Answered

LEMMA RecoverKeeps ==
    ASSUME IInv, NEW o \in Operation, Recover(o)
    PROVE  IInv'
<1>1. disk[o] \in Record
  BY DiskRecord DEF IInv, Recover, NeedsRecovery
<1>2. /\ Recovered(disk[o]) \in Record
      /\ Recovered(disk[o]).status \notin Undecided \cup {"submitting"}
  BY <1>1, MovedIsRecord DEF Recovered, Status, Unresolved, Undecided
<1>3. step[o].at # "replace"
  BY DEF Recover, Idle
<1>4. issue' \in [Operation -> {"none", "sent", "present", "lost"}]
  BY DEF Recover, Begins, IInv, TypeOK
<1> QED BY <1>2, <1>3, <1>4, AppendKeeps DEF Recover, Begins

LEMMA Stepwise == IInv /\ [Next]_vars => IInv'
<1> SUFFICES ASSUME IInv, [Next]_vars PROVE IInv'
  OBVIOUS
<1>1. ASSUME NEW o \in Operation, NEW plan \in Plan,
             \/ Prepare(o, plan)
             \/ \E decision \in {"approved", "rejected"} : Decide(o, plan, decision)
             \/ Submit(o, plan)
             \/ Reconcile(o, plan)
      PROVE  IInv'
  BY <1>1, CommandsKeep
<1>2. ASSUME NEW o \in Operation,
             LoadNext(o) \/ Committed(o) \/ AppendFails(o) \/ AppendFences(o)
      PROVE  IInv'
  BY <1>2, AppendsKeep
<1>3. ASSUME NEW o \in Operation, Call(o)
      PROVE  IInv'
  BY <1>3, CallKeeps
<1>4. ASSUME NEW o \in Operation, NEW answer, CreateReturns(o, answer) \/ QueryReturns(o, answer)
      PROVE  IInv'
  BY <1>4, AnswerKeeps
<1>5. ASSUME NEW o \in Operation, Recover(o)
      PROVE  IInv'
  BY <1>5, RecoverKeeps
<1>6. ASSUME NEW o \in Operation, Arrive(o)
      PROVE  IInv'
  BY <1>6, RestKeeps DEF Arrive, IInv, TypeOK, JournalTypeOK, journalVars
<1>7. CASE End
  BY <1>7, RestKeeps DEF End, JournalClosed, IInv, TypeOK, JournalTypeOK
<1>8. CASE Open
  BY <1>8, RestKeeps DEF Open, JournalClosed, IInv, TypeOK, JournalTypeOK
<1>9. CASE Serve
  BY <1>9, RestKeeps DEF Serve, IInv, TypeOK, JournalTypeOK, journalVars
<1>10. CASE UNCHANGED vars
  BY <1>10, RestKeeps DEF vars, IInv, TypeOK, JournalTypeOK, journalVars
<1> QED BY <1>1, <1>2, <1>3, <1>4, <1>5, <1>6, <1>7, <1>8, <1>9, <1>10 DEF Next

-----------------------------------------------------------------------------
LEMMA Invariance == Spec => []IInv
BY Initially, Stepwise, PTL DEF Spec

\* docs/specs/0012: however often a command is repeated, an answer is lost, a
\* write of the journal fails or the process ends, submit calls createIssue at
\* most once for an operation.
THEOREM CreatedAtMostOnce == Spec => []OneCreate
<1>1. IInv => OneCreate
  BY DEF IInv, CallsAreSpent, OneCreate
<1> QED BY <1>1, Invariance, PTL

\* The state of the coordinator, its journal and the provider keeps its type.
THEOREM WritesAreTyped == Spec => []TypeOK
<1>1. IInv => TypeOK
  BY DEF IInv
<1> QED BY <1>1, Invariance, PTL

-----------------------------------------------------------------------------
(***************************************************************************)
(* What a command appends, against the file: an approved or submitting      *)
(* record carries the approval of its own plan; the record being put in    *)
(* place is the successor of the one it replaces; and a command that may   *)
(* call has its record on disk.                                            *)
(***************************************************************************)
CarriesApproval(record) ==
    record.status \in {"approved", "submitting"} =>
        record.approval = [decision |-> "approved", plan |-> record.plan]

Follows(o, next) ==
    /\ next.version = VersionOf(disk[o]) + 1
    /\ disk[o] # None => next.plan = disk[o].plan

BoundTo(o) ==
    /\ disk[o] # None => CarriesApproval(disk[o])
    /\ step[o].at \in {"append", "replace"} => CarriesApproval(step[o].next)
    /\ step[o].at = "replace" => Follows(o, step[o].next)
    /\ (step[o].at = "permit" /\ step[o].next.status = "submitting") => disk[o] = step[o].next

Bound == \A o \in Operation : BoundTo(o)

LEMMA BoundInitially == Init => Bound
BY DEF Init, JournalInit, Bound, BoundTo, Idle

\* Reaching an append keeps the bond when its record carries its approval.
LEMMA AppendKeepsBound ==
    ASSUME IInv, Bound, NEW o \in Operation, NEW next \in Record,
           NEW stage \in {"only", "begin", "result", "recovery"},
           CarriesApproval(next),
           step' = [step EXCEPT ![o] = Append(stage, next)],
           disk' = disk
    PROVE  Bound'
<1>1. step'[o] = Append(stage, next) /\ \A p \in Operation \ {o} : step'[p] = step[p]
  BY DEF IInv, TypeOK
<1>2. BoundTo(o)'
  <2>1. disk[o] # None => CarriesApproval(disk[o])
    BY DEF Bound, BoundTo
  <2>2. step'[o].at = "append" /\ step'[o].next = next
    BY <1>1, AppendIsStep
  <2> QED BY <2>1, <2>2 DEF BoundTo, CarriesApproval
<1>3. ASSUME NEW p \in Operation \ {o} PROVE BoundTo(p)'
  BY <1>1 DEF Bound, BoundTo, CarriesApproval, Follows, VersionOf
<1> QED BY <1>2, <1>3 DEF Bound

\* A status other than these two needs no approval.
LEMMA OtherStatusCarries ==
    ASSUME NEW record, record.status \notin {"approved", "submitting"}
    PROVE  CarriesApproval(record)
BY DEF CarriesApproval

LEMMA CommandsKeepBound ==
    ASSUME IInv, Bound, NEW o \in Operation, NEW plan \in Plan,
           \/ Prepare(o, plan)
           \/ \E decision \in {"approved", "rejected"} : Decide(o, plan, decision)
           \/ Submit(o, plan)
           \/ Reconcile(o, plan)
    PROVE  Bound'
<1> USE DEF IInv
<1>1. CASE Prepare(o, plan)
  <2>1. Prepared(plan) \in Record /\ CarriesApproval(Prepared(plan))
    BY PreparedIsRecord DEF CarriesApproval
  <2> QED BY <1>1, <2>1, AppendKeepsBound DEF Prepare, Begins, journalVars
<1>2. ASSUME NEW decision \in {"approved", "rejected"}, Decide(o, plan, decision)
      PROVE  Bound'
  <2>1. disk[o] \in Record /\ disk[o].plan = plan
    BY <1>2, DiskRecord DEF Decide, Current
  <2>2. Decided(disk[o], decision, plan) \in Record
    BY <2>1, DecidedIsRecord
  <2>3. CarriesApproval(Decided(disk[o], decision, plan))
    BY <2>1 DEF CarriesApproval, Decided, Successor
  <2> QED BY <1>2, <2>2, <2>3, AppendKeepsBound DEF Decide, Begins, journalVars
<1>3. CASE Submit(o, plan)
  <2>1. disk[o] \in Record /\ disk[o].status = "approved"
    BY <1>3, DiskRecord DEF Submit, CanSubmit, Current
  <2>2. disk[o].approval = [decision |-> "approved", plan |-> disk[o].plan]
    BY <1>3, <2>1 DEF Bound, BoundTo, CarriesApproval, Submit, Current
  <2>3. Moved(disk[o], "submitting") \in Record
    BY <2>1, MovedIsRecord DEF Status, Interrupted
  <2>4. CarriesApproval(Moved(disk[o], "submitting"))
    BY <2>2 DEF CarriesApproval, Moved, Successor
  <2> QED BY <1>3, <2>3, <2>4, AppendKeepsBound DEF Submit, Begins, journalVars
<1>4. CASE Reconcile(o, plan)
  <2>1. disk[o] \in Record
    BY <1>4, DiskRecord DEF Reconcile, Current
  <2>2. /\ Moved(disk[o], "reconciling") \in Record
        /\ CarriesApproval(Moved(disk[o], "reconciling"))
    BY <2>1, MovedIsRecord, OtherStatusCarries DEF Status, Interrupted
  <2> QED BY <1>4, <2>2, AppendKeepsBound DEF Reconcile, Begins, journalVars
<1> QED BY <1>1, <1>2, <1>3, <1>4

\* A replacement changes no other operation's record, and its own to the
\* successor it carries.
LEMMA ReplacementIsLocal ==
    ASSUME IInv, Bound, NEW o \in Operation, NEW verified \in BOOLEAN,
           step[o].at = "replace", Replace(o, step[o].next, verified)
    PROVE  /\ disk'[o] = step[o].next
           /\ step[o].next \in Record
           /\ Follows(o, step[o].next)
           /\ CarriesApproval(step[o].next)
           /\ \A p \in Operation \ {o} : disk'[p] = disk[p]
<1>1. step[o].next \in Record
  BY StepForms DEF IInv, TypeOK
<1>2. loaded[o] = disk
  BY DEF Replace, LoadedIsCurrent, IInv
<1>3. disk' = [disk EXCEPT ![o] = step[o].next]
  BY <1>2 DEF Replace
<1>4. disk'[o] = step[o].next /\ \A p \in Operation \ {o} : disk'[p] = disk[p]
  BY <1>3 DEF IInv, TypeOK, JournalTypeOK, File
<1> QED BY <1>1, <1>4 DEF Bound, BoundTo

LEMMA ReplaceKeepsBound ==
    ASSUME IInv, Bound, NEW o \in Operation, NEW verified \in BOOLEAN, NEW s \in Step,
           step[o].at = "replace",
           Replace(o, step[o].next, verified),
           step' = [step EXCEPT ![o] = s],
           s = Idle \/ (s.at = "permit" /\ s.next = step[o].next)
    PROVE  Bound'
<1>1. step'[o] = s /\ \A p \in Operation \ {o} : step'[p] = step[p]
  BY DEF IInv, TypeOK
<1>2. /\ disk'[o] = step[o].next
      /\ CarriesApproval(step[o].next)
      /\ \A p \in Operation \ {o} : disk'[p] = disk[p]
  BY ReplacementIsLocal
<1>3. BoundTo(o)'
  <2>1. (disk[o] # None => CarriesApproval(disk[o]))'
    BY <1>2 DEF CarriesApproval
  <2>2. step'[o].at \notin {"append", "replace"}
    BY <1>1 DEF Idle
  <2>3. step'[o].at = "permit" => disk'[o] = step'[o].next
    BY <1>1, <1>2 DEF Idle
  <2> QED BY <2>1, <2>2, <2>3 DEF BoundTo
<1>4. ASSUME NEW p \in Operation \ {o} PROVE BoundTo(p)'
  <2>1. disk'[p] = disk[p] /\ step'[p] = step[p] /\ BoundTo(p)
    BY <1>1, <1>2 DEF Bound
  <2> QED BY <2>1 DEF BoundTo, CarriesApproval, Follows, VersionOf
<1> QED BY <1>3, <1>4 DEF Bound

\* The file stays and the command ends, calls, or stays where it is.
LEMMA RestKeepsBound ==
    ASSUME IInv, Bound, disk' = disk,
           \A p \in Operation : step'[p] = step[p] \/ step'[p].at \in {"idle", "called"}
    PROVE  Bound'
<1> SUFFICES ASSUME NEW p \in Operation PROVE BoundTo(p)'
  BY DEF Bound
<1>1. BoundTo(p)
  BY DEF Bound
<1>2. CASE step'[p] = step[p]
  BY <1>1, <1>2 DEF BoundTo, CarriesApproval, Follows, VersionOf
<1>3. CASE step'[p].at \in {"idle", "called"}
  BY <1>1, <1>3 DEF BoundTo, CarriesApproval
<1> QED BY <1>2, <1>3

LEMMA AppendsKeepBound ==
    ASSUME IInv, Bound, NEW o \in Operation,
           LoadNext(o) \/ Committed(o) \/ AppendFails(o) \/ AppendFences(o)
    PROVE  Bound'
<1>1. step \in [Operation -> Step] /\ step[o] \in Step
  BY DEF IInv, TypeOK
<1>2. CASE LoadNext(o)
  <2>1. /\ [step[o] EXCEPT !.at = "replace"].at = "replace"
        /\ [step[o] EXCEPT !.at = "replace"].next = step[o].next
    BY <1>1, <1>2 DEF LoadNext, Step, Steps, Idle
  <2>2. step'[o] = [step[o] EXCEPT !.at = "replace"]
        /\ \A p \in Operation \ {o} : step'[p] = step[p]
    BY <1>1, <1>2 DEF LoadNext
  <2>3. disk' = disk /\ step[o].at = "append" /\ Follows(o, step[o].next)
    BY <1>2 DEF LoadNext, Load, Fits, Follows
  <2>4. BoundTo(o)'
    BY <2>1, <2>2, <2>3 DEF Bound, BoundTo, CarriesApproval, Follows, VersionOf
  <2>5. ASSUME NEW p \in Operation \ {o} PROVE BoundTo(p)'
    BY <2>2, <2>3 DEF Bound, BoundTo, CarriesApproval, Follows, VersionOf
  <2> QED BY <2>4, <2>5 DEF Bound
<1>3. CASE Committed(o)
  <2> DEFINE s == IF step[o].stage = "begin" THEN [step[o] EXCEPT !.at = "permit"] ELSE Idle
  <2>1. s \in Step /\ (s = Idle \/ (s.at = "permit" /\ s.next = step[o].next))
    BY <1>1, <1>3 DEF Committed, Step, Steps, Idle
  <2>2. step' = [step EXCEPT ![o] = s] /\ step[o].at = "replace"
        /\ Replace(o, step[o].next, TRUE)
    BY <1>3 DEF Committed
  <2> HIDE DEF s
  <2> QED BY <2>1, <2>2, ReplaceKeepsBound
<1>4. \A p \in Operation : [step EXCEPT ![o] = Idle][p] = step[p]
                            \/ [step EXCEPT ![o] = Idle][p].at \in {"idle", "called"}
  BY <1>1 DEF Idle
<1>5. CASE AppendFails(o)
  <2>1. disk' = disk /\ step' = [step EXCEPT ![o] = Idle]
    BY <1>5 DEF AppendFails, GivesUp, NotReplaced, journalVars
  <2> QED BY <1>4, <2>1, RestKeepsBound
<1>6. CASE AppendFences(o)
  <2>1. step' = [step EXCEPT ![o] = Idle]
    BY <1>6 DEF AppendFences
  <2>2. CASE UNCHANGED journalVars
    BY <1>4, <2>1, <2>2, RestKeepsBound DEF journalVars
  <2>3. CASE step[o].at = "replace" /\ Replace(o, step[o].next, FALSE)
    BY <2>1, <2>3, ReplaceKeepsBound DEF Step
  <2> QED BY <1>6, <2>2, <2>3 DEF AppendFences
<1> QED BY <1>2, <1>3, <1>5, <1>6

LEMMA BoundStepwise == IInv /\ Bound /\ [Next]_vars => Bound'
<1> SUFFICES ASSUME IInv, Bound, [Next]_vars PROVE Bound'
  OBVIOUS
<1>1. ASSUME NEW o \in Operation, NEW plan \in Plan,
             \/ Prepare(o, plan)
             \/ \E decision \in {"approved", "rejected"} : Decide(o, plan, decision)
             \/ Submit(o, plan)
             \/ Reconcile(o, plan)
      PROVE  Bound'
  BY <1>1, CommandsKeepBound
<1>2. ASSUME NEW o \in Operation,
             LoadNext(o) \/ Committed(o) \/ AppendFails(o) \/ AppendFences(o)
      PROVE  Bound'
  BY <1>2, AppendsKeepBound
<1>3. ASSUME NEW o \in Operation, Call(o)
      PROVE  Bound'
  <2>1. [step[o] EXCEPT !.at = "called"].at = "called"
    BY <1>3 DEF Call, IInv, TypeOK, Step, Steps, Idle
  <2>2. disk' = disk
        /\ \A p \in Operation : step'[p] = step[p] \/ step'[p].at \in {"idle", "called"}
    BY <1>3, <2>1 DEF Call, journalVars, IInv, TypeOK
  <2> QED BY <2>2, RestKeepsBound
<1>4. ASSUME NEW o \in Operation, NEW answer, CreateReturns(o, answer) \/ QueryReturns(o, answer)
      PROVE  Bound'
  <2>1. step[o].next \in Record
    BY <1>4, StepForms DEF IInv, TypeOK, CreateReturns, QueryReturns
  <2>2. PICK next \in Record :
          next.status \notin Undecided \cup {"submitting"} /\ Answered(o, next)
    BY <1>4, <2>1, ResultIsRecord DEF CreateReturns, QueryReturns
  <2>3. CarriesApproval(next)
    BY <2>2, OtherStatusCarries DEF Undecided
  <2> QED BY <2>2, <2>3, AppendKeepsBound DEF Answered, journalVars
<1>5. ASSUME NEW o \in Operation, Recover(o)
      PROVE  Bound'
  <2>1. disk[o] \in Record
    BY <1>5, DiskRecord DEF IInv, Recover, NeedsRecovery
  <2>2. Recovered(disk[o]) \in Record /\ CarriesApproval(Recovered(disk[o]))
    BY <2>1, MovedIsRecord, OtherStatusCarries DEF Recovered, Status, Unresolved
  <2> QED BY <1>5, <2>2, AppendKeepsBound DEF Recover, Begins, journalVars
<1>6. CASE (\E o \in Operation : Arrive(o)) \/ End \/ Open \/ Serve \/ UNCHANGED vars
  <2>1. disk' = disk
        /\ \A p \in Operation : step'[p] = step[p] \/ step'[p].at \in {"idle", "called"}
    BY <1>6 DEF Arrive, End, Open, Serve, JournalClosed, vars, journalVars, Idle
  <2> QED BY <2>1, RestKeepsBound
<1> QED BY <1>1, <1>2, <1>3, <1>4, <1>5, <1>6 DEF Next

LEMMA Boundness == Spec => [](IInv /\ Bound)
<1>1. Init => IInv /\ Bound
  BY Initially, BoundInitially
<1>2. (IInv /\ Bound) /\ [Next]_vars => (IInv /\ Bound)'
  BY Stepwise, BoundStepwise
<1> QED BY <1>1, <1>2, PTL DEF Spec

-----------------------------------------------------------------------------
\* Only Call counts a create.
LEMMA CreatesOnlyByCall ==
    ASSUME [Next]_vars, NEW o \in Operation, creates'[o] # creates[o]
    PROVE  \E p \in Operation : Call(p)
<1>1. CASE UNCHANGED vars
  BY <1>1 DEF vars
<1>2. CASE Next
  BY <1>2 DEF Next, Prepare, Decide, Submit, Reconcile, Begins, LoadNext, Committed,
              AppendFails, GivesUp, AppendFences, Arrive, CreateReturns, QueryReturns,
              Answered, Recover, End, Open, Serve
<1> QED BY <1>1, <1>2

\* docs/specs/0012: the permit is the committed record.  When createIssue is
\* called the file already says submitting, with the approval of its plan.
THEOREM CreatesAreRecorded == Spec => CreateIsRecorded
<1> DEFINE Recorded ==
      \A o \in Operation : creates'[o] # creates[o] =>
        /\ disk[o] # None
        /\ disk[o].status = "submitting"
        /\ disk[o].approval = [decision |-> "approved", plan |-> disk[o].plan]
<1>1. ASSUME IInv, Bound, [Next]_vars PROVE Recorded
  <2> SUFFICES ASSUME NEW o \in Operation, creates'[o] # creates[o]
               PROVE  /\ disk[o] # None
                      /\ disk[o].status = "submitting"
                      /\ disk[o].approval = [decision |-> "approved", plan |-> disk[o].plan]
    OBVIOUS
  <2>1. PICK p \in Operation : Call(p)
    BY <1>1, CreatesOnlyByCall
  <2>2. p = o /\ step[o].at = "permit" /\ step[o].next.status = "submitting"
    BY <1>1, <2>1 DEF Call, IInv, TypeOK
  <2>3. disk[o] = step[o].next
    BY <1>1, <2>2 DEF Bound, BoundTo
  <2>4. disk[o] # None
    BY <1>1, <2>2 DEF IInv, StepFollowsDisk, Spent
  <2>5. CarriesApproval(disk[o])
    BY <1>1, <2>4 DEF Bound, BoundTo
  <2> QED BY <2>2, <2>3, <2>4, <2>5 DEF CarriesApproval
<1>2. ASSUME IInv, Bound, [Next]_vars PROVE [Recorded]_vars
  BY <1>1, <1>2
<1> HIDE DEF Recorded
<1>3. Spec => [][Recorded]_vars
  BY <1>2, Boundness, PTL DEF Spec
<1> QED BY <1>3 DEF CreateIsRecorded, Recorded

\* Only a replacement changes the file.
LEMMA DiskChangesByReplace ==
    ASSUME [Next]_vars, disk' # disk
    PROVE  \E o \in Operation, verified \in BOOLEAN :
              step[o].at = "replace" /\ Replace(o, step[o].next, verified)
<1>1. CASE UNCHANGED vars
  BY <1>1 DEF vars, journalVars
<1>2. ASSUME NEW o \in Operation, Committed(o) \/ AppendFails(o) \/ AppendFences(o)
      PROVE  step[o].at = "replace"
             /\ (Replace(o, step[o].next, TRUE) \/ Replace(o, step[o].next, FALSE))
  BY <1>2 DEF Committed, AppendFails, AppendFences, NotReplaced, journalVars
<1>3. CASE Next
  <2>1. \/ \E o \in Operation : Committed(o) \/ AppendFails(o) \/ AppendFences(o)
        \/ disk' = disk
    BY <1>3 DEF Next, Prepare, Decide, Submit, Reconcile, Begins, LoadNext, Load,
                Call, Arrive, CreateReturns, QueryReturns, Answered, Recover, End, Open,
                Serve, JournalClosed, journalVars
  <2> QED BY <1>2, <2>1
<1> QED BY <1>1, <1>3

\* ADR 0005: no write of one operation undoes a committed record of another,
\* although each replaces the whole file.
THEOREM RecordsAreKept == Spec => RecordsSurvive
<1> DEFINE Kept ==
      \A o \in Operation : disk[o] # None =>
        /\ disk'[o] # None
        /\ disk'[o].plan = disk[o].plan
        /\ disk'[o].version >= disk[o].version
<1>1. ASSUME IInv, Bound, [Next]_vars PROVE Kept
  <2> SUFFICES ASSUME NEW o \in Operation, disk[o] # None
               PROVE  /\ disk'[o] # None
                      /\ disk'[o].plan = disk[o].plan
                      /\ disk'[o].version >= disk[o].version
    OBVIOUS
  <2>1. disk[o].version \in Nat
    BY <1>1, DiskRecord DEF IInv, Record
  <2>2. CASE disk' = disk
    BY <2>1, <2>2
  <2>3. CASE disk' # disk
    <3>1. PICK p \in Operation, verified \in BOOLEAN :
            step[p].at = "replace" /\ Replace(p, step[p].next, verified)
      BY <1>1, <2>3, DiskChangesByReplace
    <3>2. /\ disk'[p] = step[p].next /\ step[p].next # None
          /\ Follows(p, step[p].next)
          /\ \A q \in Operation \ {p} : disk'[q] = disk[q]
      BY <1>1, <3>1, ReplacementIsLocal, NoRecordAssumption
    <3>3. CASE p = o
      BY <2>1, <3>2, <3>3 DEF Follows, VersionOf
    <3>4. CASE p # o
      BY <2>1, <3>2, <3>4
    <3> QED BY <3>3, <3>4
  <2> QED BY <2>2, <2>3
<1>2. ASSUME IInv, Bound, [Next]_vars PROVE [Kept]_vars
  BY <1>1, <1>2
<1> HIDE DEF Kept
<1>3. Spec => [][Kept]_vars
  BY <1>2, Boundness, PTL DEF Spec
<1> QED BY <1>3 DEF RecordsSurvive, Kept

-----------------------------------------------------------------------------
(***************************************************************************)
(* What the file says of the outcome is so.  RecordedOutcomeIsTrue is not    *)
(* inductive: it says nothing of the record a command is about to append.   *)
(* Honest adds that the record being appended is true as well (an issue that *)
(* is there stays there, one that is lost stays lost), that only the first  *)
(* append of a command writes an interrupted status, and that no such       *)
(* status is on disk while a first append runs, so that its failure leaves  *)
(* none behind.                                                            *)
(***************************************************************************)
SaysTrue(fate, record) ==
    /\ record.status \in {"created", "reconciled"} => fate = "present"
    /\ record.status = "failed" => fate = "lost"

Honest(o) ==
    /\ disk[o] # None => SaysTrue(issue[o], disk[o])
    /\ (NeedsRecovery(o) /\ mode = "open" /\ ~fenced) => step[o] # Idle
    /\ step[o].at \in {"append", "replace"} =>
          /\ SaysTrue(issue[o], step[o].next)
          /\ step[o].stage # "begin" => step[o].next.status \notin Interrupted
          /\ step[o].stage \in {"only", "begin"} => ~NeedsRecovery(o)

Honesty == \A o \in Operation : Honest(o)

LEMMA HonestInitially == Init => Honesty
BY DEF Init, JournalInit, Honesty, Honest, NeedsRecovery, Idle

\* Once the fate of an issue is known it does not change.
Fate(o) == issue[o] \in {"present", "lost"} => issue'[o] = issue[o]

LEMMA FateIsFinal ==
    ASSUME IInv, [Next]_vars, NEW p \in Operation
    PROVE  Fate(p)
<1>1. issue \in [Operation -> {"none", "sent", "present", "lost"}]
  BY DEF IInv, TypeOK
<1>2. CASE UNCHANGED vars
  BY <1>2 DEF vars, Fate
<1>3. ASSUME NEW o \in Operation, Call(o) PROVE Fate(p)
  BY <1>1, <1>3 DEF Call, Fate
<1>4. ASSUME NEW o \in Operation, Arrive(o) PROVE Fate(p)
  BY <1>1, <1>4 DEF Arrive, Fate
<1>5. ASSUME NEW o \in Operation, NEW answer, CreateReturns(o, answer) PROVE Fate(p)
  BY <1>1, <1>5 DEF CreateReturns, Fate
<1>6. CASE Next
  <2>1. \/ issue' = issue
        \/ \E o \in Operation :
             \/ Call(o) \/ Arrive(o)
             \/ \E answer \in {"created", "not_dispatched", "none"} : CreateReturns(o, answer)
    BY <1>6 DEF Next, Prepare, Decide, Submit, Reconcile, Begins, LoadNext, Committed,
                AppendFails, GivesUp, AppendFences, QueryReturns, Recover, End, Open, Serve
  <2> QED BY <1>3, <1>4, <1>5, <2>1 DEF Fate
<1> QED BY <1>2, <1>6

\* The operation and its command stay as they are.
LEMMA RestIsHonest ==
    ASSUME NEW p \in Operation, Honest(p), Fate(p),
           disk'[p] = disk[p], step'[p] = step[p],
           mode' = "open" /\ ~fenced' => (mode = "open" /\ ~fenced) \/ ~NeedsRecovery(p)
    PROVE  Honest(p)'
BY DEF Honest, Fate, SaysTrue, NeedsRecovery

\* The command is where it appends nothing; an interrupted record is left to
\* an idle command only when no command is taken.
LEMMA PauseIsHonest ==
    ASSUME NEW p \in Operation, Honest(p), Fate(p),
           disk'[p] = disk[p],
           step'[p].at \notin {"append", "replace"},
           (step'[p] = Idle /\ mode' = "open" /\ ~fenced') => ~NeedsRecovery(p)
    PROVE  Honest(p)'
BY DEF Honest, Fate, SaysTrue, NeedsRecovery

\* The command starts to append a record.
LEMMA AppendIsHonest ==
    ASSUME NEW p \in Operation, Honest(p), Fate(p),
           NEW next \in Record, NEW stage \in {"only", "begin", "result", "recovery"},
           disk'[p] = disk[p], step'[p] = Append(stage, next),
           SaysTrue(issue'[p], next),
           stage # "begin" => next.status \notin Interrupted,
           stage \in {"only", "begin"} => ~NeedsRecovery(p)
    PROVE  Honest(p)'
<1>1. step'[p].next = next /\ step'[p].stage = stage /\ step'[p] # Idle
  BY DEF Append, Idle
<1>2. (disk[p] # None => SaysTrue(issue[p], disk[p]))'
  BY DEF Honest, Fate, SaysTrue
<1>3. NeedsRecovery(p)' <=> NeedsRecovery(p)
  BY DEF NeedsRecovery
<1>4. SaysTrue(issue[p], step[p].next)'
  BY <1>1 DEF SaysTrue
<1> QED BY <1>1, <1>2, <1>3, <1>4 DEF Honest

\* A command begins to append a record that says nothing untrue.
LEMMA BeginningIsHonest ==
    ASSUME IInv, Honesty, NEW o \in Operation, NEW next \in Record,
           NEW stage \in {"only", "begin", "result", "recovery"},
           \A p \in Operation : Fate(p),
           step' = [step EXCEPT ![o] = Append(stage, next)],
           UNCHANGED <<disk, mode, fenced>>,
           SaysTrue(issue'[o], next),
           stage # "begin" => next.status \notin Interrupted,
           stage \in {"only", "begin"} => ~NeedsRecovery(o)
    PROVE  Honesty'
<1>1. step'[o] = Append(stage, next) /\ \A p \in Operation \ {o} : step'[p] = step[p]
  BY DEF IInv, TypeOK
<1>2. Honest(o)'
  BY <1>1, AppendIsHonest DEF Honesty
<1>3. ASSUME NEW p \in Operation \ {o} PROVE Honest(p)'
  BY <1>1, RestIsHonest DEF Honesty
<1> QED BY <1>2, <1>3 DEF Honesty

\* A status that claims no outcome.
LEMMA NothingIsSaid ==
    ASSUME NEW fate, NEW record,
           record.status \notin {"created", "reconciled", "failed"}
    PROVE  SaysTrue(fate, record)
BY DEF SaysTrue

LEMMA CommandsAreHonest ==
    ASSUME IInv, Honesty, [Next]_vars, NEW o \in Operation, NEW plan \in Plan,
           \/ Prepare(o, plan)
           \/ \E decision \in {"approved", "rejected"} : Decide(o, plan, decision)
           \/ Submit(o, plan)
           \/ Reconcile(o, plan)
    PROVE  Honesty'
<1> USE DEF IInv
<1>1. UNCHANGED <<disk, mode, fenced>> /\ ~NeedsRecovery(o)
  <2>1. UNCHANGED <<disk, mode, fenced>>
    BY DEF Prepare, Decide, Submit, Reconcile, Begins, journalVars
  <2>2. mode = "open" /\ ~fenced /\ step[o] = Idle
    BY DEF Prepare, Decide, Submit, Reconcile, Ready
  <2> QED BY <2>1, <2>2 DEF Honesty, Honest
<1>2. \A p \in Operation : Fate(p)
  BY FateIsFinal
<1>3. CASE Prepare(o, plan)
  <2>1. /\ Prepared(plan) \in Record
        /\ Prepared(plan).status = "approval_required"
    BY PreparedIsRecord
  <2>2. SaysTrue(issue'[o], Prepared(plan))
    BY <2>1, NothingIsSaid
  <2> QED BY <1>1, <1>2, <1>3, <2>1, <2>2, BeginningIsHonest DEF Prepare, Begins, Interrupted
<1>4. ASSUME NEW decision \in {"approved", "rejected"}, Decide(o, plan, decision)
      PROVE  Honesty'
  <2>1. disk[o] \in Record
    BY <1>4, DiskRecord DEF Decide, Current
  <2>2. /\ Decided(disk[o], decision, plan) \in Record
        /\ Decided(disk[o], decision, plan).status = decision
    BY <2>1, DecidedIsRecord
  <2>3. SaysTrue(issue'[o], Decided(disk[o], decision, plan))
    BY <2>2, NothingIsSaid
  <2> QED BY <1>1, <1>2, <1>4, <2>2, <2>3, BeginningIsHonest DEF Decide, Begins, Interrupted
<1>5. ASSUME NEW status \in Interrupted, disk[o] # None,
             Begins(o, "begin", Moved(disk[o], status))
      PROVE  Honesty'
  <2>1. disk[o] \in Record
    BY <1>5, DiskRecord
  <2>2. /\ Moved(disk[o], status) \in Record
        /\ Moved(disk[o], status).status = status
    BY <2>1, MovedIsRecord DEF Status
  <2>3. SaysTrue(issue'[o], Moved(disk[o], status))
    BY <2>2, NothingIsSaid DEF Interrupted
  <2> QED BY <1>1, <1>2, <1>5, <2>2, <2>3, BeginningIsHonest DEF Begins
<1>6. CASE Submit(o, plan)
  BY <1>5, <1>6 DEF Submit, Current, Interrupted
<1>7. CASE Reconcile(o, plan)
  BY <1>5, <1>7 DEF Reconcile, Current, Interrupted
<1> QED BY <1>3, <1>4, <1>6, <1>7

\* What the provider's answer makes of a record is true of the issue.
LEMMA AnswersAreHonest ==
    ASSUME IInv, Honesty, [Next]_vars, NEW o \in Operation, NEW answer,
           CreateReturns(o, answer) \/ QueryReturns(o, answer)
    PROVE  Honesty'
<1> USE DEF IInv
<1>1. step[o].next \in Record
  BY StepForms DEF TypeOK, CreateReturns, QueryReturns
<1>2. issue \in [Operation -> {"none", "sent", "present", "lost"}]
  BY DEF TypeOK
<1>3. \A p \in Operation : Fate(p)
  BY FateIsFinal
<1>4. ASSUME NEW status \in {"created", "failed", "outcome_unknown", "reconciled", "reconciliation_absent"},
             Answered(o, Moved(step[o].next, status)),
             status \in {"created", "reconciled"} => issue'[o] = "present",
             status = "failed" => issue'[o] = "lost"
      PROVE  Honesty'
  <2>1. /\ Moved(step[o].next, status) \in Record
        /\ Moved(step[o].next, status).status = status
    BY <1>1, MovedIsRecord DEF Status, Unresolved, Settled
  <2>2. SaysTrue(issue'[o], Moved(step[o].next, status))
    BY <1>4, <2>1 DEF SaysTrue
  <2>3. status \notin Interrupted
    BY DEF Interrupted
  <2> QED BY <1>3, <1>4, <2>1, <2>2, <2>3, BeginningIsHonest DEF Answered, journalVars
<1>5. CASE CreateReturns(o, answer)
  <2>1. /\ answer = "created" => issue'[o] = "present"
        /\ answer = "not_dispatched" => issue'[o] = "lost"
    BY <1>2, <1>5 DEF CreateReturns
  <2>2. Answered(o, SubmissionResult(step[o].next, answer))
    BY <1>5 DEF CreateReturns
  <2> QED BY <1>4, <2>1, <2>2 DEF SubmissionResult
<1>6. CASE QueryReturns(o, answer)
  <2>1. answer = "found" => issue'[o] = "present"
    BY <1>6 DEF QueryReturns
  <2>2. Answered(o, ReconciliationResult(step[o].next, answer))
    BY <1>6 DEF QueryReturns
  <2> QED BY <1>4, <2>1, <2>2 DEF ReconciliationResult
<1> QED BY <1>5, <1>6

LEMMA RecoveryIsHonest ==
    ASSUME IInv, Honesty, [Next]_vars, NEW o \in Operation, Recover(o)
    PROVE  Honesty'
<1>1. disk[o] \in Record
  BY DiskRecord DEF IInv, Recover, NeedsRecovery
<1>2. /\ Recovered(disk[o]) \in Record
      /\ Recovered(disk[o]).status = "outcome_unknown"
  BY <1>1, MovedIsRecord DEF Recovered, Status, Unresolved
<1>3. SaysTrue(issue'[o], Recovered(disk[o]))
  BY <1>2, NothingIsSaid
<1>4. \A p \in Operation : Fate(p)
  BY FateIsFinal
<1> QED BY <1>2, <1>3, <1>4, BeginningIsHonest DEF Recover, Begins, journalVars, Interrupted

\* The record is in place; the command goes on to call or is over.
LEMMA ReplaceIsHonest ==
    ASSUME IInv, Bound, Honesty, NEW o \in Operation, NEW verified \in BOOLEAN, NEW s,
           \A p \in Operation : Fate(p),
           step[o].at = "replace", Replace(o, step[o].next, verified),
           step' = [step EXCEPT ![o] = s],
           s.at \notin {"append", "replace"},
           s = Idle => step[o].stage # "begin" \/ fenced',
           mode' = "open" /\ ~fenced' => mode = "open" /\ ~fenced
    PROVE  Honesty'
<1>1. step'[o] = s /\ \A p \in Operation \ {o} : step'[p] = step[p]
  BY DEF IInv, TypeOK
<1>2. /\ disk'[o] = step[o].next
      /\ \A p \in Operation \ {o} : disk'[p] = disk[p]
  BY ReplacementIsLocal
<1>3. Honest(o)'
  <2>1. (disk[o] # None => SaysTrue(issue[o], disk[o]))'
    BY <1>2 DEF Honesty, Honest, Fate, SaysTrue
  <2>2. (NeedsRecovery(o) /\ mode = "open" /\ ~fenced => step[o] # Idle)'
    BY <1>1, <1>2 DEF Honesty, Honest, NeedsRecovery
  <2> QED BY <1>1, <2>1, <2>2 DEF Honest
<1>4. ASSUME NEW p \in Operation \ {o} PROVE Honest(p)'
  BY <1>1, <1>2, RestIsHonest DEF Honesty
<1> QED BY <1>3, <1>4 DEF Honesty

\* A command ends and the file is as it was.
LEMMA EndingIsHonest ==
    ASSUME IInv, Honesty, NEW o \in Operation,
           \A p \in Operation : Fate(p),
           disk' = disk, step' = [step EXCEPT ![o] = Idle],
           mode' = "open" /\ ~fenced' =>
              mode = "open" /\ ~fenced /\ ~NeedsRecovery(o)
    PROVE  Honesty'
<1>1. step'[o] = Idle /\ \A p \in Operation \ {o} : step'[p] = step[p]
  BY DEF IInv, TypeOK
<1>2. Honest(o)'
  BY <1>1, PauseIsHonest DEF Honesty, Idle
<1>3. ASSUME NEW p \in Operation \ {o} PROVE Honest(p)'
  BY <1>1, RestIsHonest DEF Honesty
<1> QED BY <1>2, <1>3 DEF Honesty

LEMMA AppendsAreHonest ==
    ASSUME IInv, Bound, Honesty, [Next]_vars, NEW o \in Operation,
           LoadNext(o) \/ Committed(o) \/ AppendFails(o) \/ AppendFences(o)
    PROVE  Honesty'
<1>1. step \in [Operation -> Step] /\ step[o] \in Step
  BY DEF IInv, TypeOK
<1>2. \A p \in Operation : Fate(p)
  BY FateIsFinal
<1>3. CASE LoadNext(o)
  <2>1. /\ step'[o].at = "replace" /\ step'[o].next = step[o].next
        /\ step'[o].stage = step[o].stage /\ step'[o] # Idle
        /\ \A p \in Operation \ {o} : step'[p] = step[p]
    BY <1>1, <1>3 DEF LoadNext, Step, Steps, Idle
  <2>2. UNCHANGED <<disk, mode, fenced, issue>> /\ step[o].at = "append"
    BY <1>3 DEF LoadNext, Load, Fits
  <2>3. Honest(o)'
    BY <2>1, <2>2 DEF Honesty, Honest, SaysTrue, NeedsRecovery
  <2>4. ASSUME NEW p \in Operation \ {o} PROVE Honest(p)'
    BY <1>2, <2>1, <2>2, RestIsHonest DEF Honesty
  <2> QED BY <2>3, <2>4 DEF Honesty
<1>4. CASE Committed(o)
  <2> DEFINE s == IF step[o].stage = "begin" THEN [step[o] EXCEPT !.at = "permit"] ELSE Idle
  <2>1. s.at \notin {"append", "replace"} /\ (s = Idle => step[o].stage # "begin")
    BY <1>1, <1>4 DEF Committed, Step, Steps, Idle
  <2>2. step' = [step EXCEPT ![o] = s] /\ step[o].at = "replace"
        /\ Replace(o, step[o].next, TRUE) /\ UNCHANGED <<mode, fenced>>
    BY <1>4 DEF Committed
  <2> HIDE DEF s
  <2> QED BY <1>2, <2>1, <2>2, ReplaceIsHonest
<1>5. CASE AppendFails(o)
  <2>1. disk' = disk /\ step' = [step EXCEPT ![o] = Idle]
        /\ step[o].at \in {"append", "replace"}
    BY <1>5 DEF AppendFails, GivesUp, NotReplaced, journalVars
  <2>2. step[o].stage \in {"only", "begin", "result", "recovery"}
    BY <1>1, <2>1 DEF Step, Steps, Idle
  <2>3. mode' = "open" /\ ~fenced' =>
          mode = "open" /\ ~fenced /\ step[o].stage \in {"only", "begin"}
    BY <1>5, <2>2 DEF AppendFails, GivesUp
  <2>4. step[o].stage \in {"only", "begin"} => ~NeedsRecovery(o)
    BY <2>1 DEF Honesty, Honest
  <2> QED BY <1>2, <2>1, <2>3, <2>4, EndingIsHonest
<1>6. CASE AppendFences(o)
  <2>1. step' = [step EXCEPT ![o] = Idle] /\ fenced' = TRUE
    BY <1>6 DEF AppendFences
  <2>2. CASE UNCHANGED journalVars
    BY <1>2, <2>1, <2>2, EndingIsHonest DEF journalVars
  <2>3. CASE step[o].at = "replace" /\ Replace(o, step[o].next, FALSE)
    <3>1. Idle.at \notin {"append", "replace"}
      BY DEF Idle
    <3> QED BY <1>2, <2>1, <2>3, <3>1, ReplaceIsHonest
  <2> QED BY <1>6, <2>2, <2>3 DEF AppendFences
<1> QED BY <1>3, <1>4, <1>5, <1>6

LEMMA HonestStepwise == IInv /\ Bound /\ Honesty /\ [Next]_vars => Honesty'
<1> SUFFICES ASSUME IInv, Bound, Honesty, [Next]_vars PROVE Honesty'
  OBVIOUS
<1>1. \A p \in Operation : Fate(p)
  BY FateIsFinal
<1>2. ASSUME NEW o \in Operation, NEW plan \in Plan,
             \/ Prepare(o, plan)
             \/ \E decision \in {"approved", "rejected"} : Decide(o, plan, decision)
             \/ Submit(o, plan)
             \/ Reconcile(o, plan)
      PROVE  Honesty'
  BY <1>2, CommandsAreHonest
<1>3. ASSUME NEW o \in Operation,
             LoadNext(o) \/ Committed(o) \/ AppendFails(o) \/ AppendFences(o)
      PROVE  Honesty'
  BY <1>3, AppendsAreHonest
<1>4. ASSUME NEW o \in Operation, Call(o)
      PROVE  Honesty'
  <2>1. step'[o].at = "called" /\ \A p \in Operation \ {o} : step'[p] = step[p]
    BY <1>4 DEF Call, IInv, TypeOK, Step, Steps, Idle
  <2>2. UNCHANGED <<disk, mode, fenced>>
    BY <1>4 DEF Call, journalVars
  <2>3. Honest(o)'
    BY <1>1, <2>1, <2>2, PauseIsHonest DEF Honesty, Idle
  <2>4. ASSUME NEW p \in Operation \ {o} PROVE Honest(p)'
    BY <1>1, <2>1, <2>2, RestIsHonest DEF Honesty
  <2> QED BY <2>3, <2>4 DEF Honesty
<1>5. ASSUME NEW o \in Operation, NEW answer, CreateReturns(o, answer) \/ QueryReturns(o, answer)
      PROVE  Honesty'
  BY <1>5, AnswersAreHonest
<1>6. ASSUME NEW o \in Operation, Recover(o)
      PROVE  Honesty'
  BY <1>6, RecoveryIsHonest
<1>7. CASE (\E o \in Operation : Arrive(o)) \/ Open \/ UNCHANGED vars
  <2>1. /\ UNCHANGED <<disk, step>>
        /\ mode' = "open" /\ ~fenced' => mode = "open" /\ ~fenced
    BY <1>7 DEF Arrive, Open, JournalClosed, vars, journalVars
  <2> QED BY <1>1, <2>1, RestIsHonest DEF Honesty
<1>8. CASE Serve
  <2>1. /\ UNCHANGED <<disk, step>>
        /\ \A p \in Operation : ~NeedsRecovery(p)
    BY <1>8 DEF Serve, journalVars
  <2> QED BY <1>1, <2>1, RestIsHonest DEF Honesty
<1>9. CASE End
  <2>1. disk' = disk /\ mode' = "closed" /\ \A p \in Operation : step'[p] = Idle
    BY <1>9 DEF End, JournalClosed
  <2> QED BY <1>1, <2>1, PauseIsHonest DEF Honesty, Idle
<1> QED BY <1>2, <1>3, <1>4, <1>5, <1>6, <1>7, <1>8, <1>9 DEF Next

\* docs/specs/0012: whatever is lost, late, interrupted or not written, the
\* file never says of a write what is not so, and an interrupted record is
\* never left to a coordinator that takes commands.
THEOREM OutcomesAreTrue == Spec => []RecordedOutcomeIsTrue
<1>1. Init => IInv /\ Bound /\ Honesty
  BY Initially, BoundInitially, HonestInitially
<1>2. (IInv /\ Bound /\ Honesty) /\ [Next]_vars => (IInv /\ Bound /\ Honesty)'
  BY Stepwise, BoundStepwise, HonestStepwise
<1>3. Honesty => RecordedOutcomeIsTrue
  BY DEF Honesty, Honest, SaysTrue, NeedsRecovery, RecordedOutcomeIsTrue
<1> QED BY <1>1, <1>2, <1>3, PTL DEF Spec
-----------------------------------------------------------------------------
(***************************************************************************)
(* What holds of creating and of moving issues holds of both together:     *)
(* every step of the composition is a step of one and leaves the other     *)
(* alone.                                                                  *)
(***************************************************************************)
\* A behaviour of both shows a behaviour of each.
LEMMA CreatingAlone == WritesSpec => Spec
<1>1. WritesInit => Init
  BY DEF WritesInit
<1>2. [WritesNext]_<<vars, moveVars>> => [Next]_vars
  BY DEF WritesNext
<1> QED BY <1>1, <1>2, PTL DEF WritesSpec, Spec

LEMMA MovingAlone == WritesSpec => Lin!Spec
<1>1. WritesInit => Lin!Init
  BY DEF WritesInit
<1>2. [WritesNext]_<<vars, moveVars>> => [Lin!Next]_(Lin!vars)
  BY DEF WritesNext, moveVars, Lin!vars, Lin!journalVars, Lin!localVars, Lin!remoteVars
<1> QED BY <1>1, <1>2, PTL DEF WritesSpec, Lin!Spec

\* The theorems of LinearTransitionProofs, of its instance.
LEMMA MovingIsProved == Lin!Spec => [](Lin!OneUpdate /\ Lin!RecordsAreTrue)
<1>1. Lin!Spec => []Lin!OneUpdate
  BY MoveAssumption, Lin!UpdatedAtMostOnce
<1>2. Lin!Spec => []Lin!RecordsAreTrue
  BY MoveAssumption, Lin!TransitionRecordsAreTrue
<1> QED BY <1>1, <1>2, PTL

\* docs/specs/0012: however often a decision is delivered, and whatever is
\* created meanwhile, updateIssueState is called for it at most once.
THEOREM MovedAtMostOnce == WritesSpec => []OneUpdate
<1>1. OneUpdate <=> Lin!OneUpdate
  BY DEF OneUpdate
<1> QED BY <1>1, MovingAlone, MovingIsProved, PTL

\* Neither journal ever says of its writes what is not so.
THEOREM RecordsStayTrue == WritesSpec => []RecordsAreTrue
<1>1. RecordsAreTrue <=> RecordedOutcomeIsTrue /\ Lin!RecordsAreTrue
  BY DEF RecordsAreTrue
<1> QED BY <1>1, CreatingAlone, OutcomesAreTrue, MovingAlone, MovingIsProved, PTL
=============================================================================
