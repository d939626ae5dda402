--------------------------- MODULE JournalService ---------------------------
(***************************************************************************)
(* The persistent write path: TaskSealService (its serial write queue, its *)
(* in-memory state, import receipts and fence) over FileEventJournal (one  *)
(* line per record, appended events, atomically replaced import batches).  *)
(*                                                                         *)
(* A workflow is the sequence of the events applied to it; that sequence   *)
(* also stands for its digest.  The process may end at any point and is    *)
(* reopened from the file.                                                 *)
(***************************************************************************)
EXTENDS Naturals, Sequences, FiniteSets, SequencesExt

CONSTANTS
    Caller,       \* callers of the service, each with one request at a time
    DirectEvent,  \* events appended one by one
    Importer,     \* bound: the clients that import
    Batch,        \* provider snapshots that are imported
    BatchEvents,  \* [Batch -> Seq of events]
    Needs,        \* what the workflow must hold before an event applies
    PartialWrite, \* what an interrupted append may leave of its line: some of
                  \* "nothing", "part", "allButNewline" and "whole"
    Absent

Event == DirectEvent \cup UNION {ToSet(BatchEvents[b]) : b \in Batch}

ASSUME JournalAssumption ==
    /\ \A b \in Batch : BatchEvents[b] \in Seq(Event)
    /\ PartialWrite \subseteq {"nothing", "part", "allButNewline", "whole"}

VARIABLES
    file,       \* the lines of events.jsonl
    unended,    \* the last line has no line end
    workflow,   \* #state.workflow
    receipts,   \* the plans of #state.receiptsByPlanDigest
    journalMode, \* "ready", "fenced", or "corrupt" when it cannot be reopened
    atomic,     \* the cached answer of the atomic replace probe
    queue,      \* #writeQueue: the clients whose operation has not ended
    pc,         \* where each client's operation is
    request,    \* what each client asked for
    plan,       \* the import plan each client has previewed
    candidate,  \* the workflow an operation computed before it awaits
    acked       \* the requests that were ever answered "committed"

journalVars ==
    <<file, unended, workflow, receipts, journalMode, atomic, queue, pc, request, plan,
      candidate, acked>>
disk == <<file, unended>>
memory == <<workflow, receipts>>

-----------------------------------------------------------------------------
(* The domain and the replay.                                              *)

Applied(wf, e) == e \in ToSet(wf)
Applicable(wf, e) == Needs[e] \subseteq ToSet(wf)

\* The events of a plan: those its base did not have.
PlanEvents(p) ==
    LET events == BatchEvents[p.batch]
        new[n \in 0..Len(events)] ==
            IF n = 0 THEN <<>>
            ELSE IF Applied(p.base, events[n]) THEN new[n - 1] ELSE Append(new[n - 1], events[n])
    IN  new[Len(events)]

EventLine(e) == [kind |-> "event", event |-> e]
BatchLine(p) == [kind |-> "batch", plan |-> p]
Garbage == [kind |-> "garbage"]

\* The line was applied: its event is in the workflow, its plan has a receipt.
Represents(s, line) ==
    IF line.kind = "event" THEN Applied(s.workflow, line.event) ELSE line.plan \in s.receipts

\* One line of the replay in TaskSealService.open; "ok" is no exception so far.
\* An exception ends it: readAll throws at a torn line, open at one that does not
\* apply, and what was read before it is not served (mode "corrupt").
ReplayLine(s, line) ==
    IF ~s.ok \/ line = Garbage THEN [s EXCEPT !.ok = FALSE]
    ELSE IF Represents(s, line) THEN s
    ELSE IF line.kind = "event" /\ Applicable(s.workflow, line.event)
         THEN [s EXCEPT !.workflow = Append(@, line.event)]
    ELSE IF line.kind = "batch" /\ line.plan.base = s.workflow
         THEN [s EXCEPT !.workflow = @ \o PlanEvents(line.plan), !.receipts = @ \cup {line.plan}]
    ELSE [s EXCEPT !.ok = FALSE]

Replay(lines) ==
    LET start == [workflow |-> <<>>, receipts |-> {}, ok |-> TRUE]
        replayed[n \in 0..Len(lines)] ==
            IF n = 0 THEN start ELSE ReplayLine(replayed[n - 1], lines[n])
    IN  replayed[Len(lines)]

JournalInit ==
    /\ file = <<>> /\ unended = FALSE
    /\ workflow = <<>> /\ receipts = {}
    /\ journalMode = "ready" /\ atomic = "unknown"
    /\ queue = <<>>
    /\ pc = [c \in Caller |-> "idle"]
    /\ request = [c \in Caller |-> Absent]
    /\ plan = [c \in Caller |-> Absent]
    /\ candidate = [c \in Caller |-> Absent]
    /\ acked = {}

-----------------------------------------------------------------------------
(* Requests.                                                               *)

\* A client plans an import against the workflow it sees.
Preview(c, b) ==
    /\ journalMode = "ready" /\ pc[c] = "idle"
    /\ plan' = [plan EXCEPT ![c] = [batch |-> b, base |-> workflow]]
    /\ UNCHANGED <<disk, memory, journalMode, atomic, queue, pc, request, candidate, acked>>

\* append(event) and applySnapshotImport(plan) enqueue the operation.
Submit(c, r) ==
    /\ journalMode # "corrupt" /\ pc[c] = "idle"
    /\ request' = [request EXCEPT ![c] = r]
    /\ pc' = [pc EXCEPT ![c] = "queued"]
    /\ queue' = Append(queue, c)
    /\ UNCHANGED <<disk, memory, journalMode, atomic, plan, candidate, acked>>

SubmitEvent(c) == \E e \in DirectEvent : Submit(c, EventLine(e))
SubmitBatch(c) == plan[c] # Absent /\ Submit(c, BatchLine(plan[c]))

\* Mutant: operations are not queued behind each other.
TurnAtOnce(c) == TRUE

\* The operation at the head of #writeQueue runs.
Turn(c) == queue # <<>> /\ Head(queue) = c

\* The operation of c ends with an answer and the next one may run.
EndsWith(c, a) ==
    /\ acked' = IF a = "committed" THEN acked \cup {request[c]} ELSE acked
    /\ pc' = [pc EXCEPT ![c] = "idle"]
    /\ queue' = Tail(queue)
    /\ request' = [request EXCEPT ![c] = Absent]
    /\ candidate' = [candidate EXCEPT ![c] = Absent]
    /\ UNCHANGED plan

Proceed(c, l) ==
    /\ pc' = [pc EXCEPT ![c] = l]
    /\ UNCHANGED <<queue, request, plan, acked>>

Available == journalMode = "ready"

\* enqueueWrite's assertAvailable, when the operation's turn comes
TakeUnavailable(c) ==
    /\ pc[c] = "queued" /\ Turn(c)
    /\ ~Available
    /\ EndsWith(c, "unavailable")
    /\ UNCHANGED <<disk, memory, journalMode, atomic>>

\* appendNow: classification, then the candidate
TakeEvent(c) ==
    /\ pc[c] = "queued" /\ Turn(c) /\ Available
    /\ request[c].kind = "event"
    /\ LET e == request[c].event IN
       \/ Applied(workflow, e) /\ EndsWith(c, "committed")
       \/ ~Applied(workflow, e) /\ ~Applicable(workflow, e) /\ EndsWith(c, "refused")
       \/ /\ ~Applied(workflow, e) /\ Applicable(workflow, e)
          /\ candidate' = [candidate EXCEPT ![c] = Append(workflow, e)]
          /\ Proceed(c, "write")
    /\ UNCHANGED <<disk, memory, journalMode, atomic>>

\* Mutant: the base of the plan is not compared with the workflow.
PlanAppliesAnyway(p) == TRUE

PlanApplies(p) == p.base = workflow

HasReceipt(p) == p \in receipts

\* applySnapshotImportNow up to the verification of provenance; policy,
\* ingress and conflicts may refuse it.
TakeBatch(c) ==
    /\ pc[c] = "queued" /\ Turn(c) /\ Available
    /\ request[c].kind = "batch"
    /\ LET p == request[c].plan IN
       \/ HasReceipt(p) /\ EndsWith(c, "committed")
       \/ ~HasReceipt(p) /\ EndsWith(c, "refused")
       \/ /\ ~HasReceipt(p) /\ PlanApplies(p)
          /\ candidate' = [candidate EXCEPT ![c] = workflow \o PlanEvents(p)]
          /\ Proceed(c, "verify")
    /\ UNCHANGED <<disk, memory, journalMode, atomic>>

\* verifyProviderFactProvenance answers
Verify(c) ==
    /\ pc[c] = "verify"
    /\ \/ EndsWith(c, "refused")
       \/ Proceed(c, "write") /\ UNCHANGED candidate
    /\ UNCHANGED <<disk, memory, journalMode, atomic>>

-----------------------------------------------------------------------------
(* The file.                                                               *)

\* Text written at the end of the file: a line that was not ended swallows it.
Written(line) ==
    IF unended THEN [file EXCEPT ![Len(file)] = Garbage] ELSE Append(file, line)

\* What the file looks like after part of an appended line was written.
Interrupted(line) ==
    \E w \in PartialWrite :
        CASE w = "nothing" -> UNCHANGED disk
          [] w = "part" -> file' = Written(Garbage) /\ unended' = TRUE
          [] w = "allButNewline" -> file' = Written(line) /\ unended' = TRUE
          [] w = "whole" -> file' = Written(line) /\ unended' = FALSE

\* FileEventJournal.append: written, synced and closed
WriteEvent(c) ==
    /\ pc[c] = "write" /\ request[c].kind = "event"
    /\ file' = Written(request[c])
    /\ unended' = FALSE
    /\ Proceed(c, "commit")
    /\ UNCHANGED <<memory, journalMode, atomic, candidate>>

\* Mutant: the client is answered and its operation stays in the queue.
WriteEventFailsBlocking(c) ==
    /\ pc[c] = "write" /\ request[c].kind = "event"
    /\ pc' = [pc EXCEPT ![c] = "idle"]
    /\ UNCHANGED <<disk, memory, journalMode, atomic, queue, request, plan, acked, candidate>>

\* The append fails before it started, which changes nothing ...
WriteEventFails(c) ==
    /\ pc[c] = "write" /\ request[c].kind = "event"
    /\ EndsWith(c, "failed")
    /\ UNCHANGED <<disk, memory, journalMode, atomic>>

\* Mutant: an append that failed half way is a failed append.
WriteEventUnfenced(c) ==
    /\ pc[c] = "write" /\ request[c].kind = "event"
    /\ Interrupted(request[c])
    /\ EndsWith(c, "failed")
    /\ UNCHANGED <<memory, journalMode, atomic>>

\* ... or after it, which fences the service.
WriteEventUnknown(c) ==
    /\ pc[c] = "write" /\ request[c].kind = "event"
    /\ Interrupted(request[c])
    /\ journalMode' = "fenced"
    /\ EndsWith(c, "unknown")
    /\ UNCHANGED <<memory, atomic>>

\* commitBatch rewrites the file, ends the last line if need be, and renames.
Replaced(line) ==
    /\ file' = Append(file, line)
    /\ unended' = FALSE

\* The probe runs once per process; its answer, a failure included, is kept.
Probe(c) ==
    /\ pc[c] = "write" /\ request[c].kind = "batch" /\ atomic = "unknown"
    /\ atomic' \in {"supported", "unsupported"}
    /\ UNCHANGED <<disk, memory, journalMode, queue, pc, request, plan, candidate, acked>>

WriteBatch(c) ==
    /\ pc[c] = "write" /\ request[c].kind = "batch" /\ atomic = "supported"
    /\ Replaced(request[c])
    /\ Proceed(c, "commit")
    /\ UNCHANGED <<memory, journalMode, atomic, candidate>>

\* Not supported, or failed before the rename
WriteBatchFails(c) ==
    /\ pc[c] = "write" /\ request[c].kind = "batch" /\ atomic # "unknown"
    /\ EndsWith(c, "failed")
    /\ UNCHANGED <<disk, memory, journalMode, atomic>>

\* Failed after the rename
WriteBatchUnknown(c) ==
    /\ pc[c] = "write" /\ request[c].kind = "batch" /\ atomic = "supported"
    /\ Replaced(request[c])
    /\ journalMode' = "fenced"
    /\ EndsWith(c, "unknown")
    /\ UNCHANGED <<memory, atomic>>

\* The record is on disk: the candidate becomes the state.
CommitRecord(c) ==
    /\ pc[c] = "commit"
    /\ workflow' = candidate[c]
    /\ receipts' = IF request[c].kind = "batch" THEN receipts \cup {request[c].plan} ELSE receipts
    /\ EndsWith(c, "committed")
    /\ UNCHANGED <<disk, journalMode, atomic>>

-----------------------------------------------------------------------------
(* The process ends and the service is opened again.                       *)

\* An append under way leaves what an interrupted one leaves, a batch all or
\* nothing.
LeftOnDisk ==
    LET writing == {c \in Caller : pc[c] = "write"} IN
    \/ UNCHANGED disk
    \/ \E c \in writing :
        IF request[c].kind = "event" THEN Interrupted(request[c])
        ELSE atomic = "supported" /\ Replaced(request[c])

Reopen ==
    /\ journalMode # "corrupt"
    /\ LeftOnDisk
    /\ LET s == Replay(file') IN
       /\ journalMode' = IF s.ok THEN "ready" ELSE "corrupt"
       /\ workflow' = s.workflow
       /\ receipts' = s.receipts
    /\ atomic' = "unknown"
    /\ queue' = <<>>
    /\ pc' = [c \in Caller |-> "idle"]
    /\ request' = [c \in Caller |-> Absent]
    /\ candidate' = [c \in Caller |-> Absent]
    /\ UNCHANGED <<plan, acked>>

-----------------------------------------------------------------------------
Operation(c) ==
    \/ TakeUnavailable(c) \/ TakeEvent(c) \/ TakeBatch(c) \/ Verify(c)
    \/ WriteEvent(c) \/ WriteEventFails(c) \/ WriteEventUnknown(c)
    \/ Probe(c) \/ WriteBatch(c) \/ WriteBatchFails(c) \/ WriteBatchUnknown(c)
    \/ CommitRecord(c)

JournalNext ==
    \/ \E c \in Caller :
        \/ Operation(c) \/ SubmitEvent(c) \/ SubmitBatch(c)
        \/ c \in Importer /\ \E b \in Batch : Preview(c, b)
    \/ Reopen

JournalSpec == JournalInit /\ [][JournalNext]_journalVars

-----------------------------------------------------------------------------
JournalTypeOK ==
    /\ \A i \in 1..Len(file) : file[i].kind \in {"event", "batch", "garbage"}
    /\ unended \in BOOLEAN
    /\ ToSet(workflow) \subseteq Event
    /\ \A p \in receipts : p.batch \in Batch
    /\ journalMode \in {"ready", "fenced", "corrupt"}
    /\ atomic \in {"unknown", "supported", "unsupported"}
    /\ ToSet(queue) \subseteq Caller
    /\ pc \in [Caller -> {"idle", "queued", "verify", "write", "commit"}]
    /\ \A c \in Caller : pc[c] = "idle" <=> c \notin ToSet(queue)

\* docs/specs/0004, test/taskseal-service.test.ts:27: what was answered
\* "committed" is found again by every later replay of the file.
AcknowledgedSurvives ==
    \A r \in acked : Represents(Replay(file), r)

\* A ready service shows what a reopened one would show; only between a write
\* and the adoption of its candidate is it one record behind.  And retries, lost
\* answers and reopening never write an event or a batch a second time.  A batch
\* line stands where the workflow was the one it was planned against, and an event
\* line where it applies: only a torn write makes a file unreadable.
ServesWhatIsOnDisk ==
    /\ journalMode = "corrupt" => \E i \in 1..Len(file) : file[i].kind = "garbage"
    /\ LET s == Replay(file) IN
       journalMode = "ready" =>
        IF \E c \in Caller : pc[c] = "commit"
        THEN IsStrictPrefix(workflow, s.workflow) \/ (workflow = s.workflow /\ receipts # s.receipts)
        ELSE workflow = s.workflow /\ receipts = s.receipts
    /\ \A i, j \in 1..Len(file) : (i # j /\ file[i].kind # "garbage") => file[i] # file[j]
=============================================================================
