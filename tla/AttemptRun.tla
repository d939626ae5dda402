----------------------------- MODULE AttemptRun -----------------------------
(***************************************************************************)
(* Runs of digital employees: the AttemptRunCoordinator (admission,        *)
(* cancellation, shutdown) and the ManagedAttemptRunner (the host that     *)
(* starts an attempt, races its adapter against deadline and cancellation, *)
(* and appends its end), with the restart that recovers what was running.  *)
(*                                                                         *)
(* A step is what the code does between two awaits.  The journal is        *)
(* reduced to the attempts it holds; an append succeeds, fails, or fences  *)
(* the service with an unknown outcome.                                    *)
(***************************************************************************)
EXTENDS Naturals, Sequences, FiniteSets

CONSTANTS
    WorkItem,
    Capacity,     \* the capacities that may be configured
    MaxAttempts,  \* bound: attempts of a work item, by capacity
    MaxRestarts,  \* bound: restarts of the process
    None

ASSUME CapacityAssumption == Capacity \subseteq Nat \ {0}
ASSUME BoundAssumption == MaxAttempts \in [Capacity -> Nat] /\ MaxRestarts \in Nat

Outcome == {"completed", "failed", "interrupted"}
AttemptStatus == Outcome \cup {"running"}

\* How an adapter's promise settles: an output, an output that does not parse,
\* a rejection, or a rejection that reports an unconfirmed cleanup.
Settled == Outcome \cup {"invalid", "rejected", "cleanupFailed"}

\* An entry of the coordinator's map, with the execution it owns.
Entry ==
    [phase: {"running", "cancelling", "terminalizing"},
     cancelRequested: BOOLEAN,
     pc: {"resolve", "start", "execute", "settle", "finish", "done"},
     selected: {"none", "interrupt", "keep"},
     winner: {"none", "output", "error", "timeout", "cancelled"},
     adapter: Settled \cup {"idle", "running"},
     outcome: Outcome \cup {"none"},
     error: {"none", "fenced", "active", "unavailable", "cwd", "append",
             "cleanup", "cancelled", "timeout", "adapter"}]

ASSUME NoneAssumption == None \notin Entry

VARIABLES
    maxConcurrentRuns,  \* the capacity, configured when the process starts
    run,        \* #activeRuns: the entry of each work item, or None
    accepting,  \* #acceptingRuns
    awaited,    \* the executions shutdown() waits for
    fence,      \* the runner's #cleanupFailure is set
    lingering,  \* work items whose adapter outlived its released run
    attempts,   \* the attempts the service knows
    journal,    \* the attempts that are on disk
    service,    \* "ready", or "fenced" after an append of unknown outcome
    mode,       \* "recovering", "up", "stopping" or "down"
    restarts

vars == <<maxConcurrentRuns, run, accepting, awaited, fence, lingering, attempts, journal,
          service, mode, restarts>>
store == <<attempts, journal, service>>
process == <<maxConcurrentRuns, restarts>>

IsRunning(h) == h # <<>> /\ h[Len(h)] = "running"
Active == {w \in WorkItem : run[w] # None}

NewEntry ==
    [phase |-> "running", cancelRequested |-> FALSE, pc |-> "resolve",
     selected |-> "none", winner |-> "none", adapter |-> "idle",
     outcome |-> "none", error |-> "none"]

Init ==
    /\ maxConcurrentRuns \in Capacity
    /\ run = [w \in WorkItem |-> None]
    /\ accepting = TRUE
    /\ awaited = {}
    /\ fence = FALSE
    /\ lingering = {}
    /\ attempts = [w \in WorkItem |-> <<>>]
    /\ journal = [w \in WorkItem |-> <<>>]
    /\ service = "ready"
    /\ mode = "up"
    /\ restarts = 0

-----------------------------------------------------------------------------
(* The service's append, as the runner sees it.                            *)

Commit(w, h) ==
    /\ service = "ready"
    /\ attempts' = [attempts EXCEPT ![w] = h]
    /\ journal' = [journal EXCEPT ![w] = h]
    /\ UNCHANGED service

AppendFails(w, h) ==
    /\ UNCHANGED attempts
    /\ \/ UNCHANGED <<journal, service>>
       \/ /\ service = "ready"
          /\ service' = "fenced"
          /\ journal' \in {journal, [journal EXCEPT ![w] = h]}

-----------------------------------------------------------------------------
(* The coordinator.                                                        *)

\* Mutant: the capacity is compared with > instead of >=.
HasCapacityOrOneMore == Cardinality(Active) <= maxConcurrentRuns

HasCapacity == Cardinality(Active) < maxConcurrentRuns

\* Mutant: the cleanup fence is not looked at.
RefusalUnfenced(w) ==
    IF service = "fenced" THEN "unavailable"
    ELSE IF IsRunning(attempts[w]) THEN "active" ELSE "none"

\* What run() throws before its first await.
Refusal(w) ==
    IF fence THEN "fenced"
    ELSE IF service = "fenced" THEN "unavailable"
    ELSE IF IsRunning(attempts[w]) THEN "active" ELSE "none"

\* start(): admission and the executor's synchronous part.
Start(w) ==
    /\ mode \in {"up", "stopping"} /\ accepting
    /\ run[w] = None
    /\ HasCapacity
    /\ Len(journal[w]) < MaxAttempts[maxConcurrentRuns]
    /\ run' = [run EXCEPT ![w] =
                [NewEntry EXCEPT !.error = Refusal(w),
                                 !.pc = IF Refusal(w) = "none" THEN "resolve" ELSE "done"]]
    /\ UNCHANGED <<accepting, awaited, fence, lingering, store, mode, process>>

\* The first abort decides a race the adapter has not yet won.
Cancelled(e) ==
    [e EXCEPT !.phase = "cancelling", !.cancelRequested = TRUE,
              !.winner = IF e.pc = "execute" /\ e.winner = "none" THEN "cancelled" ELSE @]

\* cancel(): a repeated cancel changes nothing, one after the terminalization
\* fence is refused with RUN_TERMINALIZING.
Cancel(w) ==
    /\ mode \in {"up", "stopping"}
    /\ run[w] # None /\ run[w].phase = "running"
    /\ run' = [run EXCEPT ![w] = Cancelled(@)]
    /\ UNCHANGED <<accepting, awaited, fence, lingering, store, mode, process>>

\* shutdown() and its abort of every run that is not yet terminalizing
AbortRunning ==
    run' = [w \in WorkItem |->
              IF run[w] # None /\ run[w].phase = "running" THEN Cancelled(run[w]) ELSE run[w]]

Shutdown ==
    /\ mode = "up"
    /\ mode' = "stopping"
    /\ accepting' = FALSE
    /\ awaited' = Active
    /\ AbortRunning
    /\ UNCHANGED <<fence, lingering, store, process>>

\* allSettled over the executions known when it was called; an execution
\* settles when its entry is released.
ShutdownDone ==
    /\ mode = "stopping"
    /\ awaited \cap Active = {}
    /\ mode' = "down"
    /\ UNCHANGED <<run, accepting, awaited, fence, lingering, store, process>>

\* beginTerminalization, called at most once per run by the runner's selection.
Begin(e) ==
    IF e.selected # "none" THEN e
    ELSE [e EXCEPT !.phase = "terminalizing",
                   !.selected = IF e.cancelRequested THEN "interrupt" ELSE "keep"]

\* The entry goes when the execution has settled; an adapter that has not
\* stopped by then runs on outside the capacity.
Release(w) ==
    /\ run[w] # None /\ run[w].pc = "done"
    /\ run' = [run EXCEPT ![w] = None]
    /\ lingering' = IF run[w].adapter = "running" THEN lingering \cup {w} ELSE lingering
    /\ UNCHANGED <<accepting, awaited, fence, store, mode, process>>

-----------------------------------------------------------------------------
(* The managed runner.                                                     *)

At(w, l) == run[w] # None /\ run[w].pc = l

Failed(e, code) == [e EXCEPT !.pc = "done", !.error = code]

\* The working directory is resolved, or is not in the project.
ResolveCwd(w) ==
    /\ At(w, "resolve")
    /\ run' = [run EXCEPT ![w].pc = "start"] \/ run' = [run EXCEPT ![w] = Failed(@, "cwd")]
    /\ UNCHANGED <<accepting, awaited, fence, lingering, store, mode, process>>

\* A signal aborted before the deadline exists has already won the race.
Executing(e) ==
    [e EXCEPT !.pc = "execute", !.adapter = "running",
              !.winner = IF e.cancelRequested THEN "cancelled" ELSE "none"]

CanBegin(w) == ~IsRunning(attempts[w])

\* startAttemptIfIdle, then the deadline and the call of the adapter
StartAttempt(w) ==
    /\ At(w, "start")
    /\ \/ /\ CanBegin(w)
          /\ Commit(w, Append(attempts[w], "running"))
          /\ run' = [run EXCEPT ![w] = Executing(@)]
       \/ /\ CanBegin(w)
          /\ AppendFails(w, Append(attempts[w], "running"))
          /\ run' = [run EXCEPT ![w] = Failed(@, "append")]
       \/ /\ ~CanBegin(w)
          /\ run' = [run EXCEPT ![w] = Failed(@, "active")]
          /\ UNCHANGED store
    /\ UNCHANGED <<accepting, awaited, fence, lingering, mode, process>>

\* The adapter's promise settles, when and how it likes.
AdapterSettles(w) ==
    /\ run[w] # None /\ run[w].adapter = "running"
    /\ \E s \in Settled :
        run' = [run EXCEPT ![w].adapter = s,
                           ![w].winner = IF run[w].winner # "none" THEN @
                                         ELSE IF s \in Outcome \cup {"invalid"} THEN "output"
                                         ELSE "error"]
    /\ UNCHANGED <<accepting, awaited, fence, lingering, store, mode, process>>

LingeringEnds ==
    /\ \E w \in lingering : lingering' = lingering \ {w}
    /\ UNCHANGED <<run, accepting, awaited, fence, store, mode, process>>

\* The deadline's timer: onExpire locks the outcome, then the race is rejected.
Expire(w) ==
    /\ At(w, "execute") /\ run[w].winner = "none"
    /\ run' = [run EXCEPT ![w] = [Begin(@) EXCEPT !.winner = "timeout"]]
    /\ UNCHANGED <<accepting, awaited, fence, lingering, store, mode, process>>

\* The catch block of run(): which end the attempt gets and what is thrown.
Concluded(e, cause) ==
    LET b == Begin(e) IN
    [b EXCEPT !.pc = "finish",
              !.outcome = IF b.selected = "interrupt" THEN "interrupted" ELSE "failed",
              !.error = IF b.selected = "interrupt" /\ cause # "cleanup" THEN "none" ELSE cause]

\* Mutant: an output that arrived before the cancel was seen is kept.
DeliveredFirst(e) ==
    [Begin(e) EXCEPT !.pc = "finish", !.outcome = e.adapter]

\* The normal end of run().
Delivered(e) ==
    LET b == Begin(e) IN
    [b EXCEPT !.pc = "finish",
              !.outcome = IF b.selected = "interrupt" THEN "interrupted" ELSE e.adapter]

\* Mutant: the host is not fenced.
FencedBy(cause) == fence

Fenced(cause) == fence \/ cause = "cleanup"

\* The continuation of the race.
Decide(w) ==
    /\ At(w, "execute")
    /\ \/ /\ run[w].winner = "output" /\ run[w].adapter \in Outcome
          /\ run' = [run EXCEPT ![w] = Delivered(@)]
          /\ UNCHANGED fence
       \/ /\ run[w].winner = "output" /\ run[w].adapter = "invalid"
          /\ run' = [run EXCEPT ![w] = Concluded(@, "adapter")]
          /\ UNCHANGED fence
       \/ LET cause == IF run[w].adapter = "cleanupFailed" THEN "cleanup" ELSE "adapter" IN
          /\ run[w].winner = "error"
          /\ run' = [run EXCEPT ![w] = Concluded(@, cause)]
          /\ fence' = Fenced(cause)
       \/ /\ run[w].winner \in {"timeout", "cancelled"}
          /\ run' = [run EXCEPT ![w] = [Begin(@) EXCEPT !.pc = "settle"]]
          /\ UNCHANGED fence
    /\ UNCHANGED <<accepting, awaited, lingering, store, mode, process>>

\* waitForExecutionSettlement: the adapter stopped within the grace period.
CleanupConfirmed(w) ==
    LET cause == IF run[w].adapter = "cleanupFailed" THEN "cleanup" ELSE run[w].winner IN
    /\ At(w, "settle") /\ run[w].adapter # "running"
    /\ run' = [run EXCEPT ![w] = Concluded(@, cause)]
    /\ fence' = Fenced(cause)
    /\ UNCHANGED <<accepting, awaited, lingering, store, mode, process>>

\* Mutant: the adapter is waited for without a bound.
CleanupNeverExpires(w) == At(w, "settle") /\ run[w].adapter # "running" /\ UNCHANGED vars

CleanupExpires(w) ==
    /\ At(w, "settle") /\ run[w].adapter = "running"
    /\ run' = [run EXCEPT ![w] = Concluded(@, "cleanup")]
    /\ fence' = Fenced("cleanup")
    /\ UNCHANGED <<accepting, awaited, lingering, store, mode, process>>

Ended(h, outcome) == [h EXCEPT ![Len(h)] = outcome]

\* attempt.finished; a failed append leaves the attempt running and is thrown.
Finish(w) ==
    /\ At(w, "finish")
    /\ \/ /\ Commit(w, Ended(attempts[w], run[w].outcome))
          /\ run' = [run EXCEPT ![w].pc = "done"]
       \/ /\ AppendFails(w, Ended(attempts[w], run[w].outcome))
          /\ run' = [run EXCEPT ![w] = Failed(@, "append")]
    /\ UNCHANGED <<accepting, awaited, fence, lingering, mode, process>>

-----------------------------------------------------------------------------
(* Process restart.                                                        *)

\* The process ends, at any time, and starts again from the journal, with the
\* capacity its environment then gives.
Restart ==
    /\ restarts < MaxRestarts
    /\ restarts' = restarts + 1
    /\ maxConcurrentRuns' \in Capacity
    /\ mode' = "recovering"
    /\ run' = [w \in WorkItem |-> None]
    /\ accepting' = TRUE
    /\ awaited' = {}
    /\ fence' = FALSE
    /\ lingering' = {}
    /\ attempts' = journal
    /\ service' = "ready"
    /\ UNCHANGED journal

\* Mutant: what was running is taken for failed.
RecoverAsFailed(w) ==
    /\ mode = "recovering" /\ IsRunning(attempts[w])
    /\ Commit(w, Ended(attempts[w], "failed"))
    /\ UNCHANGED <<run, accepting, awaited, fence, lingering, mode, process>>

\* recoverRunningAttempts, one append per attempt
Recover(w) ==
    /\ mode = "recovering" /\ IsRunning(attempts[w])
    /\ Commit(w, Ended(attempts[w], "interrupted"))
    /\ UNCHANGED <<run, accepting, awaited, fence, lingering, mode, process>>

Serve ==
    /\ mode = "recovering"
    /\ \A w \in WorkItem : ~IsRunning(attempts[w])
    /\ mode' = "up"
    /\ UNCHANGED <<run, accepting, awaited, fence, lingering, store, process>>

-----------------------------------------------------------------------------
\* What the host does on its own once a run is admitted.
Progress(w) ==
    \/ ResolveCwd(w) \/ StartAttempt(w) \/ Expire(w) \/ Decide(w)
    \/ CleanupConfirmed(w) \/ CleanupExpires(w) \/ Finish(w) \/ Release(w)

Next ==
    \/ \E w \in WorkItem :
        Start(w) \/ Cancel(w) \/ Progress(w) \/ AdapterSettles(w) \/ Recover(w)
    \/ Shutdown \/ ShutdownDone \/ LingeringEnds \/ Restart \/ Serve

\* Timers fire, file system calls return and continuations run; nothing is
\* assumed of an adapter, of an operator or of a restart.
Fairness ==
    /\ \A w \in WorkItem : WF_vars(Progress(w))
    /\ WF_vars(ShutdownDone)

Spec == Init /\ [][Next]_vars
FairSpec == Spec /\ Fairness

-----------------------------------------------------------------------------
TypeOK ==
    /\ maxConcurrentRuns \in Capacity
    /\ run \in [WorkItem -> Entry \cup {None}]
    /\ accepting \in BOOLEAN
    /\ awaited \subseteq WorkItem
    /\ fence \in BOOLEAN
    /\ lingering \subseteq WorkItem
    /\ attempts \in [WorkItem -> Seq(AttemptStatus)]
    /\ journal \in [WorkItem -> Seq(AttemptStatus)]
    /\ service \in {"ready", "fenced"}
    /\ mode \in {"recovering", "up", "stopping", "down"}
    /\ restarts \in 0..MaxRestarts

\* docs/specs/0019 acceptance 2, ADR 0013: the adapters at work, those that
\* outlived their run included, never exceed the capacity unless the host is
\* fenced: a leak is never mistaken for a finished cancellation.
AdaptersWithinCapacity ==
    ~fence => Cardinality({w \in Active : run[w].adapter = "running"}) + Cardinality(lingering)
                <= maxConcurrentRuns

\* docs/specs/0019 acceptance 3, 0022 lifecycle 6: an attempt whose
\* cancellation was accepted ends interrupted, never with a late completion.
AcceptedCancelInterrupts ==
    [][\A w \in WorkItem :
        (run[w] # None /\ run[w].cancelRequested /\ IsRunning(journal[w])
            /\ journal'[w] # journal[w])
        => journal'[w] = Ended(journal[w], "interrupted")]_vars

\* The attempt of this run was started and its adapter called.
Owns(w) == run[w] # None /\ run[w].adapter # "idle"

DispatchesUnfenced == fence /\ fence' => \A w \in WorkItem : Len(attempts'[w]) = Len(attempts[w])

\* docs/specs/0022 lifecycle 10: once a cleanup is unconfirmed no attempt is
\* dispatched until the runtime is rebuilt.
NoDispatchAfterFence == [][DispatchesUnfenced]_vars

\* The same at the default capacity: while one run at a time is admitted, a
\* fenced host dispatches nothing.
NoDispatchOneAtATime == [][maxConcurrentRuns = 1 => DispatchesUnfenced]_vars

\* Attempts, seen from the outside: a cancelled run and an attempt without a
\* run (its end could not be written, or the process ended) can only become
\* interrupted.
Ledger == INSTANCE AttemptLedger WITH
    history <- journal,
    promised <- {w \in WorkItem :
                   \/ run[w] # None /\ run[w].cancelRequested
                   \/ ~Owns(w) /\ IsRunning(journal[w])}
ImplementsLedger == Ledger!Spec
=============================================================================
