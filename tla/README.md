# TaskSeal: specifications and proofs

TaskSeal keeps the record of delivered work: a local event journal, rules about
attempts, artifacts, evidence and human acceptance, a host that runs digital
employees, plans that break work down, imports from GitHub, Gitee, Linear and
Feishu, controlled writes to Linear, and a page from which a person decides.
These TLA+ modules describe the parts of it whose correctness depends on the
order in which things happen, and the pure decisions those parts rest on. TLC
checks them on small instances, TLAPS proves some of the results for every
value of the constants.

Paths are relative to the repository's root as found under `src/`: the program
is in `src/src/`, the page in `src/public/`, the documents in `src/docs/`.

1. [Inventory](#inventory)
2. [Modules and the code they stand for](#modules-and-the-code-they-stand-for)
3. [Runs and bounds](#runs-and-bounds)
4. [Where code and documents disagree](#where-code-and-documents-disagree)
5. [Fairness](#fairness)
6. [Proofs](#proofs)
7. [Only model-checked](#only-model-checked)
8. [Not modelled](#not-modelled)
9. [Plan](#plan)

## Inventory

One Node process per workspace serves an HTTP Control Room or runs one CLI
command. It is single-threaded: code runs without interruption between two
`await`s, and everything may happen at an `await`. Several processes may meet
in the same directory, and the process may end anywhere.

| Part | State it keeps | Operations | What is hard about it | What makes it correct |
|---|---|---|---|---|
| Domain core (`domain/workflow.ts`) | work items: attempts, artifacts, evidence, decisions, status, links, title | `applyEvent` for each of the nine events | provider timestamps arrive in any order; facts come before and after a decision | an accepted item is backed by the facts it shows; a basis is decided once; links never go back |
| Service (`application/taskseal-service.ts`) | workflow and import receipts in memory, write queue, fence | `append`, `applySnapshotImport`, `decideAcceptance`, `startAttemptIfIdle`, `recoverRunningAttempts`, `open` | awaits inside a queued operation, writes of unknown outcome, retries, replay | what was answered "committed" is found by every replay; memory never runs ahead of the file |
| Event journal (`storage/event-journal.ts`) | one JSONL file | append a line, replace the file with a batch, read all | an append cut off in the middle | only a torn write makes the file unreadable |
| Control Room lock (`application/control-room-lock.ts`) | one lock file | acquire, reclaim a dead owner's lock, release | several processes between two file system calls | one Control Room per workspace |
| Run coordinator and runner host (`attempt-run-coordinator.ts`, `managed-attempt-runner.ts`) | active runs, deadlines, cleanup fence | start, cancel, shutdown, run | cancel, deadline and answer race; adapters that never stop | capacity, accepted cancels, a fence for leaks, a shutdown that ends |
| Codex runner (`runners/codex-app-server-client.ts`, `codex-runner.ts`, `runner-contract.ts`) | one child process, pending requests, a waiter for the turn | start, handshake, requests, abort, stop | lines in any order, timers, a process that dies by itself | the outcome the server reported, and no process left |
| Controlled writes (`controlled-write-coordinator.ts`, `controlled-write-operation.ts`) | per-operation queues, fence | prepare, approve, reject, submit, reconcile, recovery on open | lost answers, crash between record and call | one create per operation; the record tells the truth |
| Operation journal (`provider-operation-journal.ts` in `application` and `storage`) | one file with the records of all operations | compare and append | the whole file is replaced; the rename may succeed and its confirmation fail; it must recognise a legal next record | no record is lost, and only a transition is accepted |
| Linear transports (`linear-graphql-http-exchange.ts`, `linear-write-transport.ts`, `linear-transition-transport.ts`) | nothing beyond a call | create, query, read, update | deadline, body and late answers race | an answer claims nothing of Linear that is not so |
| Acceptance delivery and Linear transition (`acceptance-delivery-coordinator.ts`, `linear-transition-coordinator.ts`, `linear-acceptance-runtime.ts`) | a coordinator for each operation, per-operation queues | decide, reconcile; prepare, approve, submit, reconcile, get | two systems, no common transaction; several coordinators on one journal | one update per decision; the record tells the truth |
| Decomposition (`decomposition-dispatcher.ts`, `decomposition-plan.ts`, `decomposition-plan-journal.ts`, `decomposition-runtime.ts`) | approved plans, claims on work items | prepare, approve, retire, dispatch, run, accept | claims held across awaits; baselines taken before a queue; retry limits across restarts | plans share no item; nodes run and are accepted in order |
| Provider observations (`provider-observation*.ts`) | the last observation of each target | inspect, preview, apply, record | operations overlap and record when they are done | the newest stays, and what is shown as ready was seen |
| Configuration control (`configuration-*.ts`) | three files, two lock files | inspect, preview, apply | another workspace and people change the same files | a stale plan writes nothing; no lock stays |
| Snapshot import and provenance (`snapshot-import.ts`, `import-plan.ts`, `import-policy.ts`, `provider-*.ts`) | receipts of the service | preview, apply | a plan is applied long after it was made | links and titles move forward; what was applied is represented |
| GitHub reconciliation (`github-delivery-reconciliation.ts`) | none | preview, apply | a pull request moves while it is read | every plan is one revision of the pull request |
| Linear ready work (`linear-ready-work.ts`, `linear-bootstrap-scope.ts`) | none | list, preview, apply | lists and blockers change between pages | only what was ready and unblocked is imported; a repetition gets its receipt |
| Dashboard page (`public/app.js`, `dashboard-state.js`, `provider-state.js`) with the routes of `server.ts` | last snapshot, provider panel, drafts, two request gates, a fence | select, draft, decide, reconcile, run, cancel, poll | answers in any order or none | nothing is decided from a page that was overtaken |
| Readiness, connections, registry, plugins, other pages, CLI, read clients | little or none | reads and views | none that a model reaches | not modelled |

How they interact: the HTTP server takes the lock, then opens the service over
the event journal, then recovers running attempts, then serves. Every change of
a work item is one event, or one batch of an import, through the service's
queue. The run coordinator admits a run and calls the runner host, which appends
the attempt's start and end through the service, drives the adapter in between
and lets the coordinator close the run to cancellation. The dispatcher starts
such runs for the nodes of approved plans and claims work items while it
approves, retires or lets one be accepted. A decision goes through that claim to
the acceptance delivery: first the service, then, for an acceptance, the Linear
transition, which keeps its own records in the operation journal and reads the
work item back from the service before it acts. The page sees all this through
two polled views and sends one command at a time.

`PROJECT.json` lists every component with its status and every hazard with its
line and the properties about it.

## Modules and the code they stand for

An action is one handler, or the part of a handler between two awaits. A digest
stands for the value it is taken of, an identifier is a model value, and
wording, parsing, actors and diagnostic codes are left out unless a property is
about them. Each module says at its head what one step is. A definition whose
comment begins with "Mutant" is not part of the model: it is a plausible mistake
in the definition below it, and shows that a property notices it.

### Work items

**`Workflow`** (operators only) has for each canonical event `CanX`, the checks
of its handler, and `X`, the item it returns, with the handler's own helpers:
`LatestEvidence`, `PreservesDecision`, `StatusOfAttempt`, `ReviewRevision`. A
refused event throws and changes nothing. **`WorkItemLifecycle`** delivers these
events to one item in any order of their timestamps and adds the reviewers:
`OpenReview` remembers the review revision of the page, `DecideAcceptance` is
`TaskSealService.decideAcceptance` with it, `DecideLegacy` the decision of
earlier versions, which in a journal precedes all others. **`ExternalLinks`**
has the events of links and titles and `applyEvent` itself, with its lookup of
processed ids: `Refusal` is the code of the error it throws, `Applied` what it
returns.

**`JournalService`** is the service's queue over the file. `queue` is
`#writeQueue`, `pc` the await an operation stands at, `file` the lines of
`events.jsonl`, `unended` a missing line end. `TakeEvent`/`TakeBatch` run to the
first await, `Verify` and `Probe` are the awaits of an import, `WriteX`,
`WriteXFails` and `WriteXUnknown` the three ends of a write, `Commit` the
adoption of a written candidate. `Reopen` ends the process, may leave on disk
part of what was being written, and replays.

### Runs

**`AttemptRun`** is coordinator and host in one module because they hand one
entry back and forth: `run[w]` is the coordinator's map entry with the host's
position. `Expire`, `Cancel` and `AdapterSettles` race, `Decide` is the
continuation that sees the winner, `CleanupConfirmed`/`CleanupExpires` the two
ends of the grace period, `Release` the removal of the entry. `Restart` is a
process end at any time, `Recover` the recovery of running attempts.
**`AttemptLedger`** is the abstract specification: an attempt is begun, ended
once, and ends interrupted if that was promised (by an accepted cancel, or
because nobody works on it any more). `AttemptRun` implements it under the
mapping in its definition `Ledger`.

**`CodexAppServer`** is what an adapter does in between. `client` holds the
position of `runTurn` and `stop`, the pending requests with their timers, the
waiter for the end of the turn and the abort; `server` what the process may
still say and whether it is alive. A step is one event or the continuation it
wakes (`Continue`); lines of one chunk arrive before any continuation, which is
how the end of a turn can precede the answer that names it. **`RunnerContract`**
has what the host takes for a manifest and for an output.

### Writes to Linear

**`ProviderOperation`** holds of the record of a controlled write what decides
the next step; **`OperationJournal`** the file, the append queue, version check,
record limit and fence. Both are used twice. **`ControlledWrite`** adds the
coordinator: an action per command, up to its append (`Begins`), the append in
two steps (`LoadNext`, then `Committed`, `AppendFails` or `AppendFences`), the
call and the two kinds of answer, `Open`/`Recover`/`Serve` for the recovery. The
provider may take a create that was sent, lose it, and answer anything true
about it or nothing. A command waiting in a queue holds only its input, so its
turn is taken when it begins. An "idempotent" append cannot happen here, since
the queue gives each version one writer; `get` and `history` only read.

**`LinearTransition`** uses the one-step append of `OperationJournal`
(`Appended`). A request walks through prepare, approve and submit, or get and
reconcile, as `AcceptanceDeliveryCoordinator` calls them; `on` is the
coordinator object it uses and `bound` the runtime's map. Opening a coordinator
(`Open`, `Recover`, `Opened`) is part of every prepare and get, as in
`linear-acceptance-runtime.ts`. `Delivering` is the dispatcher's claim: one
delivery at a time for a work item. A Control Room without decompositions has
no dispatcher, `server.ts` calls `decide` at once, and two deliveries of one
item overlap (`Dispatcher` FALSE). Around it, somebody edits the issue
(`Drift`), an import observes it, facts revoke the acceptance, and the process
ends.

**`ProviderWrites`** is both kinds of writes in one Control Room, with steps that
interleave.

**`WriteRecord`** and **`TransitionRecord`** have the two records in full, with
plans, times, approval, submission, reconciliation and diagnostics: what a
transition makes of a record (`Transition`), what can be read again
(`IsOperation`), and what the journal accepts after a record, which it must
derive from two records alone (`Validates`). Their property
`IsProviderOperation` says that records in full take exactly the steps of
`ProviderOperation`, on which the two coordinators rest.

**`LinearTransport`** is one call: fetch, the reader of the body and a timer
race, Linear takes what was sent at any time or never, and the four parsers
decide what an answer is worth. `ControlledWrite` and `LinearTransition` choose
the answers of their calls by what `AnswersAreTrue` says of them.

### Plans, observations, configuration

**`DecompositionPlan`** (operators only) prepares and parses drafts and orders
their nodes, beside a reference definition of an order. **`PlanJournal`** is the
journal of approvals and retirements with its queue, replacement, confirmation
and fence. **`Decomposition`** is the dispatcher over it: claims of approval,
retirement and acceptance, the runs it starts, manual runs, attempt windows and
retry limits, and a restart that forgets the runs.

**`ProviderObservation`** has overlapping operations, what each makes of its
target, the record queue and the file. **`ConfigurationControl`** has three
files, writers in two workspaces, hand edits, the lock files, plans and their
application. **`ControlRoomLock`** has one action per file system call of
acquire, reclaim and release; the content of the lock is its creator, or "empty"
before the record is written.

### Imports

**`ImportPlan`** says what a plan is and which plans an apply takes.
**`SnapshotImport`** makes plans of snapshots of any age and applies them while
the provider's objects, the policy and the workflow move on. **`GitHubDelivery`**
and **`ReadyWork`** make such snapshots: of a pull request with its checks and
reviews, and of an issue that is ready in the scope **`LinearScope`** resolves.

### The page

**`ControlRoomPage`** is the dashboard with the requests it sends. `requests`
holds what is on its way and what was answered and not yet taken; `requestGate`
and `providerRequestGate` number what was asked, `truthFence` is
`AcceptanceTruthFence`, `command` what makes the page busy. The server is
reduced to what the page reads, and may be slower than the page's patience: a
request that was given up may still reach it. `told` and `asked` are history
variables for the properties.

### Composition

The `MC` modules instantiate these for TLC. Components that share state are
composed in one module (`LinearTransition` over `OperationJournal`,
`Decomposition` over `PlanJournal`, `GitHubDelivery` and `ReadyWork` over
`SnapshotImport` over `ExternalLinks` over `Workflow`). Components that share
none are parts of one run: `part` says which of them runs in a behaviour, so
that the sizes of their state spaces add up and do not multiply. `MCWorkspace`
extends the lock and the decompositions, `MCRuntime` the runs, the turn of Codex
and the calls to Linear, `MCProviderWrites` the writes of both kinds and the
page, and they instantiate the others. Other components appear in a module as their promise: a run in `Decomposition` is its
admission, its start and its end, an import in `JournalService` an opaque batch,
the server in `ControlRoomPage` the reviews that stand.

## Runs and bounds

Passing runs:

| Run | Parts and instance | What it shows |
|---|---|---|
| `lifecycle` | one item; 2 attempts, 2 artifacts, 2 revisions, 2 pieces of evidence, 2 decisions, 2 timestamps, 1 reviewer; of the second attempt, artifact id and evidence one in a behaviour | which attempt and artifact are active; what an accepted item stands for; what may end an acceptance; a basis is decided once |
| `run` | *runs*: 2 items, capacity 2 with one attempt each or capacity 1 with two, chosen anew at one restart. *codex*: one turn, three transcripts, one stray line. *journal*: 2 clients, 2 events, one batch, torn and whole lines. *linear*: 2 calls about one issue, 2 places. *page*: 1 item, 2 commands, 2 lost requests | capacity, cancels, the fence with a capacity of one, the ledger; the outcome of a turn and its process; what was committed survives; answers about Linear are true; and everything that is under way ends |
| `provider_writes` | *create*: 2 operations, 2 plans, 12 records. *move*: 1 decision, 2 requests, one edit by others, no dispatcher, 7 records. *createRecord*, *moveRecord*: full records of 2 requests or decisions with 2 attempts at a reconciliation. *page*: 2 items, 2 commands, 2 facts, 1 lost request | one create, one update; the record is there before the call and tells the truth after it; no record is lost, no other is accepted; the page is current, and what is recorded was meant |
| `workspace` | *lock*: 3 processes, each may die at any call. *observations*: 3 operations, 2 targets kept, one restart. *configuration*: 3 writers in 2 workspaces, one hand edit, one crash. *decomposition*: 3 items, 2 plans, 4 requests, one restart. *drafting*: 3 nodes in any order with up to 3 dependencies | a running Control Room keeps its lock until two processes reclaim one stale lock; the newest observation stays; a stale plan of a configuration writes nothing; plans share no item and no attempt, their runs follow them, nodes are accepted in order |
| `imports` | *imports*: objects with up to 3 revisions, 2 items, 1 plan, 3 receipts, 2 policies. *delivery*: 3 versions of a pull request, 3 of a check, 2 of a review. *ready*: 3 issues, pages of one, 2 intakes | what a plan promises its apply keeps; links and titles only move forward; what was applied is represented; a plan holds one revision of a pull request; only ready and unblocked issues come in |

Violations, one property each, explained below: `lock_reclaim_race`,
`run_fence_race`, `journal_no_line_end`, `linear_open_race`, `config_restart`,
`delivery_up_to_date`, `codex_signal`.

### The properties

*Work items.* `ActiveFactsAreNewest`: the active attempt and artifact are the
newest by the rules of the code, whatever the order of delivery.
`AcceptedIsBacked`: an accepted item has a completed attempt, an artifact and
passing latest evidence. `DecisionIsCurrent`: a decision in force is about the
active attempt and, if that succeeded, no older than the active artifact; what
is accepted is the artifact revision that was signed for. `OneDecisionPerBasis`: what was reviewed is decided once, unless
two artifacts tie. `AcceptanceRevokedOnlyByFacts`: an
acceptance ends by another artifact, a changed required outcome or a rejection,
never because an attempt started or ended.

*Runs.* `AdaptersWithinCapacity`: adapters that work, leaked ones included, never
exceed the capacity unless the host is fenced. `AcceptedCancelInterrupts`, `NoDispatchOneAtATime`,
`ImplementsLedger`. `NoProcessIsLeft`: an adapter that has settled left no
process, or said that it did. `TurnDecides`: the outcome is the one the server
reported, unless the turn was aborted or its process died.

*Files.* `AcknowledgedSurvives`: what was answered as committed is found by
every replay. `ServesWhatIsOnDisk`: memory and replay agree, and nothing but a
torn write makes the file unreadable. `RunningOwnsLock`: until two processes
have reclaimed one stale lock, nobody removes the lock of a running Control Room.
`NothingIsOverwritten`, `LocksAreReleased`. `NewestWins`,
`ObservationsAreTrue`. `PlansStayApart`: active plans share no work item, in
memory and in a file that can be opened again, and the window of a plan holds no
attempt of another. `RecordsSurvive`, `JournalAcceptsTransitions`.

*Plans.* `ClaimsAreExclusive` (nobody decides about the items of a waiting
approval or retirement, and nobody runs them around it), `RunsFollowPlans` (dependencies, parallelism and
retry limits), `AcceptedInOrder`, `PlansAreOrdered` (the order is checked
against a reference definition: it exists exactly when the graph has no cycle).

*Linear.* `OneCreate`, `OneUpdate`, `RecordsAreTrue`, `CreateIsRecorded`,
`AnswersAreTrue`.

*Imports.* `PlansReplay`: the events of a plan apply one after the other to the
workflow it was made for. `LinksNeverGoBack`, `TitleFollowsItsSource`,
`AppliedIsRepresented`, `ReceiptAnswers`, `FactsHeldTogether`,
`ReadyWhenImported`.

*The page.* `PageIsCurrent`: what is shown never goes back, and neither a
decision nor a reconciliation is offered from a page that the operator's last
command has overtaken, also when its answer and the refresh after it were lost.
`DecidedAsRead`: a decision is recorded with the reason written for its item, an
id names one review of one item, and who repeats a decision that stands is not
told that it failed.

`EverythingSettles` is the one liveness property, over what is under way in each
part of `run`; see [Fairness](#fairness).

### Why these bounds are enough

The rules of a work item compare a fact with the active attempt, the active
artifact, the latest evidence of a criterion and the current decision, so two of
each, with equal and different timestamps, reach every comparison; a second
criterion or artifact would add cases only where one criterion or artifact is
looked at twice. Three processes at the lock are one that dies, one that
reclaims its lock and dies, and one that reclaims that; or two that reclaim one
lock, which is the race. With two work items and capacities of one and two, a run always
finds the other running, waiting, leaking or gone. Two clients put one operation
in front of another at every await. The records of one operation go through
submit, one reconciliation and its result in six versions, and the limits of 12
and 7 also let the file fill up in the middle. Two plans that share an item, one
with a chain and one with two free nodes that may not run at once, reach every
claim against every other; four requests are two plans' approvals with a
retirement, a run or an acceptance between them. Three nodes are enough for a
cycle, a diamond's half and every tie. Observations keep two targets so that a
third operation meets both. A configuration has one writer beside another in its
workspace and one outside it, since the two lock files differ in exactly that.
The provider's objects of an import have a revision that was planned, one that
came in between, and one that returns to the first's content. The ready part
needs a page boundary (pages of one), a dependency that Linear does not know of
and one that the index does not. The page's two commands are one and its
repetition, or a decision and its reconciliation; the second item is what a
draft may be confused with.

The parts make simplifications of their own:

- *journal* in `run`: only one of the clients imports, and a line never loses
  only its line end (that is `journal_no_line_end`).
- *linear*: the request is one or two units of the limit of one, a body has up
  to two chunks. `not_dispatched` is unreachable for size, since transport and
  exchange have one limit.
- *ready*: what Linear lists and what blocks an issue may be another at every
  read; issue 10 depends on 11 in the index and on {}, {12} or {11, 12} in
  Linear. The command has its own import policy. A dependency on a ticket that
  was not migrated is not in the instance.
- *imports*: some defences repeat each other. Dropping only the comparison of
  the base, or only the domain's comparison of times, breaks no property.
- *page*: one run at a time; the evidence an acceptance needs is there; the
  operator begins when the panel has come; the first poll comes after the first
  request is over, and polls that nothing waits for are not taken
  (`MaxPolls` 0); facts only revoke decisions, since one that comes before a
  decision does to the page what a run does. The state of the server is
  monotone, so the panel never meets a model that is older than its own.
- `lifecycle`: attempts started, artifact ids and pieces of evidence are four
  together (`Small`), so a behaviour has a second of one of them; that the
  properties hold without this bound is proved. Older evidence that changes
  nothing current does not make a review page stale; that is the code's rule.

A constant that only bounds a model says so where it is declared, and so does
`Importer` in `MCRuntime`. The others exist in the code with other values:
`RecordLimit` (512), `PlanLimit`, `MaxNodes`, `MaxEdges`, `MAX_OBSERVATIONS`,
`MAX_CLAIMS`, the page sizes of Linear, `MaxParallelism` and `MaxAttempts` of a
plan, and the capacities `Capacity` and `MaxRuns`. `CHECK_DEADLOCK FALSE` is set
where the bounds, or the system itself, let everything come to rest: a work item
all of whose facts are in, Control Rooms that have stopped, a service that
cannot be reopened. `provider_writes` checks for deadlock: what has come to its
end may stutter, and nothing else may stop.

## Where code and documents disagree

With a run:

1. **Two Control Rooms** (`lock_reclaim_race`). Two processes reclaim the same
   stale lock; the slower one unlinks, by name, the new lock of the faster one.
   `README.md:46` promises that a second instance is refused.
2. **A run is dispatched after the fence** (`run_fence_race`). With a capacity of
   two, a run that passed the check before its first await starts its attempt
   after another run fenced the host; `docs/specs/0022` excludes it. With the
   default capacity of one the property holds (`NoDispatchOneAtATime`).
3. **A lost line end loses a committed event** (`journal_no_line_end`). `append`
   does not add the missing separator that `commitBatch` adds, so the next event
   continues an unended line and both are unreadable.
4. **A live update is recovered** (`linear_open_race`). `docs/specs/0012`
   describes the recovery of leftovers when a process opens its coordinator. The
   runtime opens one for every prepare and lookup, whose recovery moves the
   running update of another request to "outcome unknown". No second update is
   sent (`OneUpdate`), but a confirmed one is reported failed and has to be
   reconciled by hand.
5. **A change of the project asks for no restart** (`config_restart`). The plan
   compares the old document with itself.
6. **A check that failed again is up to date** (`delivery_up_to_date`). Evidence
   is compared without its time, so the second failure is found among the old
   evidence although the workflow holds that the check passed.
7. **A process that a signal ended is waited for** (`codex_signal`). It has no
   exit code, which `stop` takes for a process that lives; the host is fenced
   although nothing is left of it.

Met while modelling, without a run:

- A review basis can be decided twice: when two artifacts of one attempt have
  different ids but one revision and one provider timestamp, each link makes the
  other the active one (`workflow.ts:1022` refuses a tie only of different
  revisions). Linking the second cancels a decision about the first, and linking
  the first again brings back the review revision that was decided.
  `docs/specs/0021`, rule 7, allows one v2 decision of a basis.
  `OneDecisionPerBasis` states exactly this exception.
- The health of Feishu is never recorded as an observation, because the scope of
  an observation knows repositories and teams only; `docs/specs/0007:118` lists
  it.
- After a pull request went from head A to B and back, the plan applied last is
  answered "stale" instead of with its receipt: `findReceiptRetry`
  (`github-delivery-reconciliation.ts:683`) takes the first artifact of that
  revision, whose time of linking is the old one. `docs/specs/0020:126` promises
  an idempotent repetition without network.
- A completed turn whose last message is only white space ends as an invalid
  output (`CompletedTurnCompletes` of `CodexAppServer`): the summary is taken
  for its length and refused for its trimmed length; compare
  `docs/specs/0002:53`.

Documented, and not counted: the single-process assumption of the operation
journal (`docs/specs/0010:119`) and of the event journal (`docs/specs/0004:684`,
`docs/specs/0019:88`; commands that reconcile, import or take in work open a
service of their own), and the window between the last read of an issue and its
update (`docs/research/0004-linear-issue-transition-cas.md:22`).

## Fairness

Safety is checked without fairness. Liveness is checked in the run `run`, for
each part under its own assumptions:

- *runs*: weak fairness of what the host does on its own for each run
  (`Progress`: a timer fires, a file system call returns, a continuation runs)
  and of the end of `allSettled`. Node's event loop justifies it. Nothing is
  assumed of an adapter, which may never settle; the grace period is what ends
  the run.
- *journal*: weak fairness of each client's operation in the queue; every await
  there is a file system call or the verification of an import, which the model
  takes to return. Nothing is assumed about new requests or a reopening.
- *codex*: weak fairness of continuations, of timers (`Expires`) and of the
  answer to `spawn`. Nothing is assumed of the server.
- *linear*: weak fairness of the timer of each call, and of nothing else.
- *page*: weak fairness of the server's handlers over the loopback interface, of
  taking an answer (or hearing that the request was lost, of which there are
  finitely many), and of the two polling timers. Operators need not act.

`EverythingSettles` fails as soon as the grace period may never end, a failed
append blocks the queue, or the end of a turn is missed by its waiter.

## Proofs

| Theorem | Module | Says |
|---|---|---|
| `Typing` | `WorkItemLifecycleProofs` | `Spec => []TypeOK` |
| `AcceptedIsAlwaysBacked` | `WorkItemLifecycleProofs` | `Spec => []AcceptedIsBacked` |
| `AcceptanceEndsOnlyByFacts` | `WorkItemLifecycleProofs` | `Spec => AcceptanceRevokedOnlyByFacts`, an action property |
| `ActiveFactsStayNewest` | `WorkItemLifecycleProofs` | `Spec => []ActiveFactsAreNewest` |
| `DecisionStaysCurrent` | `WorkItemLifecycleProofs` | `Spec => []DecisionIsCurrent` |
| `BasisDecidedOnce` | `WorkItemLifecycleProofs` | `Spec => []OneDecisionPerBasis` |
| `RunsAreTyped` | `RuntimeProofs` | `Spec => []TypeOK` |
| `AdaptersFitCapacity` | `RuntimeProofs` | `Spec => []AdaptersWithinCapacity` |
| `CancelInterrupts` | `RuntimeProofs` | `Spec => AcceptedCancelInterrupts`, an action property |
| `FenceStopsDispatch` | `RuntimeProofs` | `Spec => NoDispatchOneAtATime`, an action property |
| `RunsImplementLedger` | `RuntimeProofs` | `Spec => ImplementsLedger`, the refinement of `AttemptLedger` |
| `SingleControlRoom`, `LockStaysOwned` | `WorkspaceProofs` | `LockSpec => [](ReclaimedOnce => OneControlRoom)` and `[]RunningOwnsLock` |
| `ObserverIsTyped` | `WorkspaceProofs` | `ObsSpec => []ObsTypeOK` |
| `ReadyWasSeen` | `WorkspaceProofs` | `ObsSpec => []ObservationsAreTrue` |
| `NewestIsKept` | `WorkspaceProofs` | `ObsSpec => NewestWins`, an action property |
| `WritersAreTyped` | `WorkspaceProofs` | `ConfSpec => []ConfTypeOK` |
| `LocksAreGivenBack` | `WorkspaceProofs` | `ConfSpec => []LocksAreReleased` |
| `StalePlansWriteNothing` | `WorkspaceProofs` | `ConfSpec => NothingIsOverwritten`, an action property |
| `DispatcherIsTyped` | `DecompositionProofs` | `Spec => []TypeOK` |
| `PlansNeverMeet` | `DecompositionProofs` | `Spec => []PlansStayApart` |
| `ClaimsHold` | `DecompositionProofs` | `Spec => []ClaimsAreExclusive` |
| `RunsHavePlans` | `DecompositionProofs` | `Spec => []RunsFollowPlans` |
| `AcceptanceFollowsDependencies` | `DecompositionProofs` | `Spec => AcceptedInOrder`, an action property |
| `WritesAreTyped` | `ProviderWritesProofs` | `Spec => []TypeOK` |
| `CreatedAtMostOnce` | `ProviderWritesProofs` | `Spec => []OneCreate` |
| `CreatesAreRecorded` | `ProviderWritesProofs` | `Spec => CreateIsRecorded`, an action property |
| `RecordsAreKept` | `ProviderWritesProofs` | `Spec => RecordsSurvive`, an action property |
| `OutcomesAreTrue` | `ProviderWritesProofs` | `Spec => []RecordedOutcomeIsTrue` |
| `TransitionsAreTyped` | `LinearTransitionProofs` | `Spec => []TypeOK`, if `RevisionsArePlans` |
| `UpdatedAtMostOnce` | `LinearTransitionProofs` | `Spec => []OneUpdate`, if `RevisionsArePlans` |
| `TransitionRecordsAreTrue` | `LinearTransitionProofs` | `Spec => []RecordsAreTrue`, if `RevisionsArePlans` |
| `MovedAtMostOnce`, `RecordsStayTrue` | `ProviderWritesProofs` | `WritesSpec => []OneUpdate` and `[]RecordsAreTrue`, of both kinds of writes together |
| `TurnIsTyped` | `RuntimeProofs` | `TurnSpec => []TurnTypeOK` |
| `TurnLeavesNoProcess` | `RuntimeProofs` | `TurnSpec => []NoProcessIsLeft` |
| `TurnEndDecides` | `RuntimeProofs` | `TurnSpec => []TurnDecides` |
| `CallsAreTyped` | `RuntimeProofs` | `TransportSpec => []TransportTypeOK` |
| `AnswersStayTrue` | `RuntimeProofs` | `TransportSpec => []AnswersAreTrue` |
| `JournalInvariant` | `RuntimeProofs` | `JournalSpec => []JournalIInv`, if `NewlineWritten` |
| `AcknowledgedRecordsSurvive` | `RuntimeProofs` | `JournalSpec => []AcknowledgedSurvives`, if `NewlineWritten` |
| `ReadyServiceServesTheFile` | `RuntimeProofs` | `JournalSpec => []ServesWhatIsOnDisk`, if `NewlineWritten` |
| `PageInvariant` | `ControlRoomPageProofs` | `PageSpec => []PageInv` |
| `PageStaysCurrent` | `ControlRoomPageProofs` | `PageSpec => []PageIsCurrent` |
| `DecisionsAreAsRead` | `ControlRoomPageProofs` | `PageSpec => []DecidedAsRead` |
| `LinksOnlyAdvance` | `ImportProofs` | `ImportSpec => LinksNeverGoBack`, an action property, if `NoneIsApart` |
| `AppliedSnapshotsAreRepresented` | `ImportProofs` | `ImportSpec => AppliedIsRepresented`, an action property, if `NoneIsApart` |
| `TitlesFollowTheirSource` | `ImportProofs` | `ImportSpec => []TitleFollowsItsSource`, if `NoneIsApart` |
| `OnlyReadyWorkIsTakenIn` | `ImportProofs` | `ReadySpec => ReadyWhenImported`, an action property |

They hold for every number of attempts, criteria, processes, operations and
plans, under the named assumptions of the modules (that `None` is none of the
values, timestamps are numbers, the required criteria are criteria; for
decompositions `PlanAssumption`, that nodes are work items, wait for nodes of
their own plan and may be attempted once, which is what `DecompositionPlan` lets
through; for a turn of Codex only `StraysAssumption`, that the lines that name no
request are finitely many; for calls `TransportAssumption`, that requests name
issues and places and that `Nothing` is none of the values; for observations
`ObservationAssumption`, that no error is called "configured" or
"snapshot_ready"; for the configuration `ConfigurationAssumption`, that the files
there are at first, and those that people edit, are configuration files; for the
journal `JournalAssumption`, that a batch is a sequence of events and an append
that is cut off leaves nothing, a part, all but the line end or the whole line;
for the page `PageAssumption`, that one item is selected first and that
`Nothing` is neither a number nor a draft; for the imports `ImportAssumption` and
`SnapshotAssumption`, that objects are numbered, their versions dated and issues
titled, that a mapping names an item and finitely many objects, and that a legacy
link others append knows nothing but its object; for the intake
`DependencyAssumption`, which is what the parser of the dependency index lets
through, and `LinearAssumption`, that lists are sequences and what may block an
issue is among Linear's issues). `NoneIsApart` says that `None` is neither a work
item, nor an event, nor an id: no program confuses `null` with a record, but
TLA+ says nothing of the fields of a value it does not know.
`NewlineWritten` excludes
the third of these for the journal's theorems: with it they are false, which is
the third disagreement above and what `journal_no_line_end` shows.

*Work items.* The type lemmas go handler by handler. `AcceptedIsBacked` together
with the type invariant is inductive: an event either keeps the parts
`Acceptable` looks at (active attempt, active artifact, latest evidence), or
leaves the item with a status recomputed from them. The lemmas say which part
each handler keeps.

*Facts and decisions.* `Ordered` is `ActiveFactsAreNewest` with what makes it
inductive: no artifact is there of an attempt that was never started, or a fresh
attempt could begin with one that is older than its own. `Current` is the body of
`DecisionIsCurrent`, inductive over `Ordered`. `Decisions` is what
`OneDecisionPerBasis` needs: every decision with a basis is in force, or past, or
tied in the sense of the exception. It is past when the item has moved on from
what the reviewer was shown (`Past` compares attempt, then artifact, then
evidence), and what is past stays past, because these only grow and the newest
evidence of an artifact is found whatever came in between (`Known`). A new
decision is taken while none is in force, and on the review revision of the item
as it is, which no past decision shows.

*Runs.* `Inv` ties the position of a run to what was selected for it
(`Coherent`: a selection heeds the cancellation before it and locks it out
after), says that memory and journal agree while the service is ready, and that
a run between its two appends has a running attempt.
The refinement follows step by step: an append is the ledger's begin or end, a
step that lets a run be interrupted is its promise, a recovery ends what nobody
works on, and everything else leaves the ledger as it is. `Bounded` adds what the
fence is worth: runs in the map are never more than the capacity, whatever
lingers outside it has raised the fence, and with a capacity of one nobody is
left between admission and dispatch when it is raised. A larger capacity allows
just that, which is the second disagreement above.

*Lock.* Both theorems are about any number of starts, stops, deaths and failed
writes, and about reclaims, up to the point where two processes have reclaimed
one stale lock, or one whose owner's record the process had not read
(`ReclaimedOnce`): from there on both are false, as `lock_reclaim_race` shows.
`OneControlRoom` is not inductive. The invariant adds that whoever is between
creating and removing the lock file is named by it (`HolderNamed`). A reclaim
could break that, since it removes whatever file has the name by now. So the
invariant follows what a reclaiming process knows: a process that has created a
lock file never creates another (`Passed`), hence the owner it read and found in
the file again is the dead one it asked for (`RecheckedDead`), and when it comes
to unlink, the file is still that owner's, or somebody else has reclaimed the
same owner's lock (`UnlinksTheDead`). In the second case its own reclaim is the
second one. `ReclaimedOnce` can only become false, so the invariant need speak of
the states before that.

*Observations.* Neither property speaks of the queue, in which what is true and
new now waits to be recorded later. The invariant says of everything that waits,
and of everything in the file, that its operation says it (`Says`): it is over,
and its scope, its evidence and the time it began are what the observation has.
This is settled for good when the operation ends (`Settled`), whatever the clock,
other operations, failing writes and restarts do in between. `MatchingScope` is
why a ready target is the configured one: a scope that stands in for a target
known by name only is the facade's own, or comes from a Linear client that
refuses other teams. While the head of the queue is being written, what it has
loaded is the file and it still is the newest (`HeadInv`), so the replacement
loses nothing; `AnswerInv` keeps what operations were told true.

*Configuration.* What keeps an update from being lost lies between two steps of
one writer, its last comparison and its replacement, in which others take any
number of theirs. The invariant says that a writer about to replace a file has
compared it and that only a person has changed it since (`BaseStands`). Another
writer cannot, because two that hold their locks have different targets
(`LocksExclude`): the same file is either the user's, then both need the user's
lock, or belongs to one workspace, then both need its lock. For the same reason
nobody's comparison hides an edit that another writer has still to notice. That
the locks are held this long needs that nobody unlinks another's (`OwnLocks`).

*Decompositions.* What memory says of the plans is not enough, since a command
whose write ended unknown leaves the file one write ahead of it. So the invariant
speaks of the records that are active in memory or on file (`Live`): they stay
apart already, the file is memory or what the write at the head of the queue
makes of it (`FileIsAhead`), and every run and attempt of a plan has such a record
behind it (`RunInv`, `AttemptInv`). `ClaimsAreExclusive` is inductive once each
waiting command is backed by its claim and no two are about the same plan
(`BackedInv`): a claim is then released by its own answer only.
The hard part of `PlansStayApart` are the attempts between an approval's baseline
and its write. Those of a person are kept out by the claim. Another plan's are
not: a plan may be submitted while the one it replaces runs. `QueueInv` says why
they do no harm: whoever started them is still active and nothing that waits in
front of the approval retires it (`Hindered`), so the journal will refuse the
approval, unless a retirement came first, and then there are none.
`RunsFollowPlans` counts attempts, not runs: a run that has not begun its attempt
has one left (`CountInv`), and as all attempts of a plan are in its window and
run one after the other, the dispatcher's count is the whole count.
`AcceptedInOrder` needs what an awaited acceptance was granted for to stand until
it is written (`OrderInv`): no plan becomes active or is attempted on it
meanwhile, and what it waits for stays accepted while the process is up.

*Controlled writes.* `OneCreate` says nothing about a command that is about to
call. The invariant ties the right to call to the record: once an operation has
called, or its command holds the permit, its record on disk has left the
undecided statuses for good, and a command that has yet to append "submitting"
has found no call made. This rests on two facts about the journal: the file a
running append loaded is still the file on disk, and a command's append follows
its own operation's record. `CreateIsRecorded` adds that an approval names the
plan of its record; `RecordsSurvive` follows from the facts about the journal
alone. `RecordedOutcomeIsTrue` needs the truth of records that are still to be
appended (`Honest`): they say what the provider's answer showed, and what was
shown stays so (`FateIsFinal`). An interrupted status is written only by the
first append of a command, which goes on to the call, and is never on disk while
a first append runs; so an append that fails either leaves no such record or
fences the coordinator.

*Linear transitions.* Here several coordinators append for one operation, and
what a request carries may have been overtaken. The invariant says what its next
record would mean if it still fits: a record fits only as the successor of the
one on disk, and then it is one that record allows (`Follows`), so "submitting"
fits only where "approved" still stands and an operation past its decision
(`Spent`) never returns. The truth of a record rests on the issue's revisions: an
issue that is still at the planned revision is still ready (`Reached`), so one
that is done has moved on. `RevisionsArePlans` bounds the revisions an issue can
have, by the edits of others and one update per operation, and asks that each is
a plan; `provider_writes` evaluates it for its instance.

*Codex.* Neither property says anything before the turn has ended, while what
decides them happens much earlier: a line, a timer, an abort or the death of the
process settles the waiter or wakes `runTurn`, and `runTurn` comes to it later,
perhaps after more of them. The invariant follows the waiter: it is there before
the turn is asked for, an outcome in it is the one the server reported, and once
the server has reported one nothing but that outcome, another turn's or the
deadline can be in it (`Waiting`). `Awaiting` relates it to what woke `runTurn`: woken
by the waiter, it finds it settled; woken otherwise, it finds no outcome, and none
can come in before it runs, since a failure stops the reading of lines and an
abort or a timer fires outside any chunk. `Asking`, `Rejecting` and
`Knowing` say the same of the answers, of failures and of the name of the turn,
so that a turn ended before it was named is not taken for an answered one.
`Ending` is what stopping keeps: a result only ever changes to "cleanup", and
only "cleanup" is reached with a process alive.

*Calls to Linear.* The invariant pairs each call with the moment Linear took its
request: what is on its way back tells the truth about that moment (`Truthful`;
only errors hide from a reader what is there, and a mutation that is said to have
worked has), and as long as that moment has not come the call claims nothing.
`ResponseAnswer` goes through the four parsers: whatever they take from a whole
response is a `Claim` that `Truthful` backs. Where others put the issue before and
after does not matter, so neither does how many calls there are.

*Journal.* A record is acknowledged long before anybody replays it, and other
records, failed and torn writes and restarts come in between. The invariant says
that the file is readable (`Readable`): it replays without error but for a torn
last line, and holds what was acknowledged once. The head of the queue works
alone on what memory was when it began (`WorkIsFenced`), and memory is the replay
of the file, but for the record that was written and is about to be adopted
(`MemoryFollows`). What a line does to a replay is a step function (`After`), and
a replay is a recursive function over the lines. That it is one, that a replay of
`Append(lines, line)` is the replay of `lines` and then the line, and that two
replays agree as far as their lines do is proved from the well-foundedness of
`Nat` (`InductiveSet`, `RunExists`, `RunsAgree`); from there on no lemma looks
into a replay again.

*Page.* The server is first reduced to one step (`ServerStep`): reviews grow, an
operation is overwritten by later versions of itself and not at all when it is
done, and one request gets an answer that was true when it was given. The
invariant then says of the answers on their way that only that of the newest
request is taken (`Gates`), and that it is newer than all the page was told
(`AnswersAreNews`). What is shown may lag behind only where a fence is up
(`PageFollows`), and the fence is raised together with what it waits for.
`DecidedAsRead` needs that a draft is of a review that was shown and that its id
names that review (`DraftsFollow`, `AskedOnce`); that a repeated request whose
decision stands is not refused needs that the review of a refused one is over
(`Decided`).

*Imports.* A plan is made of a set of events that is put in the canonical order,
and is carried out one event after the other; a snapshot is planned one fact
after the other, each on what the facts before it would leave. So the proofs
begin with lemmas about data: the order of types, times and objects is total on
the events of a plan (`EventsAreOrdered`), what `Sorted` makes of a finite ordered
set is a sequence of all of it in that order (`SortedEvents`), and a recursive
function over the naturals has the values its definition says (`AppliedOneByOne`,
`PlannedOneByOne`). What holds of every event then holds of every plan by
induction on the number of events (`EventsKeepLinks`, `RunFrom`) and on the number
of facts (`FactsLeave`). The invariant says that every plan still is the plan of
its snapshot on its base (`IsPlanned`), and that the plan of an apply at work has
no conflicts and its base is the workflow, which nobody can change meanwhile.

- `LinksOnlyAdvance`: an accepted event keeps every link or advances it
  (`LinkStays`), and this is transitive (`FollowsOn`).
- `AppliedSnapshotsAreRepresented`: what was processed has left a link that was
  read then or later (`Remembered`), however many imports came since. A fact that
  had an event is held by its link afterwards (`EventHolds`), so its second
  preview finds a duplicate or a stale revision. A fact that had none finds its
  object as it was, since no other fact's event is about it.
- `TitlesFollowTheirSource`: several facts of one plan may be of one item, and
  the canonical order puts all updates of titles behind all observations of
  links. An item has at most one link that manages its title (`OneManager`), so
  the updates of a plan that applies are of one title, the last word about it
  (`UpdatesComeLast`). Without an update, either no event touched the managing
  link, or its fact found the title there already, and no other fact moved it
  (`TitleOfPlan`). For this an event of the plan must be new to the workflow, or
  it would be skipped: what was processed has left its link (`UpdatesRemembered`),
  and a fact with such a link has no events.

*Ready work.* What a command knows was read page by page while Linear moved. The
invariant says of a list that is being read what pages that came from the same
lists have shown of it (`Reads`), of a scope that was resolved that every such
list has it (`ScopeFollows`), and of a listing what the property looks at: the
version that was listed, the blockers it really had then, and that an issue that
was found ready has no blocker but those that were answered for as done
(`ReadyIsReallyReady`).

*Both kinds of writes.* A step of `ProviderWrites` is a step of one kind of write
and leaves the other alone, so each theorem carries over. The instance of `LinearTransition` in
`ProviderWrites` is taken from its proof module for that.

## Only model-checked

Left to TLC: liveness, since the prover handles neither fairness arguments nor
`ENABLED` here. Of the safety properties these:

- `JournalAcceptsTransitions` compares the records in full with their abstraction
  by cases over hundreds of combinations of fields, which are finite but for the
  values, and TLC runs through all of them.
- `PlansAreOrdered` is about every graph of dependencies; that an order exists
  when there is no cycle is an induction over the graph for which the library has
  no facts that can be used here.
- `PlansReplay` speaks of the order of a plan's actions, too, which compares four
  keys, and of which rule each action falls under; `ReceiptAnswers` and
  `FactsHeldTogether` compare what a receipt or a claim holds with the object,
  field by field.

There are no recursive operators.

## Not modelled

- Runtime readiness, connection probes, the ticket dry run, the project
  registry, queries and projections: reads that keep no state; a run of them
  has nothing to interleave with.
- Plugin manifests and SDK types, the union of operation schemas, configuration
  parsing, canonical JSON: validation of one document.
- Read clients of GitHub, Gitee, Feishu and Linear: requests, bounds and the
  shape of answers; what becomes of the answers is in the import modules.
- The command line: argument parsing around the components above.
- Other pages, presentation, demo data.

Within the modelled parts: urls, byte limits, encodings, file kinds and inodes;
process ids that are reused; the registry of providers; overrides of the
configuration by environment and command line and the hand-off to a running
instance; `reject` of a Linear transition, which no caller uses; the runtime
without an actor or with Linear disabled, which makes no call; the scopes of
Linear for bootstrap and acceptance; the page's demo mode, its commands on
decomposition plans and its observation cards, and a restart of the server under
an open page. Nothing under `src/` connects the transport for creating issues to
an exchange yet; it is taken to be the HTTP one. A call to Linear that Linear
never answers ends by its timer (`LinearTransport`); in `ControlledWrite` and
`LinearTransition` it keeps its command waiting.

## Plan

Written so far, in this order: work item lifecycle, lock, runs, journal,
controlled writes, Linear transitions, decomposition, observations,
configuration, links and imports, GitHub delivery, ready work, Linear
transports, full records, Codex runner, page; proofs of all of them but the
GitHub delivery and the full records.

Theorems worth proving next: `PlansReplay` and `FactsHeldTogether`, of which the
latter is what the delivery rests on.

Worth modelling next: the commands on decomposition plans of the page, with
their own drafts and fences; the hand-off of a configuration change to a running
instance; an abstract specification of controlled provider writes that both
`ControlledWrite` and `LinearTransition` implement.
