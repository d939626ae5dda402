-------------------------- MODULE LinearTransition --------------------------
(***************************************************************************)
(* From a person's acceptance to the issue's "Done" at Linear:             *)
(* AcceptanceDeliveryCoordinator, the transitions of work items and the    *)
(* issue each is linked to (LinearTransitionCoordinator), and the runtime  *)
(* between them (linear-acceptance-runtime.ts), which opens a coordinator  *)
(* of its own for every prepare and every lookup and keeps it for the      *)
(* operation until the operation was submitted.                            *)
(*                                                                         *)
(* An operation is the decision it is for.  A plan is the revision of the  *)
(* issue the decision was taken on; the rest of the plan is fixed by the   *)
(* work item and its configuration.  A step runs to the next await that    *)
(* waits for a file, the provider or a queue; an append to the operation   *)
(* journal is one step, and a commit that permits the update runs on into  *)
(* the call.  A waiting command holds nothing but its input, so its turn   *)
(* in a coordinator's queue is taken when it begins.                       *)
(***************************************************************************)
EXTENDS OperationJournal

CONSTANTS
    WorkItem,
    ItemOf,       \* the work item an operation's decision is about
    Request,      \* HTTP requests being served
    Coordinator,  \* LinearTransitionCoordinator objects
    Dispatcher,   \* whether this Control Room has a decomposition dispatcher
    MaxDrift      \* bound on the issue revisions made by others

VARIABLES
    mode,      \* "closed", "opening" or "open"
    accepted,  \* the decision each work item is accepted by, or None
    decided,   \* the accepting decisions in the histories of the work items
    observed,  \* revisionId of the lastObservation of each item's link
    remote,    \* the issues at Linear
    sent,      \* the update of each operation: "none", "sent", "landed" or "lost"
    updates,   \* updateIssueState calls made for each operation
    bound,     \* the runtime's coordinator of each operation
    fenced,    \* the coordinators with #reopenRequired
    call       \* what each request does

localVars == <<accepted, decided, observed>>
remoteVars == <<remote, sent>>
vars == <<journalVars, mode, localVars, remoteVars, updates, bound, fenced, call>>

\* Bound: the revisions the instance can reach - MaxDrift by others, one by each
\* update that lands - are plans.
RevisionsArePlans ==
    /\ MaxDrift \in Nat /\ IsFiniteSet(Operation)
    /\ Plan \subseteq Nat /\ 0..(MaxDrift + Cardinality(Operation)) \subseteq Plan
    /\ ItemOf \in [Operation -> WorkItem]

Idle == [at |-> "idle", goal |-> None, op |-> None, plan |-> None, on |-> None,
         todo |-> {}, stage |-> None, target |-> None, next |-> None]

Init ==
    /\ JournalInit
    /\ mode = "closed"
    /\ accepted = [w \in WorkItem |-> None] /\ decided = {}
    /\ observed = [w \in WorkItem |-> 0]
    /\ remote = [w \in WorkItem |-> [state |-> "ready", revision |-> 0]]
    /\ sent = [o \in Operation |-> "none"]
    /\ updates = [o \in Operation |-> 0]
    /\ bound = [o \in Operation |-> None]
    /\ fenced = {}
    /\ call = [r \in Request |-> Idle]

Issue(o) == remote[ItemOf[o]]

MatchesSource(o, plan) == Issue(o).state = "ready" /\ Issue(o).revision = plan
MatchesTarget(o, plan) == Issue(o).state = "done" /\ Issue(o).revision >= plan

\* requireLocalAcceptance and requirePlanAcceptance
IsAccepted(o) == accepted[ItemOf[o]] = o
PlanIsAccepted(o, plan) == IsAccepted(o) /\ observed[ItemOf[o]] = plan

-----------------------------------------------------------------------------
(* How a request goes on.                                                  *)

Goes(r, c) == call' = [call EXCEPT ![r] = c]

\* transitionFor: the coordinator bound to the operation, or a new one
Toward(c, goal, binding) ==
    [c EXCEPT !.goal = goal, !.stage = None, !.target = None, !.next = None,
              !.on = binding[c.op],
              !.at = IF binding[c.op] = None THEN "open" ELSE "command"]

Appending(c, stage, o, next) ==
    [c EXCEPT !.at = "append", !.stage = stage, !.target = o, !.next = next]

\* submit's finally: whatever came of it, the operation is bound no more.
Unbound(c) ==
    IF c.goal = "submit" /\ c.at # "open" /\ c.stage # "recover"
    THEN [bound EXCEPT ![c.op] = None] ELSE bound

\* The request is answered: with an operation or with sync_failed.  `now` are
\* the fenced coordinators; one that nobody refers to any more is forgotten.
EndsWith(r, now) ==
    /\ Goes(r, Idle)
    /\ bound' = Unbound(call[r])
    /\ fenced' = {k \in now : \/ \E o \in Operation : bound'[o] = k
                              \/ \E q \in Request : call'[q].on = k}
    /\ mode' = IF call[r].goal = "serve" THEN "closed" ELSE mode

Ends(r) == EndsWith(r, fenced)
EndsFenced(r) == EndsWith(r, fenced \cup {call[r].on})

-----------------------------------------------------------------------------
(* Requests.                                                               *)

\* #acceptingWorkItemIds of the dispatcher: a delivery of the item is under way.
Delivering(w) ==
    \E q \in Request :
        call[q].goal \in {"prepare", "approve", "submit"} /\ ItemOf[call[q].op] = w

\* decide: the local decision is durable before Linear is looked at.  A decision
\* id that is in the history is answered from it.  Only a dispatcher keeps two
\* deliveries of one item apart: without one the server calls decide at once.
Decide(r, o) ==
    LET w == ItemOf[o] IN
    /\ mode = "open" /\ call[r] = Idle
    /\ Dispatcher => ~Delivering(w)
    /\ o \in decided \/ accepted[w] = None
    /\ accepted' = IF o \in decided THEN accepted ELSE [accepted EXCEPT ![w] = o]
    /\ decided' = decided \cup {o}
    /\ Goes(r, [Idle EXCEPT !.at = "open", !.goal = "prepare", !.op = o])
    /\ UNCHANGED <<journalVars, mode, observed, remoteVars, updates, bound, fenced>>

\* reconcile looks the operation up first, with a coordinator of its own.
AskReconcile(r, o) ==
    /\ mode = "open" /\ call[r] = Idle
    /\ Goes(r, [Idle EXCEPT !.at = "open", !.goal = "get", !.op = o])
    /\ UNCHANGED <<journalVars, mode, localVars, remoteVars, updates, bound, fenced>>

Interrupted3(o) == disk[o] # None /\ disk[o].status \in Interrupted

\* LinearTransitionCoordinator.open up to listLatest, after the configuration
\* was read and the scope resolved
Open(r) ==
    /\ call[r].at = "open" /\ ~journalFenced
    /\ \E k \in Coordinator :
        /\ \A q \in Request : call[q].on # k
        /\ \A o \in Operation : bound[o] # k
        /\ fenced' = fenced \ {k}
        /\ Goes(r, [call[r] EXCEPT !.at = "recover", !.on = k,
                                   !.todo = {o \in Operation : Interrupted3(o)}])
    /\ UNCHANGED <<journalVars, mode, localVars, remoteVars, updates, bound>>

\* One operation of the list: read again, and moved on if still interrupted
Recover(r) ==
    /\ call[r].at = "recover" /\ ~journalFenced
    /\ \E o \in call[r].todo :
        Goes(r, IF Interrupted3(o)
                THEN Appending(call[r], "recover", o, Recovered(disk[o]))
                ELSE [call[r] EXCEPT !.todo = @ \ {o}])
    /\ UNCHANGED <<journalVars, mode, localVars, remoteVars, updates, bound, fenced>>

Opened(r) ==
    /\ call[r].at = "recover" /\ call[r].todo = {}
    /\ IF call[r].goal = "serve"
       THEN mode' = "open" /\ Goes(r, Idle) /\ UNCHANGED bound
       ELSE /\ Goes(r, [call[r] EXCEPT !.at = "command", !.stage = None])
            /\ bound' = IF call[r].goal \in {"prepare", "get"} THEN bound
                        ELSE [bound EXCEPT ![call[r].op] = call[r].on]
            /\ UNCHANGED mode
    /\ UNCHANGED <<journalVars, localVars, remoteVars, updates, fenced>>

-----------------------------------------------------------------------------
(* Commands of a coordinator, up to their first append or call.            *)

\* A coordinator's commands on one operation run one after another; those of
\* different coordinators do not wait for each other.
Busy(q) == call[q].at \in {"source", "append", "called", "readback", "query"}

Begins(r, goal) ==
    /\ call[r].at = "command" /\ call[r].goal = goal
    /\ \A q \in Request \ {r} : Busy(q) => <<call[q].on, call[q].op>> # <<call[r].on, call[r].op>>
    /\ call[r].on \notin fenced /\ ~journalFenced

Keeps == UNCHANGED <<journalVars, localVars, remoteVars, updates>>

Bind(r) == bound' = [bound EXCEPT ![call[r].op] = call[r].on]

Prepare(r) ==
    LET c == [call[r] EXCEPT !.plan = observed[ItemOf[call[r].op]]] IN
    /\ Begins(r, "prepare")
    /\ IsAccepted(c.op)
    /\ \/ /\ disk[c.op] = None
          /\ Goes(r, [c EXCEPT !.at = "source", !.next = Prepared(c.plan)])
          /\ UNCHANGED bound
       \/ /\ disk[c.op] # None /\ disk[c.op].plan = c.plan
          /\ Bind(r)
          /\ Goes(r, Toward(c, "approve", bound'))
    /\ Keeps /\ UNCHANGED <<mode, fenced>>

\* requireCurrent
HasCurrent(c) == disk[c.op] # None /\ disk[c.op].plan = c.plan

Approve(r) ==
    LET c == call[r] IN
    /\ Begins(r, "approve")
    /\ HasCurrent(c)
    /\ \/ /\ disk[c.op].approval # None
          /\ Goes(r, Toward(c, "submit", bound))
       \/ /\ disk[c.op].approval = None
          /\ disk[c.op].status = "approval_required"
          /\ PlanIsAccepted(c.op, c.plan)
          /\ Goes(r, Appending(c, "approve", c.op, Decided(disk[c.op], "approved", c.plan)))
    /\ Keeps /\ UNCHANGED <<mode, bound, fenced>>

Submit(r) ==
    LET c == call[r] IN
    /\ Begins(r, "submit")
    /\ HasCurrent(c)
    /\ disk[c.op].status = "approved"
    /\ PlanIsAccepted(c.op, c.plan)
    /\ Goes(r, [c EXCEPT !.at = "source", !.next = Moved(disk[c.op], "submitting")])
    /\ Keeps /\ UNCHANGED <<mode, bound, fenced>>

Get(r) ==
    LET c == call[r] IN
    /\ Begins(r, "get")
    /\ disk[c.op] # None
    /\ Goes(r, Toward([c EXCEPT !.plan = disk[c.op].plan], "reconcile", bound))
    /\ Keeps /\ UNCHANGED <<mode, bound, fenced>>

Reconcile(r) ==
    LET c == call[r] IN
    /\ Begins(r, "reconcile")
    /\ HasCurrent(c)
    /\ disk[c.op].status \in Unresolved
    /\ Goes(r, Appending(c, "begin", c.op, Moved(disk[c.op], "reconciling")))
    /\ Keeps /\ UNCHANGED <<mode, bound, fenced>>

\* submit or reconcile finds an interrupted record: someone else is at it.
FindsInterrupted(r) ==
    /\ \E goal \in {"submit", "reconcile"} : Begins(r, goal)
    /\ HasCurrent(call[r]) /\ disk[call[r].op].status \in Interrupted
    /\ EndsFenced(r)
    /\ Keeps

\* The fresh read of the issue before it is planned or updated
Source(r) ==
    LET c == call[r] IN
    /\ c.at = "source"
    /\ MatchesSource(c.op, c.plan)
    /\ Goes(r, Appending(c, IF c.goal = "submit" THEN "begin" ELSE "prepare", c.op, c.next))
    /\ Keeps /\ UNCHANGED <<mode, bound, fenced>>

\* Everything that ends a request before its call: nothing to do, a coordinator
\* or journal that is fenced, a record or an acceptance that does not allow it,
\* another plan, a failed read, a source that differs.
Declines(r) ==
    /\ call[r].at \in {"open", "recover", "command", "source"}
    /\ Ends(r)
    /\ Keeps

-----------------------------------------------------------------------------
(* Appends.                                                                *)

\* The record is in the file: what its command does next.
Goon(r) ==
    LET c == call[r] IN
    CASE c.stage = "recover" ->
            /\ Goes(r, [c EXCEPT !.at = "recover", !.todo = @ \ {c.target}])
            /\ UNCHANGED <<mode, bound, fenced>>
      [] c.stage = "prepare" ->
            /\ Bind(r)
            /\ Goes(r, Toward(c, "approve", bound'))
            /\ UNCHANGED <<mode, fenced>>
      [] c.stage = "approve" ->
            /\ Goes(r, Toward(c, "submit", bound))
            /\ UNCHANGED <<mode, bound, fenced>>
      [] c.stage = "result" -> Ends(r)

\* "committed"; of the two commands that go on to the provider, submit calls
\* updateIssueState and reconcile reads the issue.
Committed(r) ==
    LET c == call[r] IN
    /\ c.at = "append"
    /\ Appended(c.target, c.next, TRUE)
    /\ IF c.stage # "begin"
       THEN Goon(r) /\ UNCHANGED <<sent, updates>>
       ELSE IF c.goal = "submit"
       THEN /\ Goes(r, [c EXCEPT !.at = "called"])
            /\ updates' = [updates EXCEPT ![c.op] = @ + 1]
            /\ sent' = [sent EXCEPT ![c.op] = IF @ = "none" THEN "sent" ELSE @]
            /\ UNCHANGED <<mode, bound, fenced>>
       ELSE Goes(r, [c EXCEPT !.at = "query"]) /\ UNCHANGED <<mode, bound, fenced, sent, updates>>
    /\ UNCHANGED <<localVars, remote>>

\* Mutant: an "idempotent" begin of a submission is taken for a permit.
AlreadyThereIsPermit(r) ==
    LET c == call[r] IN
    /\ c.at = "append"
    /\ ~journalFenced /\ disk[c.target] = c.next
    /\ IF c.stage # "begin"
       THEN Goon(r) /\ UNCHANGED updates
       ELSE IF c.goal = "submit"
       THEN /\ Goes(r, [c EXCEPT !.at = "called"])
            /\ updates' = [updates EXCEPT ![c.op] = @ + 1]
            /\ UNCHANGED <<mode, bound, fenced>>
       ELSE EndsFenced(r) /\ UNCHANGED updates
    /\ UNCHANGED <<journalVars, localVars, remoteVars>>

\* The record is in the file already and so, perhaps, is its timestamp:
\* "idempotent" grants no permit; otherwise it is as good as "committed".
AlreadyThere(r) ==
    LET c == call[r] IN
    /\ c.at = "append"
    /\ ~journalFenced /\ disk[c.target] = c.next
    /\ IF c.stage = "begin" THEN EndsFenced(r) ELSE Goon(r)
    /\ Keeps

\* A version or plan conflict, a file that cannot be read, is full or is not
\* replaced; after the provider was called it fences the coordinator.
AppendFails(r) ==
    LET c == call[r] IN
    /\ c.at = "append" /\ ~journalFenced
    /\ IF c.stage = "result" THEN EndsFenced(r) ELSE Ends(r)
    /\ Keeps

\* Commit outcome unknown, or a journal that has to be reopened
AppendFences(r) ==
    LET c == call[r] IN
    /\ c.at = "append"
    /\ (journalFenced /\ UNCHANGED journalVars) \/ Appended(c.target, c.next, FALSE)
    /\ EndsFenced(r)
    /\ UNCHANGED <<localVars, remoteVars, updates>>

-----------------------------------------------------------------------------
(* The provider.                                                           *)

\* projectSubmission: an update that was answered is read back before it counts.
UpdateReturns(r, answer) ==
    LET c == call[r] IN
    /\ c.at = "called"
    /\ answer = "dispatched" => sent[c.op] = "landed"
    /\ answer = "not_dispatched" => sent[c.op] = "sent"
    /\ sent' = [sent EXCEPT ![c.op] = IF answer = "not_dispatched" THEN "lost" ELSE @]
    /\ Goes(r, IF answer = "dispatched" THEN [c EXCEPT !.at = "readback"]
               ELSE Appending(c, "result", c.op, SubmissionResult(c.next, answer)))
    /\ UNCHANGED <<journalVars, mode, localVars, remote, updates, bound, fenced>>

ReadBack(r) ==
    LET c == call[r] IN
    /\ c.at = "readback"
    /\ \E status \in {"transitioned", "outcome_unknown"} :
        /\ status = "transitioned" => MatchesTarget(c.op, c.plan)
        /\ Goes(r, Appending(c, "result", c.op, Moved(c.next, status)))
    /\ Keeps /\ UNCHANGED <<mode, bound, fenced>>

\* projectReconciliation: a failed read and an issue that is neither as planned
\* nor as wanted leave the outcome unknown.
Query(r) ==
    LET c == call[r] IN
    /\ c.at = "query"
    /\ \E answer \in {"found", "absent", "none"} :
        /\ answer = "found" => MatchesTarget(c.op, c.plan)
        /\ answer = "absent" => MatchesSource(c.op, c.plan)
        /\ Goes(r, Appending(c, "result", c.op, ReconciliationResult(c.next, answer)))
    /\ Keeps /\ UNCHANGED <<mode, bound, fenced>>

\* Linear takes the update, or it never arrives.
Land(o) ==
    /\ sent[o] = "sent"
    /\ \/ /\ sent' = [sent EXCEPT ![o] = "landed"]
          /\ remote' = [remote EXCEPT ![ItemOf[o]] =
                            [state |-> "done", revision |-> Issue(o).revision + 1]]
       \/ sent' = [sent EXCEPT ![o] = "lost"] /\ UNCHANGED remote
    /\ UNCHANGED <<journalVars, mode, localVars, updates, bound, fenced, call>>

-----------------------------------------------------------------------------
(* What happens around it.                                                 *)

\* Somebody edits an issue.
Drift(w) ==
    /\ remote[w].revision < MaxDrift
    /\ \E state \in {"ready", "done", "other"} :
        remote' = [remote EXCEPT ![w] = [state |-> state, revision |-> remote[w].revision + 1]]
    /\ UNCHANGED <<journalVars, mode, localVars, sent, updates, bound, fenced, call>>

\* An import refreshes the link's last observation.
Observe(w) ==
    /\ observed[w] # remote[w].revision
    /\ observed' = [observed EXCEPT ![w] = remote[w].revision]
    /\ UNCHANGED <<journalVars, mode, accepted, decided, remoteVars, updates, bound, fenced, call>>

\* New evidence or a new artifact revokes the acceptance.
Revoke(w) ==
    /\ accepted[w] # None
    /\ accepted' = [accepted EXCEPT ![w] = None]
    /\ UNCHANGED <<journalVars, mode, decided, observed, remoteVars, updates, bound, fenced, call>>

\* The process ends, by a crash or to be restarted.
End ==
    /\ mode # "closed"
    /\ JournalClosed
    /\ mode' = "closed"
    /\ bound' = [o \in Operation |-> None]
    /\ fenced' = {}
    /\ call' = [r \in Request |-> Idle]
    /\ UNCHANGED <<localVars, remoteVars, updates>>

\* createLocalLinearAcceptanceRuntime opens a coordinator before it serves.
StartUp(r) ==
    /\ mode = "closed"
    /\ mode' = "opening"
    /\ JournalClosed
    /\ fenced' = {}
    /\ Goes(r, [Idle EXCEPT !.at = "open", !.goal = "serve"])
    /\ UNCHANGED <<localVars, remoteVars, updates, bound>>

-----------------------------------------------------------------------------
Progress(r) ==
    \/ Open(r) \/ Recover(r) \/ Opened(r) \/ Declines(r)
    \/ Prepare(r) \/ Approve(r) \/ Submit(r) \/ Get(r) \/ Reconcile(r) \/ FindsInterrupted(r)
    \/ Source(r) \/ Committed(r) \/ AlreadyThere(r)
    \/ AppendFails(r) \/ AppendFences(r)
    \/ \E answer \in {"dispatched", "not_dispatched", "none"} : UpdateReturns(r, answer)
    \/ ReadBack(r) \/ Query(r)

Next ==
    \/ \E r \in Request :
        \/ Progress(r) \/ StartUp(r)
        \/ \E o \in Operation : Decide(r, o) \/ AskReconcile(r, o)
    \/ \E o \in Operation : Land(o)
    \/ \E w \in WorkItem : Drift(w) \/ Observe(w) \/ Revoke(w)
    \/ End

Spec == Init /\ [][Next]_vars

-----------------------------------------------------------------------------
Call ==
    [at: {"idle", "open", "recover", "command", "source", "append", "called", "readback", "query"},
     goal: {"serve", "prepare", "approve", "submit", "get", "reconcile", None},
     op: Operation \cup {None}, plan: Plan \cup {None}, on: Coordinator \cup {None},
     todo: SUBSET Operation,
     stage: {"recover", "prepare", "approve", "begin", "result", None},
     target: Operation \cup {None}, next: Record \cup {None}]

TypeOK ==
    /\ JournalTypeOK
    /\ mode \in {"closed", "opening", "open"}
    /\ accepted \in [WorkItem -> decided \cup {None}] /\ decided \subseteq Operation
    /\ observed \in [WorkItem -> Plan]
    /\ remote \in [WorkItem -> [state : {"ready", "done", "other"}, revision : Nat]]
    /\ sent \in [Operation -> {"none", "sent", "landed", "lost"}]
    /\ updates \in [Operation -> Nat]
    /\ bound \in [Operation -> Coordinator \cup {None}]
    /\ fenced \subseteq Coordinator
    /\ call \in [Request -> Call]

\* docs/specs/0021, acceptance 6: lost answers, restarts, double clicks and the
\* coordinators they are served by never send a second update for a decision.
OneUpdate == \A o \in Operation : updates[o] <= 1

\* What the file says of the outcome is so: before "submitting" nothing was
\* sent, "failed" will never arrive, and an issue recorded as transitioned or
\* reconciled has moved on from the planned revision.
RecordsAreTrue ==
    \A o \in Operation :
        /\ (disk[o] = None \/ disk[o].status \in Undecided) => sent[o] = "none"
        /\ disk[o] # None =>
            /\ disk[o].status = "failed" => sent[o] = "lost"
            /\ disk[o].status \in {"transitioned", "reconciled"} => Issue(o).revision > disk[o].plan

\* docs/specs/0012:148 opens a coordinator by resolving the leftovers of an
\* earlier one: an operation is not taken for a leftover while a command of
\* another coordinator waits for the provider's answer.
OnlyLeftoversAreRecovered ==
    \A r, q \in Request :
        (/\ call[r].at = "append" /\ call[r].stage = "recover" /\ call[q].op = call[r].target
         /\ call[r].next.version = VersionOf(disk[call[q].op]) + 1)
            => call[q].at \notin {"called", "readback", "query"}
=============================================================================
