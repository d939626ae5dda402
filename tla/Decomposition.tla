--------------------------- MODULE Decomposition ---------------------------
(***************************************************************************)
(* The lifecycle of approved decompositions: the dispatcher of             *)
(* application/decomposition-dispatcher.ts over the plan journal, the runs *)
(* it starts, and the acceptance of nodes and roots.                       *)
(*                                                                         *)
(* The dispatcher keeps claims in memory: an approval, a retirement, an    *)
(* acceptance looks at the claims of the others and at the runs, sets its  *)
(* own, and awaits a write.  A step is what happens between two awaits.    *)
(*                                                                         *)
(* A work item is reduced to what the dispatcher reads of it; Workflow has *)
(* the rules in full.  A run is reduced to its admission, the append of    *)
(* its start and the append of its end; AttemptRun has the rest.  There is *)
(* one registered digital employee, whose profile may change between two   *)
(* processes.  Facts reach the work items only while no Control Room runs: *)
(* imports are commands of the CLI, which takes the same lock.             *)
(***************************************************************************)
EXTENDS PlanJournal

LOCAL INSTANCE Functions

CONSTANTS
    DependsOn,       \* DependsOn[p][w]: the nodes node w of plan p waits for
    Order,           \* Order[p]: the topological order of the plan
    MaxParallelism,  \* of each plan
    MaxAttempts,     \* of the retry policy of each plan's nodes
    MaxRuns,         \* capacity of the attempt run coordinator
    MaxHistory,      \* bound: attempts of all work items
    MaxRequests,     \* bound: commands and imports
    MaxRestarts      \* bound: restarts of the process

\* Whatever a plan was prepared or parsed from, its nodes are work items and wait
\* only for each other (DecompositionPlan), and a node may be attempted once.
PlansAreWellFormed ==
    /\ IsFiniteSet(WorkItem)
    /\ Root \in [Plan -> WorkItem] /\ Node \in [Plan -> SUBSET WorkItem]
    /\ \A p \in Plan : \A w \in Node[p] : DependsOn[p][w] \subseteq Node[p]
    /\ MaxParallelism \in [Plan -> Nat] /\ MaxAttempts \in [Plan -> Nat \ {0}]
    /\ PlanLimit \in Nat \ {0} /\ MaxRuns \in Nat
    /\ MaxRequests \in Nat /\ MaxRestarts \in Nat
    /\ {"person", "elsewhere"} \cap Plan = {}
    /\ None # "accepted"

ASSUME PlanAssumption == PlansAreWellFormed

Outcome == {"completed", "failed", "interrupted"}

\* Who started an attempt: a plan, a person, or another tool whose attempts
\* are imported.  Plans and persons run the registered employee.
Starter == Plan \cup {"person", "elsewhere"}

\* by: who started each attempt; active, status: the active attempt and how
\* it is doing; gate: whether its artifact has the evidence it needs;
\* decision: the decision on it (Workflow: a decision in force is always on
\* the active attempt).
Item == [by: Seq(Starter), active: Nat, status: Outcome \cup {"running", None},
         gate: {"open", "passed", "failed"}, decision: {"accepted", "rejected", None}]

Run == [by: Plan \cup {"person"}, started: BOOLEAN]

\* A decision that is awaited, and what its review page showed (Page).
Review == [verdict: {"accepted", "rejected"}, page: Nat \X (Outcome \cup {"running", None})]

VARIABLES
    item,       \* the work items
    run,        \* the coordinator's runs, None where there is none
    approving,  \* #approvingWorkItemIdsByPlanId: the plans whose items it claims
    retiring,   \* #retiringPlanIds
    releasing,  \* #retiringWorkItemIdsByPlanId: the plans whose items it claims
    accepting,  \* #acceptingWorkItemIds: the decision that is awaited, or None
    profile,    \* revision of the registered employee's profile
    up,
    requests,
    restarts

claims == <<approving, retiring, releasing>>
process == <<profile, up, restarts>>
vars == <<journal, item, run, claims, accepting, process, requests>>

Requested ==
    /\ requests < MaxRequests
    /\ requests' = requests + 1

NewItem == [by |-> <<>>, active |-> 0, status |-> None, gate |-> "open", decision |-> None]

\* A journal may hold an approval from before there were baselines.
Init ==
    /\ disk \in {[records |-> legacy, retired |-> {}] :
                    legacy \in {{}} \cup {{Approval(p, 1, None)} : p \in Plan}}
    /\ records = disk.records /\ retired = {}
    /\ queue = <<>> /\ replaced = FALSE /\ health = "ready"
    /\ item = [w \in WorkItem |-> NewItem]
    /\ run = [w \in WorkItem |-> None]
    /\ approving = {} /\ retiring = {} /\ releasing = {}
    /\ accepting = [w \in WorkItem |-> None]
    /\ profile = 1 /\ up = TRUE /\ restarts = 0 /\ requests = 0

-----------------------------------------------------------------------------
(* What the dispatcher reads of a work item.                               *)

HasActive(w) == item[w].active # 0
IsRunning(w) == item[w].status = "running"
IsAccepted(w) == item[w].decision = "accepted"

\* resolvePlanAttemptWindow: the attempts after the approval's baseline.
Window(r, w) == {i \in DOMAIN item[w].by : i > r.baselines[w]}

\* findActivePlanAttempt: the active attempt, if the plan's window has it.
HasPlanAttempt(r, w) == HasActive(w) /\ item[w].active \in Window(r, w)

OwnerMatches(r) == r.revision = profile
ByOwner(w) == item[w].by[item[w].active] # "elsewhere"

\* isPlanNodeAccepted
NodeAccepted(r, w) ==
    /\ r.baselines # None
    /\ IsAccepted(w)
    /\ OwnerMatches(r)
    /\ HasPlanAttempt(r, w)
    /\ ByOwner(w)
    /\ item[w].status = "completed"

DependenciesAccepted(r, w) == \A d \in DependsOn[r.plan][w] : NodeAccepted(r, d)

\* Mutant: the limit is noticed one attempt late.
RetryExhaustedLate(r, w) == Cardinality(Window(r, w)) > MaxAttempts[r.plan]

RetryExhausted(r, w) == Cardinality(Window(r, w)) >= MaxAttempts[r.plan]

\* The latter half of projectNode: a node whose plan attempt is over.
\* "retry" is "retry_backoff" or "ready", as the clock has it.
PhaseOfAttempt(r, w) ==
    IF ~ByOwner(w) \/ item[w].decision = "rejected" \/ item[w].gate = "failed" THEN "blocked"
    ELSE CASE item[w].status = "failed" -> IF RetryExhausted(r, w) THEN "blocked" ELSE "retry"
           [] item[w].status = "completed" ->
                IF item[w].gate = "open" THEN "awaiting_evidence" ELSE "awaiting_acceptance"
           [] OTHER -> "blocked"

\* projectNode, as dispatchOnce sees it: it first forgets the executions of
\* the plan that failed before they had an attempt, which the projection for
\* display shows as blocked.
Phase(r, w) ==
    IF r.baselines = None THEN "blocked"
    ELSE IF NodeAccepted(r, w) THEN "accepted"
    ELSE IF run[w] # None \/ (HasPlanAttempt(r, w) /\ IsRunning(w)) THEN "running"
    ELSE IF ~OwnerMatches(r) THEN "blocked"
    ELSE IF ~DependenciesAccepted(r, w) THEN "waiting_dependencies"
    ELSE IF HasPlanAttempt(r, w) THEN PhaseOfAttempt(r, w)
    ELSE IF IsRunning(w) \/ IsAccepted(w) THEN "blocked"
    ELSE "ready"

-----------------------------------------------------------------------------
(* Approval and retirement.                                                *)

ClaimedByApproval(w) == \E p \in approving : w \in Owned(p)
ClaimedByRetirement(w) == \E p \in releasing : w \in Owned(p)
Claimed(w) == ClaimedByApproval(w) \/ ClaimedByRetirement(w) \/ accepting[w] # None

\* Every query of the plans throws once their journal is fenced.
Serving == up /\ health = "ready"

IsQuiet(w) == run[w] = None /\ ~IsRunning(w)

\* approveOnce, up to its await.
ApprovalPossible(p) ==
    /\ Serving
    /\ p \notin ActivePlans /\ p \notin retired
    /\ \A w \in Owned(p) : ~Claimed(w) /\ ~IsAccepted(w) /\ IsQuiet(w)

Approve(p) ==
    /\ Requested
    /\ ApprovalPossible(p)
    /\ approving' = approving \cup {p}
    /\ Enqueue([op |-> "approve", plan |-> p, revision |-> profile,
                baselines |-> [w \in Owned(p) |-> Len(item[w].by)]])
    /\ UNCHANGED <<item, run, retiring, releasing, accepting, process>>

\* Mutant: a retirement does not look at the acceptances.
RetirementPossibleWhileAccepting(p) ==
    /\ Serving /\ p \in ActivePlans /\ p \notin retiring
    /\ \A w \in Owned(p) : IsQuiet(w)

\* retireOnce of an active plan, up to its await.
RetirementPossible(p) ==
    /\ Serving /\ p \in ActivePlans /\ p \notin retiring
    /\ \A w \in Owned(p) : IsQuiet(w) /\ accepting[w] = None

Retire(p) ==
    /\ Requested
    /\ RetirementPossible(p)
    /\ retiring' = retiring \cup {p}
    /\ releasing' = releasing \cup {p}
    /\ Enqueue([op |-> "retire", plan |-> p])
    /\ UNCHANGED <<item, run, approving, accepting, process>>

\* A retirement that is asked for again claims no work items.
RetireAgain(p) ==
    /\ Requested
    /\ Serving /\ p \in retired /\ p \notin retiring
    /\ retiring' = retiring \cup {p}
    /\ Enqueue([op |-> "retire", plan |-> p])
    /\ UNCHANGED <<item, run, approving, releasing, accepting, process>>

\* The write at the head of the queue goes on, or its caller hears of it and
\* releases its claims.
JournalReplaces ==
    /\ up /\ Replace
    /\ UNCHANGED <<item, run, claims, accepting, process, requests>>

JournalAnswers ==
    /\ up /\ Answered
    /\ IF Turn.op = "approve"
       THEN approving' = approving \ {Turn.plan} /\ UNCHANGED <<retiring, releasing>>
       ELSE /\ retiring' = retiring \ {Turn.plan}
            /\ releasing' = releasing \ {Turn.plan}
            /\ UNCHANGED approving
    /\ UNCHANGED <<item, run, accepting, process, requests>>

-----------------------------------------------------------------------------
(* Runs.                                                                   *)

ActiveRuns == {w \in WorkItem : run[w] # None}
RunsOf(p) == {w \in Node[p] : run[w] # None}

\* The nodes that may start; cooling are those whose backoff has not passed.
ReadyNodes(r, cooling) ==
    {w \in Node[r.plan] :
        Phase(r, w) = "ready" \/ (Phase(r, w) = "retry" /\ w \notin cooling)}

\* v comes before w in the approved order.
Before(p, v, w) ==
    \E i, j \in DOMAIN Order[p] : i < j /\ Order[p][i] = v /\ Order[p][j] = w

\* What the plan's parallelism and the coordinator's capacity leave.
HasSlots(p, n) ==
    /\ n <= MaxParallelism[p] - Cardinality(RunsOf(p))
    /\ n <= MaxRuns - Cardinality(ActiveRuns)

\* dispatchOnce: starts ready nodes in the approved order while there are slots.
Dispatch(p, cooling, started) ==
    /\ Serving
    /\ p \notin retiring
    /\ \E r \in Active :
        /\ r.plan = p
        /\ started \subseteq ReadyNodes(r, cooling) /\ started # {}
        /\ LET queued == ReadyNodes(r, cooling) \ started IN
            /\ \A v \in queued, w \in started : ~Before(p, v, w)
            /\ HasSlots(p, Cardinality(started))
            /\ queued # {} => ~HasSlots(p, Cardinality(started) + 1)
    /\ run' = [w \in WorkItem |->
                IF w \in started THEN [by |-> p, started |-> FALSE] ELSE run[w]]
    /\ UNCHANGED <<journal, item, claims, accepting, process, requests>>

\* assertManualDecompositionRunAllowed
ManualRunAllowed(w) ==
    \A r \in Active :
        /\ w \notin Node[r.plan]
        /\ w = Root[r.plan] => \A n \in Node[r.plan] : NodeAccepted(r, n)

StartManualRun(w) ==
    /\ Requested
    /\ Serving
    /\ ~Claimed(w)
    /\ ManualRunAllowed(w)
    /\ run[w] = None /\ Cardinality(ActiveRuns) < MaxRuns
    /\ run' = [run EXCEPT ![w] = [by |-> "person", started |-> FALSE]]
    /\ UNCHANGED <<journal, item, claims, accepting, process>>

\* A new attempt becomes the active one; the artifact, the evidence and the
\* decision were about another.
WithAttempt(it, by, status) ==
    [by |-> Append(it.by, by), active |-> Len(it.by) + 1, status |-> status,
     gate |-> "open", decision |-> None]

HistoryLeft == FoldFunction(LAMBDA it, n : n + Len(it.by), 0, item) < MaxHistory

\* The start of the attempt is appended; the domain refuses it for an
\* accepted work item, the runner for one that runs.
RunStarts(w) ==
    /\ up /\ run[w] # None /\ ~run[w].started
    /\ ~IsAccepted(w) /\ ~IsRunning(w)
    /\ HistoryLeft
    /\ run' = [run EXCEPT ![w].started = TRUE]
    /\ item' = [item EXCEPT ![w] = WithAttempt(@, run[w].by, "running")]
    /\ UNCHANGED <<journal, claims, accepting, process, requests>>

RunNeverStarts(w) ==
    /\ up /\ run[w] # None /\ ~run[w].started
    /\ run' = [run EXCEPT ![w] = None]
    /\ UNCHANGED <<journal, item, claims, accepting, process, requests>>

RunEnds(w) ==
    /\ up /\ run[w] # None /\ run[w].started
    /\ \E outcome \in Outcome : item' = [item EXCEPT ![w].status = outcome]
    /\ run' = [run EXCEPT ![w] = None]
    /\ UNCHANGED <<journal, claims, accepting, process, requests>>

\* The append of the end fails: the attempt stays running without a run.
RunEndIsLost(w) ==
    /\ up /\ run[w] # None /\ run[w].started
    /\ run' = [run EXCEPT ![w] = None]
    /\ UNCHANGED <<journal, item, claims, accepting, process, requests>>

-----------------------------------------------------------------------------
(* Acceptance.                                                             *)

\* assertPlanAcceptanceAttempt; a root has no approved owner.
AttemptAcceptable(r, w) ==
    /\ r.baselines # None
    /\ HasPlanAttempt(r, w)
    /\ w \in Node[r.plan] => ByOwner(w) /\ OwnerMatches(r)
    /\ item[w].status = "completed"

\* Mutant: the root is accepted as soon as its own attempt is good.
AcceptanceAllowedAnyOrder(w, verdict) ==
    \A r \in Active :
        /\ w \in Node[r.plan] => DependenciesAccepted(r, w)
        /\ (w \in Owned(r.plan) /\ verdict = "accepted") => AttemptAcceptable(r, w)

\* assertDecompositionAcceptanceAllowed
AcceptanceAllowed(w, verdict) ==
    \A r \in Active :
        /\ w \in Node[r.plan] => DependenciesAccepted(r, w)
        /\ w = Root[r.plan] => \A n \in Node[r.plan] : NodeAccepted(r, n)
        /\ (w \in Owned(r.plan) /\ verdict = "accepted") => AttemptAcceptable(r, w)

\* What a review page shows that can change while the Control Room runs.
Page(w) == <<Len(item[w].by), item[w].status>>

\* decideAcceptanceOnce, up to its await.
DecideAcceptance(w, verdict) ==
    /\ Requested
    /\ Serving
    /\ ~Claimed(w)
    /\ AcceptanceAllowed(w, verdict)
    /\ accepting' = [accepting EXCEPT ![w] = [verdict |-> verdict, page |-> Page(w)]]
    /\ UNCHANGED <<journal, item, run, claims, process>>

\* The domain takes a decision on what its reviewer saw, once per attempt.
Decidable(w, verdict) ==
    /\ item[w].decision = None
    /\ HasActive(w) /\ ~IsRunning(w)
    /\ verdict = "accepted" => item[w].gate = "passed" /\ item[w].status = "completed"

DecisionIsWritten(w) ==
    /\ up /\ accepting[w] # None
    /\ accepting[w].page = Page(w)
    /\ Decidable(w, accepting[w].verdict)
    /\ item' = [item EXCEPT ![w].decision = accepting[w].verdict]
    /\ accepting' = [accepting EXCEPT ![w] = None]
    /\ UNCHANGED <<journal, run, claims, process, requests>>

DecisionFails(w) ==
    /\ up /\ accepting[w] # None
    /\ accepting' = [accepting EXCEPT ![w] = None]
    /\ UNCHANGED <<journal, item, run, claims, process, requests>>

-----------------------------------------------------------------------------
(* The process, and the facts that arrive while there is none.             *)

Stop ==
    /\ up /\ restarts < MaxRestarts
    /\ up' = FALSE
    /\ run' = [w \in WorkItem |-> None]
    /\ approving' = {} /\ retiring' = {} /\ releasing' = {}
    /\ accepting' = [w \in WorkItem |-> None]
    /\ queue' = <<>> /\ replaced' = FALSE
    /\ UNCHANGED <<records, retired, disk, health, item, profile, restarts, requests>>

\* recoverRunningAttempts
Recovered(it) == IF it.status = "running" THEN [it EXCEPT !.status = "interrupted"] ELSE it

Restart ==
    /\ ~up
    /\ OpenJournal
    /\ item' = [w \in WorkItem |-> Recovered(item[w])]
    /\ profile' \in {1, 2}
    /\ up' = TRUE
    /\ restarts' = restarts + 1
    /\ UNCHANGED <<run, claims, accepting, requests>>

\* Artifacts and evidence of the active attempt; a fact about an attempt that
\* completed takes the decision away.
ImportFacts(w) ==
    /\ Requested
    /\ ~up /\ HasActive(w)
    /\ \E gate \in {"open", "passed", "failed"} \ {item[w].gate} :
        item' = [item EXCEPT ![w].gate = gate,
                            ![w].decision = IF item[w].status = "completed" THEN None ELSE @]
    /\ UNCHANGED <<journal, run, claims, accepting, process>>

\* An attempt another tool made: the newest, or one from before the active one.
\* What an interrupted one would do differs in nothing from a failed one.
ImportAttempt(w) ==
    /\ Requested
    /\ ~up /\ ~IsAccepted(w)
    /\ HistoryLeft
    /\ \/ \E status \in {"completed", "failed"} :
            item' = [item EXCEPT ![w] = WithAttempt(@, "elsewhere", status)]
       \/ HasActive(w) /\ item' = [item EXCEPT ![w].by = Append(@, "elsewhere")]
    /\ UNCHANGED <<journal, run, claims, accepting, process>>

Next ==
    \/ \E p \in Plan : Approve(p) \/ Retire(p) \/ RetireAgain(p)
    \/ JournalReplaces
    \/ JournalAnswers
    \/ \E p \in Plan, cooling, started \in SUBSET WorkItem : Dispatch(p, cooling, started)
    \/ \E w \in WorkItem :
        \/ StartManualRun(w)
        \/ RunStarts(w) \/ RunNeverStarts(w) \/ RunEnds(w) \/ RunEndIsLost(w)
        \/ \E verdict \in {"accepted", "rejected"} : DecideAcceptance(w, verdict)
        \/ DecisionIsWritten(w) \/ DecisionFails(w)
        \/ ImportFacts(w) \/ ImportAttempt(w)
    \/ Stop
    \/ Restart

Spec == Init /\ [][Next]_vars

-----------------------------------------------------------------------------
TypeOK ==
    /\ PlansIn(records) \subseteq Plan /\ retired \subseteq Plan
    /\ health \in {"ready", "fenced"} /\ replaced \in BOOLEAN
    /\ item \in [WorkItem -> Item]
    /\ run \in [WorkItem -> Run \cup {None}]
    /\ accepting \in [WorkItem -> Review \cup {None}]
    /\ approving \subseteq Plan /\ retiring \subseteq Plan /\ releasing \subseteq retiring
    /\ up \in BOOLEAN /\ restarts \in 0..MaxRestarts /\ requests \in 0..MaxRequests

\* Plans that follow or overlap each other stay apart.  The file can be opened again
\* whatever was written last: no two active plans own the same work item, and no
\* retirement lacks its approval.  And the baseline separates generations
\* (docs/adr/0014): what an active plan reads as attempts of its nodes was started by
\* it or imported, never by a person or an earlier plan, whatever ran while its
\* approval was written.
PlansStayApart ==
    /\ EnvelopeParses(disk)
    /\ \A r \in Active : r.baselines # None =>
        \A w \in Node[r.plan] : \A i \in Window(r, w) :
            item[w].by[i] \in {r.plan, "elsewhere"}

\* docs/adr/0014: a lifecycle decision holds its work items through all the
\* awaits of its write.  Nothing is decided about them and no person runs them;
\* nothing at all runs on what is being retired.  (A plan may be submitted while
\* the one it replaces runs: the journal then refuses it.)
ClaimsAreExclusive ==
    \A w \in WorkItem :
        /\ ClaimedByApproval(w) \/ ClaimedByRetirement(w) => accepting[w] = None
        /\ ClaimedByApproval(w) /\ run[w] # None => run[w].by # "person"
        /\ ClaimedByRetirement(w) => run[w] = None

\* docs/specs/0023: a node is not run around its plan, and a retired plan
\* starts nothing.  Every run on a node of an active plan is the plan's own,
\* and every plan's run belongs to a plan that is active.
\* No plan uses more of the machine than was approved: neither runs at once nor
\* attempts on one node.
RunsFollowPlans ==
    /\ \A p \in ActivePlans : \A w \in RunsOf(p) : run[w].by = p
    /\ \A w \in ActiveRuns : run[w].by # "person" => run[w].by \in ActivePlans
    /\ \A p \in Plan :
        /\ Cardinality({w \in RunsOf(p) : run[w].by = p}) <= MaxParallelism[p]
        /\ \A w \in Node[p] :
            Cardinality({i \in DOMAIN item[w].by : item[w].by[i] = p}) <= MaxAttempts[p]

\* docs/specs/0023: a node is accepted after everything it depends on, a root
\* after all its nodes, also when the check and the write of the decision are
\* far apart and the plan was being retired.
AcceptedInOrder ==
    [][\A w \in WorkItem : (~IsAccepted(w) /\ IsAccepted(w)') =>
        \A r \in Active :
            /\ w \in Node[r.plan] => \A d \in DependsOn[r.plan][w] : IsAccepted(d)
            /\ w = Root[r.plan] => \A n \in Node[r.plan] : IsAccepted(n)]_vars
=============================================================================
