------------------------------ MODULE ReadyWork ------------------------------
(***************************************************************************)
(* Taking in a task from Linear: src/application/linear-ready-work.ts, as   *)
(* src/linear-ready-work-runtime.ts runs it.                                *)
(*                                                                         *)
(* A command resolves the configured scope (module LinearScope), lists the  *)
(* issues that are in its ready state with what blocks them, reads the      *)
(* states of those blockers, and plans the import of the issue that was     *)
(* selected (module SnapshotImport).  What blocks an issue is what Linear   *)
(* says and what the dependency index of the repository says.  An apply     *)
(* does all of it again and goes on only with the plan that was reviewed;   *)
(* of a plan that was applied it answers with the receipt, reading nothing. *)
(*                                                                         *)
(* Nothing holds Linear still: its issues move on, and its lists and what   *)
(* blocks an issue may be others with every page.  The versions of an issue *)
(* are those of SnapshotImport with its project and state; what blocks it   *)
(* is not part of its revision.                                             *)
(*                                                                         *)
(* Abstracted: identifiers, urls, the shape of answers.  Linear lists in    *)
(* the order of creation: here of the objects' numbers.                     *)
(***************************************************************************)
EXTENDS SnapshotImport

CONSTANTS
    Configured, PAGE_SIZE, MAXIMUM_PAGES,   \* see LinearScope
    MAXIMUM_DEPENDENCIES,
    Tickets,       \* the dependency index: [ticket -> [issue, dependsOn]]
    Relations,     \* its relations: [blocking, blocked: tickets, issue, relatedIssue]
    Selections,    \* [issue, item, criteria]: what operators select
    LinearIssue,   \* the issues of Linear
    Lists,         \* what the lists of Linear may be
    Blockings,     \* [issue -> issues]: what may block the issues
    OtherWriters,  \* events of other writers
    MaxIntakes     \* bound: issues that are taken in

VARIABLE command   \* the command at work, or None

readyVars == <<importVars, command>>

Scoped == INSTANCE LinearScope

\* What Linear says of an issue now.
IssueNow(o) == Versions[o][version[o]]

-----------------------------------------------------------------------------
(* The dependency index.                                                   *)

\* parseLinearDependencyIndexUnsafe: a ticket has one issue, and every relation is
\* of two tickets, of their issues, and declared.
IsDependencyIndex(tickets, relations) ==
    /\ \A t, u \in DOMAIN tickets : tickets[t].issue = tickets[u].issue => t = u
    /\ \A t \in DOMAIN tickets : t \notin tickets[t].dependsOn
    /\ \A r \in relations :
        /\ r.blocking \in DOMAIN tickets /\ tickets[r.blocking].issue = r.issue
        /\ r.blocked \in DOMAIN tickets /\ tickets[r.blocked].issue = r.relatedIssue
        /\ r.blocking \in tickets[r.blocked].dependsOn
        /\ \A s \in relations : r.blocking = s.blocking /\ r.blocked = s.blocked => r = s

ASSUME DependencyAssumption == IsDependencyIndex(Tickets, Relations)

\* LinearIssue holds whatever may block an issue.
ASSUME LinearAssumption ==
    /\ None \notin Nat /\ PAGE_SIZE \in Nat
    /\ \A lists \in Lists : Scoped!IsListed(lists)
    /\ \A o \in LinearIssue : o \in Object /\ TypeOf[o] = "issue" /\ IsHistory(o)
    /\ \A s \in Selections : s.item \in ItemId
    /\ \A b \in Blockings, o \in LinearIssue : b[o] \subseteq LinearIssue
    /\ \A t \in DOMAIN Tickets : Tickets[t].issue \in LinearIssue

\* A dependency that was given a relation, between two issues.
Migrated(t) == {d \in Tickets[t].dependsOn :
                    d \in DOMAIN Tickets /\ \E r \in Relations : r.blocking = d /\ r.blocked = t}

\* dependenciesOf: what the index declares of an issue, and whether it is all.
Declared(o) ==
    LET mine == {t \in DOMAIN Tickets : Tickets[t].issue = o}
        t == CHOOSE x \in mine : TRUE
    IN  IF mine = {} THEN [completeness |-> "unindexed", issues |-> {}]
        ELSE [completeness |-> IF Migrated(t) = Tickets[t].dependsOn THEN "complete" ELSE "unknown",
              issues |-> {Tickets[d].issue : d \in Migrated(t)}]

-----------------------------------------------------------------------------
(* The listing.                                                            *)

IsReadyIn(scope, o) == IssueNow(o).state = scope.ready /\ IssueNow(o).project = scope.project

\* What Linear shows of a set on one page.
OnePage(S) == {o \in S : Cardinality({p \in S : p < o}) < PAGE_SIZE}

\* Mutant: the relations of the first page are taken for all of them.
NativeCut(blockers) == [issues |-> OnePage(blockers), complete |-> TRUE]

\* parseReadyIssue: one page of relations is read with an issue.
Native(blockers) == [issues |-> OnePage(blockers), complete |-> OnePage(blockers) = blockers]

\* What the listing keeps of an issue; "really" is for the property alone.
Listed(o, blockers) == [k |-> version[o], native |-> Native(blockers), really |-> blockers]

\* The ready issues after a cursor, at most a page of them.
ReadyPage(scope, after) ==
    LET rest == {o \in LinearIssue : o > after /\ IsReadyIn(scope, o)}
        nodes == OnePage(rest)
    IN  [nodes |-> nodes, hasNextPage |-> nodes # rest,
         endCursor |-> IF nodes = {} THEN after ELSE CHOOSE o \in nodes : \A p \in nodes : p <= o]

\* What is declared and what Linear says, together.
DependenciesOf(o, listed) == Declared(o).issues \cup listed.native.issues
IsComplete(o, listed) == listed.native.complete /\ Declared(o).completeness # "unknown"

AllDependencies(issues) == UNION {DependenciesOf(o, issues[o]) : o \in DOMAIN issues}

\* Mutant: a dependency Linear does not answer for is taken for done.
ReadinessOfKnown(o, listed, states, completed) ==
    IF ~IsComplete(o, listed) THEN "unknown"
    ELSE IF \E d \in DependenciesOf(o, listed) \cap DOMAIN states : states[d] # completed
    THEN "blocked" ELSE "ready"

\* listLinearReadyWorkCandidates
Readiness(o, listed, states, completed) ==
    IF ~IsComplete(o, listed) \/ ~(DependenciesOf(o, listed) \subseteq DOMAIN states) THEN "unknown"
    ELSE IF \E d \in DependenciesOf(o, listed) : states[d] # completed THEN "blocked"
    ELSE "ready"

\* readLinearReadyWorkIssueStates: archived issues are not found.
StatesNow(issues) ==
    [o \in {d \in issues : IssueNow(d).state # "archived"} |-> IssueNow(o).state]

-----------------------------------------------------------------------------
(* The selection.                                                          *)

\* createLinearReadyWorkImportPolicy
ReadyPolicy(team) ==
    [s \in Scope |-> IF s = team THEN [types |-> {"issue"}, capability |-> "apply"] ELSE None]

ReadySnapshot(selection, scope, k) ==
    [mapping |-> [item |-> selection.item, scope |-> scope.team, managed |-> TRUE, attempt |-> None,
                  revision |-> None, objects |-> {selection.issue}],
     facts |-> [o \in {selection.issue} |-> Fact(o, k)]]

\* previewSelection: the issue belongs to no other work item.
IsUnowned(w, selection) == Owners(w, selection.issue) \subseteq {selection.item}

AlreadyLinked(w, selection, scope, k) ==
    /\ selection.item \in Known(w)
    /\ w.items[selection.item].required = selection.criteria
    /\ RichLink(selection.issue, scope.team, TRUE, ObservationOf(Fact(selection.issue, k)))
        \in LinkOf(w, selection.item, selection.issue)

\* Mutant: the receipt answers only while its revision is the latest.
RetryIfLatest(w, selection, p) ==
    IF /\ selection.item = p.snapshot.mapping.item
       /\ \E l \in LinkOf(w, selection.item, selection.issue) :
            l.last.rev = p.snapshot.facts[selection.issue].rev
    THEN "idempotent" ELSE "stale"

\* findLinearReadyWorkReceiptRetry
Retry(w, selection, p) ==
    IF /\ p.snapshot.mapping.item = selection.item /\ selection.criteria = RequiredEvidence
       /\ p.snapshot.mapping.managed
       /\ p.binding.applyAllowed /\ p.binding.version = 1
       /\ ProviderOf[p.binding.scope] = "linear" /\ p.binding.types = {"issue"}
       /\ p.actions # <<>>
       /\ \A a \in Elements(p.actions) : a.id[1] = selection.item /\ ObjectOf(a) = selection.issue
       /\ selection.item \in Known(w)
       /\ w.items[selection.item].required = selection.criteria
       /\ \E l \in LinkOf(w, selection.item, selection.issue) :
            ~l.legacy /\ l.scope = p.binding.scope /\ l.managed
    THEN "idempotent" ELSE "stale"

-----------------------------------------------------------------------------
(* The command.                                                            *)

\* preview, or apply of a reviewed plan that has no receipt
Begin(selection, expected) ==
    /\ command = None /\ applying = None
    /\ selection.criteria = RequiredEvidence
    /\ expected \notin receipts
    /\ command' = [selection |-> selection, expected |-> expected, plan |-> None,
                   stage |-> "scope", reading |-> Scoped!EmptyReading, during |-> {},
                   scope |-> None, issues |-> <<>>, after |-> 0, page |-> 0, done |-> {}]
    /\ UNCHANGED <<workflow, policy, plans, receipts, version, applying>>

\* An apply of a plan that was applied is answered without reading from Linear.
AnswerWithReceipt(selection, p) ==
    /\ command = None /\ applying = None
    /\ Retry(workflow, selection, p) \in {"idempotent", "stale"}
    /\ UNCHANGED readyVars

\* A page of the scope; with the scope the service gets its import policy.
ReadScope ==
    /\ command # None
    /\ command.stage = "scope"
    /\ \E lists \in Lists :
        LET r == Scoped!AfterPage(lists, command.reading)
            read == [command EXCEPT !.reading = r, !.during = @ \cup {lists}]
        IN /\ r # None
           /\ IF r.stage = "resolved"
              THEN LET scope == Scoped!ReadyScope(r) IN
                   /\ command' = [read EXCEPT !.stage = "issues", !.scope = scope, !.reading = None,
                                   !.during = IF @ = {lists} THEN @ ELSE {}]
                   /\ policy' = ReadyPolicy(scope.team)
              ELSE command' = read /\ UNCHANGED policy
    /\ UNCHANGED <<workflow, plans, receipts, version, applying>>

\* listLinearReadyWorkIssues
ReadIssues ==
    /\ command # None
    /\ command.stage = "issues"
    /\ command.page < MAXIMUM_PAGES
    /\ \E blockers \in Blockings :
        LET page == ReadyPage(command.scope, command.after)
            issues == [o \in page.nodes \cup DOMAIN command.issues |->
                        IF o \in page.nodes THEN Listed(o, blockers[o]) ELSE command.issues[o]]
            read == [command EXCEPT !.issues = issues]
        IN  IF page.hasNextPage
            THEN command' = [read EXCEPT !.after = page.endCursor, !.page = @ + 1]
            ELSE /\ Cardinality(AllDependencies(issues)) <= MAXIMUM_DEPENDENCIES
                 /\ command' = [read EXCEPT !.stage = "states"]
    /\ UNCHANGED <<workflow, policy, plans, receipts, version, applying>>

ReadyPlan ==
    LET o == command.selection.issue
    IN  PlanOf(ReadySnapshot(command.selection, command.scope, command.issues[o].k), workflow,
               PolicyBinding(policy, command.scope.team, {"issue"}))

\* The states of all dependencies are read at once, and must be of the project; what
\* follows waits for nothing.
ReadStates ==
    /\ command # None
    /\ command.stage = "states"
    /\ LET selection == command.selection
           o == selection.issue
           dependencies == AllDependencies(command.issues)
           states == StatesNow(dependencies)
       IN  /\ \A d \in DOMAIN states : IssueNow(d).project = command.scope.project
           /\ o \in DOMAIN command.issues
           /\ Readiness(o, command.issues[o], states, command.scope.completed) = "ready"
           /\ IsUnowned(workflow, selection)
           /\ IF AlreadyLinked(workflow, selection, command.scope, command.issues[o].k)
              THEN command' = None /\ UNCHANGED plans
              ELSE IF command.expected = None
              THEN /\ Cardinality(plans) < MaxPlans /\ Cardinality(receipts) < MaxIntakes
                   /\ plans' = plans \cup {ReadyPlan}
                   /\ command' = None
              ELSE /\ command.expected = ReadyPlan
                   /\ command' = [command EXCEPT !.stage = "apply", !.plan = ReadyPlan,
                                    !.done = {d \in LinearIssue :
                                                IssueNow(d).state = command.scope.completed}]
                   /\ UNCHANGED plans
    /\ UNCHANGED <<workflow, policy, receipts, version, applying>>

\* applySnapshotImport of the plan made anew
ApplySelected ==
    /\ command # None
    /\ command.stage = "apply"
    /\ BeginApply(command.plan)
    /\ command' = [command EXCEPT !.stage = "applying"]

\* What the service does with the apply.
Apply ==
    /\ command # None
    /\ command.stage = "applying"
    /\ \/ Verify /\ command' = IF applying' = None THEN None ELSE command
       \/ Commit /\ command' = None
       \/ Abandon /\ command' = None

\* An answer is refused or lost, the issue is not ready or the plan is another one.
Refuse ==
    /\ command # None
    /\ applying = None
    /\ command' = None
    /\ UNCHANGED <<workflow, policy, plans, receipts, version, applying>>

Intake ==
    \/ \E s \in Selections, p \in plans \cup {None} : Begin(s, p)
    \/ \E s \in Selections, p \in receipts : AnswerWithReceipt(s, p)
    \/ ReadScope \/ ReadIssues \/ ReadStates \/ ApplySelected \/ Apply \/ Refuse

\* Linear, the operators and other writers go on meanwhile.
World ==
    /\ \/ \E o \in LinearIssue : Edit(o)
       \/ \E p \in plans : Discard(p)
       \/ \E e \in OtherWriters : AppendEvent(e)
    /\ UNCHANGED command

ReadyInit ==
    /\ workflow = EmptyWorkflow
    /\ version = [o \in Object |-> 1]
    /\ policy = [s \in Scope |-> None]
    /\ plans = {} /\ receipts = {}
    /\ applying = None
    /\ command = None

ReadyNext == Intake \/ World

ReadySpec == ReadyInit /\ [][ReadyNext]_readyVars

-----------------------------------------------------------------------------
(* Properties.                                                             *)

\* What must be done before an issue, whoever says so: the reference.  A ticket
\* without an issue stands for work that cannot be known to be done.
IsReallyReady(o, really, done) ==
    /\ really \subseteq done
    /\ \A t \in DOMAIN Tickets : Tickets[t].issue = o =>
        \A d \in Tickets[t].dependsOn : d \in DOMAIN Tickets /\ Tickets[d].issue \in done

\* docs/specs/0018: an issue is taken in only from the configured project and ready
\* state, and only when, as far as its one apply could see, nothing blocked it:
\* neither a relation beyond the page that is read with the issue, nor a dependency
\* without an issue, nor one that is archived, canceled or not yet done.
ReadyWhenImported ==
    [][\A p \in receipts' \ receipts : command # None =>
        LET o == command.selection.issue
            listed == command.issues[o]
        IN  /\ \A lists \in command.during : Scoped!IsScope(lists, command.scope)
            /\ Versions[o][p.snapshot.facts[o].k].state = command.scope.ready
            /\ Versions[o][p.snapshot.facts[o].k].project = command.scope.project
            /\ IsReallyReady(o, listed.really, command.done)]_readyVars

\* docs/specs/0018: an apply repeated with the digest of its receipt is answered
\* "idempotent", whatever became of Linear, of the plan's issue and of the work item;
\* another selection with that digest is refused.
ReceiptAnswers ==
    \A p \in receipts, s \in Selections :
        Retry(workflow, s, p) =
            IF /\ s.item = p.snapshot.mapping.item /\ {s.issue} = DOMAIN p.snapshot.facts
               /\ s.criteria = RequiredEvidence
            THEN "idempotent" ELSE "stale"
=============================================================================
