---------------------------- MODULE SnapshotImport ----------------------------
(***************************************************************************)
(* Importing provider facts: src/application/snapshot-import.ts plans, and *)
(* src/application/taskseal-service.ts applies.                            *)
(*                                                                         *)
(* A snapshot holds the revisions of some provider objects, read at some   *)
(* time.  The preview compares it with the workflow and returns a plan: an *)
(* action for every fact, and the events that would carry it out.  The     *)
(* operator takes the plan to the apply, which runs alone among the         *)
(* service's writes, checks plan, policy and workflow again, reads the      *)
(* facts again from the provider and commits the events as one batch.      *)
(* Meanwhile the provider's objects, the policy and the workflow move on.  *)
(*                                                                         *)
(* Abstracted: the shape checks of a snapshot's fields; digests are what    *)
(* they digest.  The commit's fence and its replay are module               *)
(* JournalService.                                                         *)
(***************************************************************************)
EXTENDS ImportPlan, FiniteSets

CONSTANTS
    Versions,      \* [Object -> Seq]: what each object becomes, in this order
    Mappings,      \* what may be read: [item, scope, managed, attempt, revision, objects]
    Policies,      \* [Scope -> ScopePolicy or None]
    DirectEvents,  \* events of other writers
    MAX_CLAIMS,    \* MAX_PROVIDER_FACT_PROVENANCE_CLAIMS
    MaxPlans,      \* bound: plans in the hands of operators
    MaxReceipts    \* bound: plans that are applied

VARIABLES
    workflow,  \* the service's workflow
    version,   \* [Object -> Nat]: the revision the provider has now
    policy,    \* the import policy file
    plans,     \* what previews returned
    receipts,  \* plans that were applied
    applying   \* the apply at work: its plan and the claims still to be read, or read
               \* but for their pull request; since which versions, and which revisions
               \* of pull requests it has seen

importVars == <<workflow, version, policy, plans, receipts, applying>>

\* What an object becomes: revisions, each of its time; an issue was created once.
IsHistory(o) ==
    \A k \in DOMAIN Versions[o] :
        LET read == Versions[o][k] IN
        /\ {"rev", "at"} \subseteq DOMAIN read /\ read.at \in Nat
        /\ TypeOf[o] = "issue" => {"title", "createdAt"} \subseteq DOMAIN read /\ read.createdAt \in Nat

ASSUME SnapshotAssumption ==
    /\ \A o \in Object :
        Len(Versions[o]) \in Nat \ {0} /\ DOMAIN Versions[o] = 1..Len(Versions[o])
    /\ \A m \in Mappings :
        /\ m.item \in ItemId /\ m.scope \in Scope /\ m.managed \in BOOLEAN
        /\ IsFiniteSet(m.objects) /\ m.objects \subseteq Object
        /\ \A o \in m.objects : IsHistory(o)
    /\ \A e \in DirectEvents :
        /\ e.item \in ItemId
        /\ e.type = "work_item.created" /\ e.payload.link.legacy
            => e.payload.link = LegacyLink(e.payload.link.object)

\* Evidence is named after its object and what distinguishes two of one object.
EvidenceOf(o, n) == 10 * o + n

\* A fact under a revision of a pull request was collected for its head.
Fact(o, k) ==
    LET known == [object |-> o, k |-> k, under |-> None, evidence |-> EvidenceOf(o, 0)]
        read == Versions[o][k]
    IN  [x \in DOMAIN known \cup DOMAIN read |->
            IF x \in DOMAIN known THEN known[x] ELSE read[x]]

-----------------------------------------------------------------------------
(* Snapshots.                                                              *)

\* normalizeFact: a delivery fact is about the revision its mapping names.
IsFactOf(m, o, k) ==
    TypeOf[o] # "issue" => /\ m.attempt # None
                           /\ Versions[o][k].head = m.revision

\* A snapshot may be older than the provider is now, every fact by itself.
Snapshots ==
    UNION {{[mapping |-> m, facts |-> [o \in m.objects |-> Fact(o, f[o])]] :
                f \in {g \in [m.objects -> UNION {DOMAIN Versions[o] : o \in m.objects}] :
                          \A o \in m.objects : g[o] <= version[o] /\ IsFactOf(m, o, g[o])}} :
           m \in Mappings}

TypesOf(s) == {TypeOf[o] : o \in DOMAIN s.facts}

\* compareFacts, the issues first
FactBefore(o, p) ==
    \/ TypeOf[o] = "issue" /\ TypeOf[p] # "issue"
    \/ (TypeOf[o] = "issue") = (TypeOf[p] = "issue") /\ o < p

FactsOf(s) ==
    LET order == Sorted(DOMAIN s.facts, FactBefore)
    IN  [n \in DOMAIN order |-> s.facts[order[n]]]

-----------------------------------------------------------------------------
(* Planning one fact.                                                      *)

ImportedEvent(m, f, type, target, at, payload) ==
    [type |-> type, item |-> m.item, at |-> at, payload |-> payload,
     id |-> EventId(type, m.item, f.object, f.rev, target)]

Action(m, f, kind, reason, target, id) ==
    [id |-> ActionId(m.item, f.object, f.rev, target),
     kind |-> kind, reason |-> reason, event |-> id]

\* An action with the event that carries it out, or alone.
Step(m, f, kind, reason, target, e) ==
    [action |-> Action(m, f, kind, reason, target, e.id), event |-> e]
Alone(m, f, kind, reason, target) ==
    [action |-> Action(m, f, kind, reason, target, None), event |-> None]

ObservationOf(f) == [rev |-> f.rev, at |-> f.at, title |-> f.title]
RichLinkOf(m, f) == RichLink(f.object, m.scope, m.managed, ObservationOf(f))

\* Mutant: the title of a linked object is not taken over.
TitleStepsNever(w, m, f) == {}

\* createTitleUpdate, where the mapping manages a title that differs
TitleSteps(w, m, f) ==
    IF ~m.managed \/ w.items[m.item].title = f.title THEN {}
    ELSE {Step(m, f, "update", "MANAGED_TITLE_CHANGED", "work-item-title",
               ImportedEvent(m, f, "work_item.updated", "work-item-title", f.at,
                   [object |-> f.object, rev |-> f.rev,
                    before |-> w.items[m.item].title, after |-> f.title]))}

CreateStep(m, f) ==
    Step(m, f, "create", "NEW_WORK_ITEM", "work-item",
         ImportedEvent(m, f, "work_item.created", "work-item", f.createdAt,
            [title |-> f.title, required |-> RequiredEvidence, link |-> RichLinkOf(m, f)]))

LinkStep(m, f) ==
    Step(m, f, "link", "NEW_EXTERNAL_LINK", "external-link",
         ImportedEvent(m, f, "external_link.linked", "external-link", f.at,
            [link |-> RichLinkOf(m, f)]))

ObserveStep(m, f, reason, payload) ==
    Step(m, f, "refresh", reason, "external-link-observation",
         ImportedEvent(m, f, "external_link.observed", "external-link-observation", f.at, payload))

BaselineStep(m, f) ==
    ObserveStep(m, f, "LEGACY_LINK_BASELINE",
                [object |-> f.object, observation |-> ObservationOf(f),
                 expected |-> None, scope |-> m.scope, managed |-> m.managed])

AdvanceStep(m, f, current) ==
    ObserveStep(m, f, "NEW_SOURCE_REVISION",
                [object |-> f.object, observation |-> ObservationOf(f),
                 expected |-> current.rev])

\* A link whose mapping still holds: the revisions decide.
RefreshSteps(w, m, f, current) ==
    LET alone(kind, reason) == {Alone(m, f, kind, reason, "external-link-observation")} IN
    IF f.rev = current.rev
    THEN IF f.title = current.title THEN alone("skip", "EXACT_DUPLICATE")
         ELSE alone("conflict", "SOURCE_REVISION_CONTENT_CONFLICT")
    ELSE IF f.at < current.at THEN alone("skip", "STALE_SOURCE_REVISION")
    ELSE IF f.at = current.at THEN alone("conflict", "SOURCE_REVISION_ORDER_AMBIGUOUS")
    ELSE {AdvanceStep(m, f, current)} \cup TitleSteps(w, m, f)

\* planWorkItemFact
IssueSteps(w, m, f) ==
    LET owners == Owners(w, f.object)
        conflict(reason, target) == {Alone(m, f, "conflict", reason, target)}
        link == CHOOSE l \in LinkOf(w, m.item, f.object) : TRUE
    IN  IF owners \ {m.item} # {} THEN conflict("PROVIDER_OBJECT_ALREADY_LINKED", "work-item")
        ELSE IF m.item \notin Known(w) THEN {CreateStep(m, f)}
        ELSE IF w.items[m.item].required # RequiredEvidence
        THEN conflict("WORK_ITEM_MAPPING_CONFLICT", "work-item")
        ELSE IF owners = {}
        THEN IF m.managed /\ TitleManagedBeside(w, m.item, f.object)
             THEN conflict("FIELD_AUTHORITY_CONFLICT", "external-link")
             ELSE {LinkStep(m, f)} \cup TitleSteps(w, m, f)
        ELSE IF link.legacy THEN {BaselineStep(m, f)} \cup TitleSteps(w, m, f)
        ELSE IF link.managed # m.managed THEN conflict("FIELD_AUTHORITY_CONFLICT", "external-link")
        ELSE IF link.scope # m.scope THEN conflict("SNAPSHOT_SCOPE_MISMATCH", "external-link")
        ELSE RefreshSteps(w, m, f, link.last)

\* What the event of a pull request or a check would be, imported or appended.
CandidatePayload(m, f) ==
    IF TypeOf[f.object] = "pull_request"
    THEN [attempt |-> m.attempt, artifact |-> f.artifact, revision |-> f.head]
    ELSE [evidence |-> [id |-> f.evidence, attemptId |-> m.attempt, artifactId |-> f.artifact,
                        revision |-> f.head, criterionKey |-> f.criterion,
                        outcome |-> f.outcome, recordedAt |-> f.at]]

\* The event id another writer gives the fact: without its revision, unless a
\* delivery binding maps it.
CandidateId(m, f) ==
    LET link == TypeOf[f.object] = "pull_request" IN
    IF "binding" \in DOMAIN m
    THEN <<"delivery", m.item, m.attempt, f.object, f.head, IF link THEN f.head ELSE f.rev>>
    ELSE <<"candidate", f.object, f.head, IF link THEN f.at ELSE None>>

CandidateEvent(m, f) ==
    [type |-> IF TypeOf[f.object] = "pull_request" THEN "artifact.linked" ELSE "evidence.recorded",
     item |-> m.item, at |-> f.at, payload |-> CandidatePayload(m, f), id |-> CandidateId(m, f)]

\* planCandidateFact: known under either id, or new
CandidateSteps(w, m, f) ==
    LET candidate == CandidateEvent(m, f)
        link == candidate.type = "artifact.linked"
        target == IF link THEN "artifact" ELSE "evidence"
        event == ImportedEvent(m, f, candidate.type, target, f.at, candidate.payload)
        known(e) == {Alone(m, f, IF Classified(w, e) = "EXACT_EVENT_DUPLICATE" THEN "skip"
                                 ELSE "conflict", Classified(w, e), target)}
    IN  IF Classified(w, candidate) # "none" THEN known(candidate)
        ELSE IF Classified(w, event) # "none" THEN known(event)
        ELSE {Step(m, f, IF link THEN "link" ELSE "update",
                   IF link THEN "NEW_ARTIFACT" ELSE "NEW_EVIDENCE", target, event)}

StepsOf(w, m, f) ==
    IF TypeOf[f.object] = "issue" THEN IssueSteps(w, m, f) ELSE CandidateSteps(w, m, f)

-----------------------------------------------------------------------------
(* The plan.                                                               *)

EventsOf(steps) == {t.event : t \in {u \in steps : u.event # None}}

\* The workflow after the first n of some events, for every n.
AppliedUpTo(w, events) ==
    LET run[n \in 0..Len(events)] == IF n = 0 THEN w ELSE Applied(run[n - 1], events[n])
    IN  run

AppliedAll(w, events) == AppliedUpTo(w, events)[Len(events)]
Replayed(w, events) == AppliedAll(w, Sorted(events, EventBefore))

\* Every fact is planned on the workflow the facts before it would leave.
PlannedUpTo(w, s) ==
    LET facts == FactsOf(s)
        left[n \in 0..Len(facts)] ==
            IF n = 0 THEN w
            ELSE Replayed(left[n - 1], EventsOf(StepsOf(left[n - 1], s.mapping, facts[n])))
    IN  left

StepsOfFact(w, s, n) == StepsOf(PlannedUpTo(w, s)[n - 1], s.mapping, FactsOf(s)[n])
PlannedSteps(w, s) == UNION {StepsOfFact(w, s, n) : n \in DOMAIN FactsOf(s)}

DirectConflicts ==
    {"EVENT_ID_CONFLICT", "FIELD_AUTHORITY_CONFLICT", "PROVIDER_OBJECT_ALREADY_LINKED",
     "SOURCE_REVISION_CONTENT_CONFLICT", "SOURCE_REVISION_ORDER_AMBIGUOUS"}

\* Mutant: what the domain refuses stays in the plan.
RejectionsIgnored(w, events) == {}

\* simulatePlannedEvents: the events of all facts together, in canonical order
Rejections(w, events) ==
    LET order == Sorted(events, EventBefore)
        code(n) == Refusal(AppliedUpTo(w, order)[n - 1], order[n])
    IN  {[id |-> order[n].id, code |-> code(n)] : n \in {k \in DOMAIN order : code(k) # "none"}}

\* The action of a refused event becomes a conflict.
Settled(action, refused) ==
    LET mine == {r \in refused : r.id = action.event}
        code == (CHOOSE r \in mine : TRUE).code
    IN  IF action.event = None \/ mine = {} THEN action
        ELSE [action EXCEPT !.kind = "conflict", !.event = None,
                !.reason = IF code \in DirectConflicts THEN code ELSE "DOMAIN_INVARIANT_VIOLATION"]

\* What is planned, when the domain refuses some of its events.
PlanWithout(refused, s, w, binding, steps) ==
    LET actions == {Settled(t.action, refused) : t \in steps}
        events == {e \in EventsOf(steps) : \A r \in refused : r.id # e.id}
    IN  [snapshot |-> s, binding |-> binding, base |-> w,
         actions |-> Sorted(actions, ActionBefore), events |-> Sorted(events, EventBefore),
         conflicts |-> Conflicts(actions), warnings |-> Warnings(actions)]

PlanOfSteps(s, w, binding, steps) ==
    PlanWithout(Rejections(w, EventsOf(steps)), s, w, binding, steps)

\* previewSnapshotImport
PlanOf(s, w, binding) == PlanOfSteps(s, w, binding, PlannedSteps(w, s))

Preview(s) ==
    LET scope == s.mapping.scope IN
    /\ Cardinality(plans) < MaxPlans /\ Cardinality(receipts) < MaxReceipts
    /\ Covers(policy, scope, TypesOf(s))
    /\ policy[scope].capability # "none"
    /\ plans' = plans \cup {PlanOf(s, workflow, PolicyBinding(policy, scope, TypesOf(s)))}
    /\ UNCHANGED <<workflow, version, policy, receipts, applying>>

-----------------------------------------------------------------------------
(* Applying a plan.                                                        *)

\* A rich link read from the scope the plan is bound to.
Authorized(w, i, o, binding) ==
    i \in Known(w) /\ \E l \in LinkOf(w, i, o) : ~l.legacy /\ l.scope = binding.scope

\* authorizeExistingSkippedAction: what is skipped is represented
SkipIsBacked(w, action, binding) ==
    LET i == action.id[1]
        o == ObjectOf(action)
    IN  \/ Authorized(w, i, o, binding)
        \/ /\ i \in Known(w) /\ LinkOf(w, i, o) \subseteq {LegacyLink(o)}
           /\ CASE TypeOf[o] = "issue"        -> FALSE
                [] TypeOf[o] = "pull_request" ->
                    \E x \in w.items[i].delivery.artifacts : x.id = Versions[o][1].artifact
                [] OTHER -> \E e \in w.items[i].delivery.evidence : e.id \div 10 = o

\* assertImportPlanIngressPreflight
Preflight(p, w) ==
    /\ \A a \in Elements(p.actions) :
        /\ TypeOf[ObjectOf(a)] \in p.binding.types
        /\ a.kind = "skip" => SkipIsBacked(w, a, p.binding)
    /\ \A e \in Elements(p.events) :
        CASE e.type = "external_link.observed" /\ e.payload.expected = None ->
                \E l \in LinkOf(w, e.item, e.payload.object) : l.legacy
          [] e.type = "external_link.observed" /\ e.payload.expected # None ->
                Authorized(w, e.item, e.payload.object, p.binding)
          [] e.type = "work_item.updated" ->
                \/ Authorized(w, e.item, e.payload.object, p.binding)
                \/ \E f \in Elements(p.events) :
                    /\ f.item = e.item /\ f.id[3] = e.id[3]
                    /\ f.type \in {"work_item.created", "external_link.linked",
                                   "external_link.observed"}
          [] OTHER -> TRUE

\* projectAuthorizedImportPlan: every event applies, and leaves a link of the scope
Projects(p, w) ==
    \A n \in DOMAIN p.events :
        LET e == p.events[n] IN
        /\ Refusal(AppliedUpTo(w, p.events)[n - 1], e) = "none"
        /\ e.type \in {"work_item.created", "external_link.linked", "external_link.observed",
                       "work_item.updated"}
            => Authorized(AppliedUpTo(w, p.events)[n], e.item, e.id[3], p.binding)

-----------------------------------------------------------------------------
(* Claims: what the provider is asked to confirm before a plan is applied.  A  *)
(* claim says all an event says of its object.                              *)

ReviewStates == <<"approved", "changes_requested", "dismissed">>

\* What the event of an issue says of it: readPlannedIssueLink, readPlannedIssueObservation
PlannedIssue(e) ==
    IF e.type = "external_link.observed" THEN e.payload.observation ELSE e.payload.link.last

\* readReviewEvidenceIdentity: a review's evidence is named after its state, too.
ReviewState(id) == ReviewStates[id % 10]

ClaimedContent(e) ==
    LET evidence == e.payload.evidence IN
    CASE TypeOf[e.id[3]] = "issue"        -> [title |-> PlannedIssue(e).title]
      [] TypeOf[e.id[3]] = "pull_request" -> [head |-> e.payload.revision]
      [] TypeOf[e.id[3]] = "check" -> [head |-> evidence.revision, outcome |-> evidence.outcome]
      [] TypeOf[e.id[3]] = "pull_request_review" ->
            [head |-> evidence.revision, outcome |-> evidence.outcome,
             state |-> ReviewState(evidence.id)]

\* The pull request that the id or the url of the evidence names, if any.
PullNamed(p, e) ==
    LET fact == p.snapshot.facts[e.id[3]] IN
    IF fact.under = None THEN None ELSE fact.under.object

\* createClaimForEvent
ClaimOf(p, e) ==
    [object |-> e.id[3], type |-> e.type, rev |-> e.id[4], eventAt |-> e.at,
     sourceAt |-> IF TypeOf[e.id[3]] = "issue" THEN PlannedIssue(e).at ELSE e.at,
     content |-> ClaimedContent(e), pull |-> PullNamed(p, e)]

\* An event no claim can be made of does not match the import.
IsClaimable(p, e) ==
    LET o == e.id[3] IN
    CASE e.type \in {"work_item.created", "external_link.linked"} ->
            LET link == e.payload.link IN
            /\ link.object = o /\ link.last.rev = e.id[4] /\ link.scope = p.binding.scope
            /\ e.type = "work_item.created" => e.payload.title = link.last.title
      [] e.type = "external_link.observed" ->
            \E l \in LinkOf(p.base, e.item, o) :
                /\ e.payload.observation.rev = e.id[4]
                /\ IF e.payload.expected = None THEN l.legacy /\ e.payload.scope = p.binding.scope
                   ELSE ~l.legacy /\ l.scope = p.binding.scope
      [] e.type = "artifact.linked" -> e.payload.artifact = Versions[o][1].artifact
      [] e.type = "evidence.recorded" /\ TypeOf[o] = "check" ->
            e.payload.evidence.id = EvidenceOf(o, 0)
      [] e.type = "evidence.recorded" /\ TypeOf[o] = "pull_request_review" ->
            \E n \in DOMAIN ReviewStates :
                /\ e.payload.evidence.id = EvidenceOf(o, n)
                /\ (e.payload.evidence.outcome = "passed") <=> (ReviewStates[n] = "approved")
      [] OTHER -> FALSE

IsTitleUpdate(e) == e.type = "work_item.updated"
EventsClaimed(p) == {e \in Elements(p.events) : ~IsTitleUpdate(e)}

\* collectProviderFactProvenanceClaims: the objects to read again, and the claim of each
Claimed(p) ==
    IF ProviderOf[p.binding.scope] = "gitee" THEN {} ELSE {e.id[3] : e \in EventsClaimed(p)}
ClaimOn(p, o) == ClaimOf(p, CHOOSE e \in EventsClaimed(p) : e.id[3] = o)

\* readUpdateRequirement: a title is taken over from an issue that is claimed as well.
IsBacked(p, e) ==
    LET c == ClaimOn(p, e.payload.object) IN
    /\ e.payload.object \in Claimed(p) /\ TypeOf[c.object] = "issue"
    /\ c.rev = e.payload.rev /\ c.content.title = e.payload.after /\ c.sourceAt = e.at

\* Every action has an event to be verified, and there are not too many.
Claimable(p) ==
    ProviderOf[p.binding.scope] = "gitee"
    \/ /\ \A a \in Elements(p.actions) : a.kind # "conflict" => a.event # None
       /\ \A e \in Elements(p.events) : IF IsTitleUpdate(e) THEN IsBacked(p, e) ELSE IsClaimable(p, e)
       /\ Cardinality(Claimed(p)) <= MAX_CLAIMS

-----------------------------------------------------------------------------
(* The apply.                                                              *)

\* The policy and the workflow are those of the preview.
MatchesPreview(p) ==
    /\ Covers(policy, p.binding.scope, p.binding.types)
    /\ PolicyBinding(policy, p.binding.scope, p.binding.types) = p.binding
    /\ p.base = workflow

\* applySnapshotImport up to the reads; a refusal changes nothing
BeginApply(p) ==
    /\ applying = None
    /\ p \notin receipts
    /\ IsPlan(p)
    /\ Preflight(p, workflow)
    /\ p.binding.applyAllowed
    /\ p.conflicts = {}
    /\ MatchesPreview(p)
    /\ Projects(p, workflow)
    /\ Claimable(p)
    /\ applying' = [plan |-> p, unread |-> Claimed(p), halfway |-> {}, from |-> version,
                    seen |-> {}]
    /\ UNCHANGED <<workflow, version, policy, plans, receipts>>

\* Updated time and head of a pull request.
RevisionOf(o, k) == <<Versions[o][k].at, Versions[o][k].head>>

What(o) == Versions[o][version[o]]

\* issueTimesMatch: a work item is created at the time its issue was.
TimesMatch(c, now) ==
    /\ c.sourceAt = now.at
    /\ c.eventAt = IF c.type = "work_item.created" THEN now.createdAt ELSE now.at

\* verifyGitHubClaim, verifyLinearClaim: the object is what is claimed of it.
ObjectConfirms(c) ==
    LET now == What(c.object) IN
    CASE TypeOf[c.object] = "issue" ->
            now.rev = c.rev /\ now.title = c.content.title /\ TimesMatch(c, now)
      [] TypeOf[c.object] = "pull_request" ->
            now.head = c.content.head /\ {c.rev, c.sourceAt, c.eventAt} = {now.at}
      [] TypeOf[c.object] = "check" ->
            /\ now.status = "completed"
            /\ now.head = c.content.head /\ now.outcome = c.content.outcome
            /\ {c.sourceAt, c.eventAt} = {now.at}
            /\ c.pull = None => c.rev = now.at
      [] TypeOf[c.object] = "pull_request_review" ->
            now.state = c.content.state /\ now.head = c.content.head

\* Mutant: evidence is compared with the pull request's head alone.
PullConfirmsHead(c) == What(c.pull).head = c.content.head

\* The pull request, which is read after the evidence, has the revision and the head
\* the evidence was collected under.
PullConfirms(c) ==
    LET pull == What(c.pull) IN
    /\ pull.head = c.content.head
    /\ IF TypeOf[c.object] = "check" THEN pull.mapped /\ c.rev = <<c.sourceAt, pull.at>>
       ELSE /\ {c.sourceAt, c.eventAt} = {pull.at}
            /\ c.rev = <<pull.at, Position(c.content.state, ReviewStates)>>

\* What is left of an apply when the claim on o was confirmed; r is the object read last.
Confirmed(o, r) ==
    [applying EXCEPT !.unread = @ \ {o}, !.halfway = @ \ {o},
        !.seen = IF TypeOf[r] = "pull_request" THEN @ \cup {RevisionOf(r, version[r])} ELSE @]

\* The verifier reads the object of a claim ...
VerifyObject(o) ==
    LET c == ClaimOn(applying.plan, o) IN
    /\ o \in applying.unread
    /\ applying' = IF ~ObjectConfirms(c) THEN None
                   ELSE IF c.pull = None THEN Confirmed(o, o)
                   ELSE [applying EXCEPT !.unread = @ \ {o}, !.halfway = @ \cup {o}]

\* ... and the pull request it names.
VerifyPull(o) ==
    LET c == ClaimOn(applying.plan, o) IN
    /\ o \in applying.halfway
    /\ applying' = IF PullConfirms(c) THEN Confirmed(o, c.pull) ELSE None

Verify ==
    /\ applying # None
    /\ \E o \in applying.unread \cup applying.halfway : VerifyObject(o) \/ VerifyPull(o)
    /\ UNCHANGED <<workflow, version, policy, plans, receipts>>

\* A read fails, the time for all of them ends or the journal refuses the batch.
Abandon ==
    /\ applying # None
    /\ applying' = None
    /\ UNCHANGED <<workflow, version, policy, plans, receipts>>

Commit ==
    /\ applying # None
    /\ applying.unread = {} /\ applying.halfway = {}
    /\ workflow' = AppliedAll(workflow, applying.plan.events)
    /\ receipts' = receipts \cup {applying.plan}
    /\ applying' = None
    /\ plans' = plans \ {applying.plan}
    /\ UNCHANGED <<version, policy>>

-----------------------------------------------------------------------------
(* The rest of the world.                                                  *)

\* An operator loses interest in a plan.
Discard(p) ==
    /\ applying = None
    /\ plans' = plans \ {p}
    /\ UNCHANGED <<workflow, version, policy, receipts, applying>>

Edit(o) ==
    /\ version[o] < Len(Versions[o])
    /\ version' = [version EXCEPT ![o] = @ + 1]
    /\ UNCHANGED <<workflow, policy, plans, receipts, applying>>

SetPolicy(p) ==
    /\ policy # p
    /\ policy' = p
    /\ UNCHANGED <<workflow, version, plans, receipts, applying>>

\* assertDirectIngressAllowed: links are the imports' alone, but for legacy ones.
IsDirect(e) ==
    /\ e.type \notin {"external_link.linked", "external_link.observed", "work_item.updated"}
    /\ e.type = "work_item.created" => e.payload.link.legacy

\* The service's append, which an apply in progress keeps waiting.
AppendEvent(e) ==
    /\ applying = None
    /\ IsDirect(e)
    /\ e \notin workflow.processed
    /\ Refusal(workflow, e) = "none"
    /\ workflow' = Applied(workflow, e)
    /\ UNCHANGED <<version, policy, plans, receipts, applying>>

ImportInit ==
    /\ workflow = EmptyWorkflow
    /\ version = [o \in Object |-> 1]
    /\ policy \in Policies
    /\ plans = {} /\ receipts = {}
    /\ applying = None

Imported == UNION {m.objects : m \in Mappings}

ImportNext ==
    \/ \E s \in Snapshots : Preview(s)
    \/ \E p \in plans : BeginApply(p) \/ Discard(p)
    \/ \E o \in Imported : Edit(o)
    \/ Verify \/ Abandon \/ Commit
    \/ \E p \in Policies : SetPolicy(p)
    \/ \E e \in DirectEvents : AppendEvent(e)

ImportSpec == ImportInit /\ [][ImportNext]_importVars

-----------------------------------------------------------------------------
\* docs/specs/0004: what a preview promises the apply keeps.  Every plan is one
\* the apply recognises, and a plan without conflicts applies to the workflow
\* it was made for, all of it.
PlansReplay ==
    \A p \in plans :
        /\ IsPlan(p)
        /\ p.conflicts = {} => Preflight(p, p.base) /\ Projects(p, p.base)

\* A title one link manages is the title that link last observed, and no second
\* link manages it.
TitleFollowsItsSource ==
    \A i \in Known(workflow) :
        LET managers == {l \in workflow.items[i].links : l.managed}
        IN  /\ Cardinality(managers) <= 1
            /\ \A l \in managers : workflow.items[i].title = l.last.title

\* A link read from a provider stays, with its scope and its fields, and what it
\* has observed never goes back in time, whatever plans are applied in whatever order.
LinksNeverGoBack ==
    [][\A i \in Known(workflow) : \A l \in workflow.items[i].links :
        \E m \in LinkOf(workflow', i, l.object) :
            ~l.legacy => /\ m.scope = l.scope /\ m.managed = l.managed
                         /\ m.last = l.last \/ m.last.at > l.last.at]_importVars

\* What was applied is represented: the same snapshot, previewed again, has
\* nothing to add.
AppliedIsRepresented ==
    [][\A p \in receipts' \ receipts :
        PlanOf(p.snapshot, workflow', p.binding).events = <<>>]_importVars

\* docs/specs/0015, 0020: what is committed was so when the apply began, read after
\* it was asked for, and what is said of one pull request was read under one
\* revision of it, although every fact is read at a time of its own.
FactsHeldTogether ==
    [][\A p \in receipts' \ receipts :
        /\ \A o \in Claimed(p) : p.snapshot.facts[o].k >= applying.from[o]
        /\ Cardinality(applying.seen) <= 1]_importVars
=============================================================================
