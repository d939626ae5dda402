-------------------------- MODULE ControlRoomPage --------------------------
(***************************************************************************)
(* The Control Room as an operator meets it: the page (public/app.js,      *)
(* dashboard-state.js, provider-state.js) and the requests it sends to the *)
(* server (server.ts, provider-sync-projection.ts).                        *)
(*                                                                         *)
(* The page polls the dashboard and the provider panel, each through a     *)
(* gate that only lets the newest request's answer in.  Commands are       *)
(* separate requests: while one is under way the page is busy.  Requests   *)
(* are answered in any order, late, or not at all, and one that was given  *)
(* up may still reach the server.  After a decision or a reconciliation a  *)
(* fence keeps both closed until a later request has been answered.        *)
(*                                                                         *)
(* The server is what the other modules describe, reduced to what the page *)
(* reads: which review of an item stands, how it was decided, whether it   *)
(* runs, and how far the Linear transition of each decision has come.      *)
(* Abstracted: demo mode, plans, observation cards, rendering and wording; *)
(* the evidence an acceptance needs is taken to be there.                  *)
(***************************************************************************)
EXTENDS Naturals, FiniteSets

CONSTANTS
    WorkItem,
    First,        \* the work item the list begins with
    MaxChanges,   \* bound: reviews of an item that facts bring to an end
    MaxCommands,  \* bound: commands
    MaxPolls,     \* bound: polls while neither the first snapshot nor a fence waits for one
    MaxFailures,  \* bound: requests that fail
    Nothing

VARIABLES
    item,       \* the workflow: per work item [review, decision, attempt, run]
    decisions,  \* the decisions recorded: [item, review, decision, reason, id]
    operations, \* the Linear transitions: [item, id, status, version]
    requests,   \* on their way, or answered and not yet taken:
                \* [to, nr, body, open, at, answer]
    requestGate, providerRequestGate,  \* latestIssued of each
    truthFence,  \* acceptanceTruthFence: per source and item the sequence, or 0
    latestSnapshot, selectedWorkItemId,
    panel,      \* providerPanelState: [phase, model]
    drafts,     \* acceptanceDrafts: per item [review, reason, id], or Nothing
    owner,      \* acceptanceDraftWorkItemId
    reason,     \* the text in the field: the item it was written for, or Nothing
    command,    \* what makes the page busy: [kind, item, body, awaits], or Nothing
    polling,     \* the number of the poll under way, or 0
    told,       \* history: per item, the newest review shown, the review that stood and
                \* the transitions that were there when the last command was answered
    asked,      \* history: the decisions the page sent
    commands, polls, failures

pageVars ==
    <<requestGate, providerRequestGate, truthFence, latestSnapshot, selectedWorkItemId, panel,
      drafts, owner, reason, command, polling>>
controlRoomVars ==
    <<item, decisions, operations, requests, pageVars, told, asked, commands, polls, failures>>

ItemState ==
    [review : Nat, decision : {Nothing} \cup [decision : {"accepted", "rejected"}, id : Nat],
     attempt : BOOLEAN, run : {"no", "running", "cancelling"}]
Snapshot == [WorkItem -> ItemState]
Decision ==
    [item : WorkItem, review : Nat, decision : {"accepted", "rejected"},
     reason : WorkItem \cup {Nothing}, id : Nat]
Transition ==
    [item : WorkItem, id : Nat, version : Nat,
     status : {"approved", "transitioned", "outcome_unknown", "reconciled", "reconciliation_absent"}]
Draft == [review : Nat, id : Nat \cup {Nothing}, reason : WorkItem \cup {Nothing}]

\* Nothing is neither a number nor a draft.
ASSUME PageAssumption == First \in WorkItem /\ Nothing \notin Nat /\ Nothing \notin Draft

Sources == {"dashboard", "provider"}
NoFence == [s \in Sources |-> [w \in WorkItem |-> 0]]

PageInit ==
    /\ item = [w \in WorkItem |->
                [review |-> 1, decision |-> Nothing, attempt |-> FALSE, run |-> "no"]]
    /\ decisions = {} /\ operations = {}
    /\ requests = {[to |-> "dashboard", nr |-> 1, body |-> Nothing, open |-> TRUE, at |-> "sent",
                    answer |-> Nothing]}  \* loadDashboard
    /\ requestGate = 1 /\ providerRequestGate = 0
    /\ truthFence = NoFence
    /\ latestSnapshot = Nothing /\ selectedWorkItemId = Nothing
    /\ panel = [phase |-> "idle", model |-> Nothing]
    /\ drafts = [w \in WorkItem |-> Nothing] /\ owner = Nothing /\ reason = Nothing
    /\ command = Nothing /\ polling = 0
    /\ told = [w \in WorkItem |-> [shown |-> 0, review |-> 0, operations |-> {}]]
    /\ asked = {} /\ commands = 0 /\ polls = 0 /\ failures = 0

-----------------------------------------------------------------------------
(* What the page offers.                                                   *)

busy == command # Nothing

\* isActive of the runs in the snapshot, and its free slots (one run at a time).
NoneActive(snapshot) == \A w \in WorkItem : snapshot[w].run = "no"

IsAccepted(i) == i.decision # Nothing /\ i.decision.decision = "accepted"

\* createRunControlState
CanRun(w) ==
    /\ latestSnapshot # Nothing /\ ~busy
    /\ ~IsAccepted(latestSnapshot[w]) /\ NoneActive(latestSnapshot)

CanCancel(w) == latestSnapshot # Nothing /\ ~busy /\ latestSnapshot[w].run = "running"

\* createAcceptanceControlState
CanDecide(w) ==
    /\ latestSnapshot # Nothing /\ ~busy
    /\ latestSnapshot[w].decision = Nothing /\ ~latestSnapshot[w].attempt
    /\ truthFence.dashboard[w] = 0

\* Mutant: any transition of the work item is taken for that of its decision.
MatchingAny(w) == {o \in panel.model : o.item = w}

Matching(w) == {o \in panel.model : o.item = w /\ o.id = latestSnapshot[w].decision.id}

\* The transition the page shows beside an accepted item, if any.
Shown(w) ==
    IF latestSnapshot # Nothing /\ IsAccepted(latestSnapshot[w]) /\ panel.model # Nothing
    THEN Matching(w) ELSE {}

\* Mutant: the provider fence is not looked at.
CanReconcileUnfenced(w, o) ==
    /\ o \in Shown(w) /\ ~busy /\ truthFence.dashboard[w] = 0
    /\ o.status \in {"outcome_unknown", "reconciliation_absent"}

CanReconcile(w, o) ==
    /\ o \in Shown(w) /\ ~busy
    /\ \A s \in Sources : truthFence[s][w] = 0
    /\ o.status \in {"outcome_unknown", "reconciliation_absent"}

\* projectLinearSyncState: the tone "ready"
ShowsDone(w) == \E o \in Shown(w) : o.status \in {"transitioned", "reconciled"}

-----------------------------------------------------------------------------
(* Requests.                                                               *)

PageRequest(to, nr, body) ==
    [to |-> to, nr |-> nr, body |-> body, open |-> TRUE, at |-> "sent", answer |-> Nothing]

\* requestSnapshot: the gate numbers dashboards and the commands that answer one.
IsGated(r) == r.to \in {"dashboard", "run", "cancel"}

\* isLatest
IsLatest(r) ==
    IF r.to = "providers" THEN r.nr = providerRequestGate ELSE IsGated(r) => r.nr = requestGate

\* AcceptanceTruthFence.confirm
Confirm(source, nr) ==
    [truthFence EXCEPT ![source] = [w \in WorkItem |-> IF nr >= @[w] THEN 0 ELSE @[w]]]

\* reduceProviderPanelState: "request" and "failure"
Asking == [panel EXCEPT !.phase = IF panel.model = Nothing THEN "loading" ELSE "refreshing"]
Failing == [panel EXCEPT !.phase = IF panel.model = Nothing THEN "error" ELSE "stale"]

\* isNonRegressingProviderModel
IsNonRegressing(current, incoming) ==
    \A o \in current : \E i \in incoming :
        i.id = o.id /\ (i.version > o.version \/ i = o)

\* reduceProviderPanelState: "success"
Adopting(model) ==
    IF panel.model # Nothing /\ ~IsNonRegressing(panel.model, model)
    THEN [panel EXCEPT !.phase = "stale"]
    ELSE [phase |-> IF model = {} THEN "empty" ELSE "ready", model |-> model]

\* The draft of an item in a snapshot: kept for its review, its text also after it.
DraftFor(w, snapshot, existing) ==
    IF existing # Nothing /\ existing.review = snapshot[w].review THEN existing
    ELSE [review |-> snapshot[w].review, id |-> Nothing,
          reason |-> IF existing = Nothing THEN Nothing ELSE existing.reason]

\* Mutant: the text in the field is left when another item is selected.
InitializeDraftKeepsText(w, snapshot) ==
    LET draft == DraftFor(w, snapshot, drafts[w]) IN
    /\ drafts' = [drafts EXCEPT ![w] = draft]
    /\ owner' = w
    /\ UNCHANGED reason

\* initializeAcceptanceDraft; what was typed has been saved by the field's handler.
InitializeDraft(w, snapshot) ==
    LET draft == DraftFor(w, snapshot, drafts[w]) IN
    /\ drafts' = [drafts EXCEPT ![w] = draft]
    /\ owner' = w
    /\ reason' = draft.reason

Larger(a, b) == IF a > b THEN a ELSE b

\* render; the first snapshot also asks for the provider panel.
Render(snapshot) ==
    LET w == IF selectedWorkItemId = Nothing THEN First ELSE selectedWorkItemId IN
    /\ latestSnapshot' = snapshot
    /\ selectedWorkItemId' = w
    /\ InitializeDraft(w, snapshot)
    /\ told' = [v \in WorkItem |-> [told[v] EXCEPT !.shown = Larger(@, snapshot[v].review)]]

\* requestProviderSnapshot
AskProviders == PageRequest("providers", providerRequestGate + 1, Nothing)

\* Only polls that nothing waits for are counted, so that those that matter come.
Counted(source) ==
    IF latestSnapshot = Nothing \/ \E w \in WorkItem : truthFence[source][w] # 0
    THEN UNCHANGED polls
    ELSE polls < MaxPolls /\ polls' = polls + 1

\* pollPersistentDashboard, every 1.5 seconds.  Bound: none before the page's first
\* request is over.
PollDashboard ==
    /\ ~busy /\ polling = 0 /\ (latestSnapshot = Nothing => requests = {})
    /\ Counted("dashboard")
    /\ polling' = requestGate + 1
    /\ requestGate' = requestGate + 1
    /\ requests' = requests \cup {PageRequest("dashboard", requestGate + 1, Nothing)}
    /\ UNCHANGED <<item, decisions, operations, providerRequestGate, truthFence, latestSnapshot,
                   selectedWorkItemId, panel, drafts, owner, reason, command, told, asked, commands,
                   failures>>

\* pollPersistentProviders, every 5 seconds, or the refresh button
PollProviders ==
    /\ latestSnapshot # Nothing /\ panel.phase \notin {"loading", "refreshing"}
    /\ Counted("provider")
    /\ panel' = Asking
    /\ providerRequestGate' = providerRequestGate + 1
    /\ requests' = requests \cup {AskProviders}
    /\ UNCHANGED <<item, decisions, operations, requestGate, truthFence, latestSnapshot,
                   selectedWorkItemId, drafts, owner, reason, command, polling, told, asked, commands,
                   failures>>

-----------------------------------------------------------------------------
(* What the operator does.                                                 *)

\* Bound: the operator begins when the panel has come and ends with the last command.
OperatorActs == commands < MaxCommands /\ panel.phase \notin {"idle", "loading"}

\* selectWorkItem; the list is disabled while the page is busy.
Select(w) ==
    /\ latestSnapshot # Nothing /\ ~busy /\ w # selectedWorkItemId
    /\ OperatorActs
    /\ selectedWorkItemId' = w
    /\ InitializeDraft(w, latestSnapshot)
    /\ UNCHANGED <<item, decisions, operations, requests, requestGate, providerRequestGate,
                   truthFence, latestSnapshot, panel, command, polling, told, asked, commands, polls,
                   failures>>

\* The handler of the field, with saveAcceptanceDraft.
Write ==
    /\ owner # Nothing /\ CanDecide(owner) /\ reason # owner
    /\ OperatorActs
    /\ reason' = owner
    /\ drafts' = [drafts EXCEPT ![owner].reason = owner]
    /\ UNCHANGED <<item, decisions, operations, requests, requestGate, providerRequestGate,
                   truthFence, latestSnapshot, selectedWorkItemId, panel, owner, command, polling,
                   told, asked, commands, polls, failures>>

\* setBusy(true) and the request of a command
Send(request, accepting) ==
    /\ OperatorActs
    /\ commands' = commands + 1
    /\ requests' = requests \cup {request}
    /\ command' = [item |-> selectedWorkItemId, accepting |-> accepting,
                   awaits |-> {<<request.to, request.nr>>}]
    /\ UNCHANGED <<item, decisions, operations, providerRequestGate, truthFence, latestSnapshot,
                   selectedWorkItemId, panel, owner, reason, polling, told, polls, failures>>

\* runCodex, cancelCodex
Run ==
    LET body == [item |-> selectedWorkItemId] IN
    /\ selectedWorkItemId # Nothing
    /\ requestGate' = requestGate + 1
    /\ \/ CanRun(selectedWorkItemId)
          /\ Send(PageRequest("run", requestGate + 1, body), FALSE)
       \/ CanCancel(selectedWorkItemId)
          /\ Send(PageRequest("cancel", requestGate + 1, body), FALSE)
    /\ UNCHANGED <<drafts, asked>>

\* Mutant: every click makes a new decision id.
DraftSentAnew(w) ==
    [DraftFor(w, latestSnapshot, drafts[w]) EXCEPT !.reason = reason, !.id = commands + 1]

\* requireAcceptanceDraft, and the id the draft keeps for its review
DraftSent(w) ==
    LET draft == [DraftFor(w, latestSnapshot, drafts[w]) EXCEPT !.reason = reason] IN
    IF draft.id = Nothing THEN [draft EXCEPT !.id = commands + 1] ELSE draft

\* submitAcceptance
SubmitAcceptance(decision) ==
    LET w == selectedWorkItemId
        draft == DraftSent(w)
        body == [item |-> w, review |-> latestSnapshot[w].review, decision |-> decision,
                 reason |-> reason, id |-> draft.id] IN
    /\ w # Nothing /\ CanDecide(w) /\ reason # Nothing
    /\ drafts' = [drafts EXCEPT ![w] = draft]
    /\ asked' = asked \cup {body}
    /\ Send(PageRequest("acceptance", commands + 1, body), decision = "accepted")
    /\ UNCHANGED requestGate

\* reconcileAcceptance
ReconcileAcceptance ==
    /\ selectedWorkItemId # Nothing
    /\ \E o \in Shown(selectedWorkItemId) :
        /\ CanReconcile(selectedWorkItemId, o)
        /\ Send(PageRequest("reconcile", commands + 1, [id |-> o.id]), TRUE)
    /\ UNCHANGED <<requestGate, drafts, asked>>

-----------------------------------------------------------------------------
(* The server.                                                             *)

\* Answers: refused or not, with a snapshot, a panel, or whether an operation is named.
Answer(ok, snapshot, model, key) == [ok |-> ok, snapshot |-> snapshot, model |-> model, key |-> key]

\* What is left of a request when the server has answered it.
WithAnswer(r, answer) ==
    (requests \ {r}) \cup
        (IF r.open THEN {[r EXCEPT !.at = "answered", !.answer = answer]} ELSE {})

Untouched == UNCHANGED <<pageVars, told, asked, commands, polls, failures>>

\* GET /api/dashboard (buildPersistentSnapshot)
ServeDashboard(r) ==
    /\ r.to = "dashboard" /\ r.at = "sent"
    /\ requests' = WithAnswer(r, Answer(TRUE, item, Nothing, FALSE))
    /\ UNCHANGED <<item, decisions, operations>> /\ Untouched

\* GET /api/providers (ProviderSyncProjectionQuery.list)
ServeProviders(r) ==
    /\ r.to = "providers" /\ r.at = "sent"
    /\ requests' = WithAnswer(r, Answer(TRUE, Nothing, operations, FALSE))
    /\ UNCHANGED <<item, decisions, operations>> /\ Untouched

\* A run is admitted to a free slot, whatever becomes of it; a cancellation is refused
\* when nothing runs, and may be while a run writes down how it ended.
Admits(r) ==
    LET run == item[r.body.item].run IN
    CASE r.to = "run"                            -> {NoneActive(item)}
      [] r.to = "cancel" /\ run = "no"           -> {FALSE}
      [] r.to = "cancel" /\ run = "cancelling"   -> {TRUE}
      [] r.to = "cancel" /\ run = "running"      -> BOOLEAN

\* POST .../run and .../cancel: refused, or done and answered with a snapshot
ServeRun(r) ==
    /\ r.to \in {"run", "cancel"} /\ r.at = "sent"
    /\ \E can \in Admits(r) :
        /\ item' = IF ~can THEN item
                   ELSE [item EXCEPT ![r.body.item].run =
                            IF r.to = "run" THEN "running" ELSE "cancelling"]
        /\ requests' = WithAnswer(r, Answer(can, item', Nothing, FALSE))
    /\ UNCHANGED <<decisions, operations>> /\ Untouched

\* POST .../acceptance: the decision is recorded, recognised as recorded, or refused
\* (AcceptanceDeliveryCoordinator.decide, first half).
RecordDecision(r) ==
    LET b == r.body
        i == item[b.item]
        isNew == (\A d \in decisions : d.id # b.id) /\ i.review = b.review /\ i.decision = Nothing
                    /\ ~i.attempt IN
    /\ r.to = "acceptance" /\ r.at = "sent"
    /\ decisions' = IF isNew THEN decisions \cup {b} ELSE decisions
    /\ item' = IF isNew
               THEN [item EXCEPT ![b.item].review = @ + 1,
                                 ![b.item].decision = [decision |-> b.decision, id |-> b.id]]
               ELSE item
    /\ requests' = IF b \in decisions' THEN (requests \ {r}) \cup {[r EXCEPT !.at = "delivering"]}
                   ELSE WithAnswer(r, Answer(FALSE, Nothing, Nothing, FALSE))
    /\ UNCHANGED operations /\ Untouched

\* The second half: a transition is prepared and approved for what was accepted ...
PrepareTransition(r) ==
    LET b == r.body IN
    /\ r.to = "acceptance" /\ r.at = "delivering"
    /\ b.decision = "accepted" /\ \A o \in operations : o.id # b.id
    /\ operations' = operations \cup
            {[item |-> b.item, id |-> b.id, status |-> "approved", version |-> 1]}
    /\ UNCHANGED <<item, decisions, requests>> /\ Untouched

\* ... and submitted, and the answer names it, unless something failed on the way.  A
\* transition that failed is to the page what an approved one is: not done, not uncertain.
DeliverTransition(r) ==
    LET approved == {o \in operations : o.id = r.body.id /\ o.status = "approved"} IN
    /\ r.to = "acceptance" /\ r.at = "delivering"
    /\ operations' \in {operations} \cup
        {(operations \ approved) \cup {[o EXCEPT !.status = s, !.version = @ + 1] : o \in approved} :
            s \in {"transitioned", "outcome_unknown"}}
    /\ \E key \in {FALSE, \E o \in operations' : o.id = r.body.id} :
        requests' = WithAnswer(r, Answer(TRUE, Nothing, Nothing, key))
    /\ UNCHANGED <<item, decisions>> /\ Untouched

\* POST .../reconcile: an uncertain transition is looked up, and the answer names it
\* unless something failed.
ReconcileTransition(r) ==
    /\ r.to = "reconcile" /\ r.at = "sent"
    /\ \E o \in operations :
        /\ o.id = r.body.id
        /\ operations' \in {operations} \cup
            (IF o.status \in {"outcome_unknown", "reconciliation_absent"}
             THEN {(operations \ {o}) \cup {[o EXCEPT !.status = s, !.version = @ + 1]} :
                       s \in {"reconciled", "reconciliation_absent"}}
             ELSE {})
    /\ \E key \in BOOLEAN : requests' = WithAnswer(r, Answer(TRUE, Nothing, Nothing, key))
    /\ UNCHANGED <<item, decisions>> /\ Untouched

\* A run comes to its attempt.
AttemptStarts(w) ==
    /\ item[w].run # "no" /\ ~item[w].attempt /\ ~IsAccepted(item[w])
    /\ item' = [item EXCEPT ![w].attempt = TRUE, ![w].decision = Nothing, ![w].review = @ + 1]
    /\ UNCHANGED <<decisions, operations, requests>> /\ Untouched

RunEnds(w) ==
    /\ item[w].run # "no"
    /\ item' = [item EXCEPT ![w].run = "no", ![w].attempt = FALSE,
                            ![w].review = IF item[w].attempt THEN @ + 1 ELSE @]
    /\ UNCHANGED <<decisions, operations, requests>> /\ Untouched

\* A fact arrives that revokes the decision and opens another review.  Bound: one that
\* comes before a decision does to the page what a run does.
Fact(w) ==
    /\ item[w].decision # Nothing /\ item[w].review <= MaxChanges
    /\ item' = [item EXCEPT ![w].decision = Nothing, ![w].review = @ + 1]
    /\ UNCHANGED <<decisions, operations, requests>> /\ Untouched

-----------------------------------------------------------------------------
(* Answers.                                                                *)

\* What the command still waits for when r has been settled.
Awaiting(r) ==
    IF ~busy \/ <<r.to, r.nr>> \notin command.awaits THEN command
    ELSE IF command.awaits = {<<r.to, r.nr>>} THEN Nothing
    ELSE [command EXCEPT !.awaits = @ \ {<<r.to, r.nr>>}]

\* What a request leaves behind that failed for the page before the server was done.
Abandoned(r) ==
    IF r.at = "answered" \/ r.to \in {"dashboard", "providers"} THEN {}
    ELSE {[r EXCEPT !.open = FALSE]}

\* How the page hears of a request: its answer, a refusal, or that it was lost.
Settles(r, how) ==
    /\ r.open
    /\ IF how = "lost" THEN failures < MaxFailures /\ failures' = failures + 1
       ELSE /\ r.at = "answered" /\ how = (IF r.answer.ok THEN "answered" ELSE "refused")
            /\ UNCHANGED failures

\* A dashboard, or the snapshot that answers a run or cancel command, which then
\* reads the dashboard again.
TakeSnapshot(r, how) ==
    LET done == how = "answered" /\ IsLatest(r)
        again == done /\ r.to # "dashboard"
        ask == AskProviders
        next == PageRequest("dashboard", requestGate + 1, Nothing)
        opens == done /\ latestSnapshot = Nothing IN
    /\ IsGated(r) /\ Settles(r, how)
    /\ IF done THEN truthFence' = Confirm("dashboard", r.nr) /\ Render(r.answer.snapshot)
       ELSE UNCHANGED <<truthFence, latestSnapshot, selectedWorkItemId, drafts, owner, reason, told>>
    /\ polling' = IF r.nr = polling THEN 0 ELSE polling
    /\ requestGate' = IF again THEN requestGate + 1 ELSE requestGate
    /\ command' = IF again THEN [command EXCEPT !.awaits = {<<"dashboard", requestGate + 1>>}]
                  ELSE Awaiting(r)
    /\ providerRequestGate' = IF opens THEN ask.nr ELSE providerRequestGate
    /\ panel' = IF opens THEN Asking ELSE panel
    /\ requests' = (requests \ {r}) \cup Abandoned(r)
                        \cup (IF again THEN {next} ELSE {}) \cup (IF opens THEN {ask} ELSE {})
    /\ UNCHANGED <<item, decisions, operations, asked, commands, polls>>

\* requestProviderSnapshot
TakePanel(r, how) ==
    LET ok == how = "answered" IN
    /\ r.to = "providers" /\ Settles(r, how)
    /\ panel' = IF ~IsLatest(r) THEN panel ELSE IF ok THEN Adopting(r.answer.model) ELSE Failing
    /\ truthFence' = IF ok /\ IsLatest(r) /\ panel'.phase \in {"ready", "empty"}
                THEN Confirm("provider", r.nr) ELSE truthFence
    /\ command' = Awaiting(r)
    /\ requests' = requests \ {r}
    /\ UNCHANGED <<item, decisions, operations, requestGate, providerRequestGate, latestSnapshot,
                   selectedWorkItemId, drafts, owner, reason, polling, told, asked, commands, polls>>

\* providerTruthRequired: Linear may have moved, as the answer says or, if it was
\* lost, as the command could have made it.
LinearMayHaveMoved(r, how) ==
    (how = "answered" /\ r.answer.key) \/ (how = "lost" /\ command.accepting)

\* Mutant: the fence is raised only for what was answered.
SourcesFencedIfAnswered(r, how) ==
    IF how # "answered" THEN {}
    ELSE (IF r.to = "acceptance" THEN {"dashboard"} ELSE {})
            \cup (IF LinearMayHaveMoved(r, how) THEN {"provider"} ELSE {})

\* What the page must read again before the next decision or reconciliation.
SourcesFenced(r, how) ==
    (IF r.to = "acceptance" THEN {"dashboard"} ELSE {})
        \cup (IF LinearMayHaveMoved(r, how) THEN {"provider"} ELSE {})

\* submitAcceptance and reconcileAcceptance, with beginAcceptanceTruthRefresh and
\* refreshAcceptanceTruth
TakeCommand(r, how) ==
    LET w == command.item
        sources == SourcesFenced(r, how) IN
    /\ r.to \in {"acceptance", "reconcile"} /\ Settles(r, how)
    /\ truthFence' =
        [s \in Sources |-> IF s \notin sources THEN truthFence[s]
                           ELSE [truthFence[s] EXCEPT ![w] = 1 + IF s = "dashboard" THEN requestGate
                                                                ELSE providerRequestGate]]
    /\ requestGate' = requestGate + 1 /\ providerRequestGate' = providerRequestGate + 1
    /\ panel' = Asking
    /\ command' = [command EXCEPT !.awaits =
                        {<<"dashboard", requestGate + 1>>, <<"providers", providerRequestGate + 1>>}]
    /\ requests' = (requests \ {r}) \cup Abandoned(r)
                        \cup {PageRequest("dashboard", requestGate + 1, Nothing), AskProviders}
    /\ told' = [told EXCEPT
                    ![w].review = IF r.to = "acceptance" THEN item[w].review ELSE @,
                    ![w].operations = IF LinearMayHaveMoved(r, how)
                                      THEN {o \in operations : o.item = w} ELSE @]
    /\ UNCHANGED <<item, decisions, operations, latestSnapshot, selectedWorkItemId, drafts, owner,
                   reason, polling, asked, commands, polls>>

-----------------------------------------------------------------------------
Take(r) ==
    \E how \in {"answered", "refused", "lost"} :
        TakeSnapshot(r, how) \/ TakePanel(r, how) \/ TakeCommand(r, how)

Work(r) ==
    \/ ServeDashboard(r) \/ ServeProviders(r) \/ ServeRun(r)
    \/ RecordDecision(r) \/ PrepareTransition(r) \/ DeliverTransition(r) \/ ReconcileTransition(r)

\* What was sent over the loopback interface is answered in the end, or lost.
Served == \E r \in requests : Work(r)
Taken == \E r \in requests : Take(r)

Operator ==
    \/ \E w \in WorkItem : Select(w)
    \/ Write \/ Run \/ ReconcileAcceptance
    \/ \E decision \in {"accepted", "rejected"} : SubmitAcceptance(decision)

PageNext ==
    \/ PollDashboard \/ PollProviders \/ Operator
    \/ Served \/ Taken
    \/ \E w \in WorkItem : AttemptStarts(w) \/ RunEnds(w) \/ Fact(w)

PageSpec == PageInit /\ [][PageNext]_controlRoomVars

-----------------------------------------------------------------------------
Answers ==
    [ok : BOOLEAN, snapshot : Snapshot \cup {Nothing}, model : (SUBSET Transition) \cup {Nothing},
     key : BOOLEAN]
Requests ==
    [to : {"dashboard", "providers", "run", "cancel", "acceptance", "reconcile"}, nr : Nat,
     body : Decision \cup [item : WorkItem] \cup [id : Nat] \cup {Nothing}, open : BOOLEAN,
     at : {"sent", "delivering", "answered"}, answer : Answers \cup {Nothing}]

PageTypeOK ==
    /\ item \in Snapshot /\ decisions \subseteq Decision /\ operations \subseteq Transition
    /\ requests \subseteq Requests /\ requestGate \in Nat /\ providerRequestGate \in Nat
    /\ truthFence \in [Sources -> [WorkItem -> Nat]]
    /\ latestSnapshot \in Snapshot \cup {Nothing}
    /\ selectedWorkItemId \in WorkItem \cup {Nothing}
    /\ panel \in [phase : {"idle", "loading", "refreshing", "ready", "empty", "stale", "error"},
                  model : (SUBSET Transition) \cup {Nothing}]
    /\ drafts \in [WorkItem -> Draft \cup {Nothing}] /\ reason \in WorkItem \cup {Nothing}
    /\ told \in [WorkItem -> [shown : Nat, review : Nat, operations : SUBSET Transition]]
    /\ asked \subseteq Decision /\ commands \in Nat

-----------------------------------------------------------------------------
\* What the page shows never goes back, and what it offers rests on what stood when
\* the operator's last command about it was over, whether that was answered, refused
\* or lost and whatever became of the refresh: nobody decides or reconciles again from
\* the page as it was.  A transition shown as done is that of the decision shown.
PageIsCurrent ==
    \A w \in WorkItem :
        /\ latestSnapshot # Nothing => latestSnapshot[w].review >= told[w].shown
        /\ CanDecide(w) => latestSnapshot[w].review >= told[w].review
        /\ \A o \in Shown(w) : CanReconcile(w, o) =>
            \A t \in told[w].operations : t.id = o.id => o.version >= t.version
        /\ ShowsDone(w) => \E o \in operations :
            o.id = latestSnapshot[w].decision.id /\ o.status \in {"transitioned", "reconciled"}

\* A decision is recorded with the reason that was written for its item; an id names
\* one review of one item; and who repeats a decision whose answer was lost is not
\* told that it failed when it stands.
DecidedAsRead ==
    /\ \A d \in decisions : d.reason = d.item
    /\ \A a, b \in asked : a.id = b.id => a.item = b.item /\ a.review = b.review
    /\ \A r \in requests : (r.to = "acceptance" /\ r.at = "answered" /\ ~r.answer.ok) =>
        \A d \in decisions : [d EXCEPT !.id = Nothing] # [r.body EXCEPT !.id = Nothing]
=============================================================================
