------------------------ MODULE ControlRoomPageProofs ------------------------
(***************************************************************************)
(* ControlRoomPage: what the page shows is current, and what is recorded   *)
(* is what was meant, for any work items, bounds and order of answers.     *)
(*                                                                         *)
(* The invariant says why: of the answers on their way only that of the    *)
(* newest request is taken, and it is newer than all the page was told;    *)
(* the fences are raised together with what they wait for; a draft is of   *)
(* the review last shown, and its id names that review.  What the server   *)
(* does is first reduced to one step: reviews grow, operations are         *)
(* overwritten by later versions, and one request gets its answer.         *)
(***************************************************************************)
EXTENDS ControlRoomPage, TLAPS

-----------------------------------------------------------------------------
(* The invariant.                                                          *)

\* Of the requests whose answer is still waited for, only one has the newest number.
Gated == {r \in requests : IsGated(r) /\ r.open}
Gates ==
    /\ \A r \in requests : IsGated(r) => r.nr <= requestGate
    /\ \A r \in requests : r.to = "providers" => r.nr <= providerRequestGate
    /\ \A r \in requests : r.at = "answered" => r.open
    /\ \A r, q \in Gated : r.nr = q.nr => r = q

HasSnapshot(r) == IsGated(r) /\ r.at = "answered" /\ r.answer.ok
HasPanel(r) == r.to = "providers" /\ r.at = "answered"

\* No operation is older in this model than the page was told it is.
CaughtUp(model, w) == \A o \in model, t \in told[w].operations : t.id = o.id => o.version >= t.version
IsDone(o) == o.status \in {"transitioned", "reconciled"}

ServerIsAhead ==
    /\ \A w \in WorkItem :
        /\ told[w].shown <= item[w].review /\ told[w].review <= item[w].review
        /\ CaughtUp(operations, w)
        /\ \A t \in told[w].operations : \E o \in operations : o.id = t.id
    /\ \A o, p \in operations : o.id = p.id => o = p

\* What an answer holds was true, and the newest answer is newer than all that was told.
SnapshotIsNews(r) ==
    /\ r.answer.snapshot \in Snapshot
    /\ \A w \in WorkItem : r.answer.snapshot[w].review <= item[w].review
    /\ r.nr = requestGate => \A w \in WorkItem :
        /\ told[w].shown <= r.answer.snapshot[w].review
        /\ told[w].review <= r.answer.snapshot[w].review

PanelIsNews(r) ==
    /\ r.answer.model \in SUBSET Transition
    /\ \A o \in r.answer.model : IsDone(o) => o \in operations
    /\ r.nr = providerRequestGate => \A w \in WorkItem : CaughtUp(r.answer.model, w)

AnswersAreNews ==
    \A r \in requests : (HasSnapshot(r) => SnapshotIsNews(r)) /\ (HasPanel(r) => PanelIsNews(r))

PageFollows ==
    /\ latestSnapshot # Nothing => \A w \in WorkItem :
        /\ latestSnapshot[w].review = told[w].shown
        /\ truthFence["dashboard"][w] = 0 => told[w].review <= told[w].shown
    /\ panel.model # Nothing =>
        /\ \A o \in panel.model : IsDone(o) => o \in operations
        /\ \A w \in WorkItem : truthFence["provider"][w] = 0 => CaughtUp(panel.model, w)

\* The draft is of a review that was shown, and its id names that review.
DraftFollows(w) ==
    /\ drafts[w].reason \in {Nothing, w}
    /\ drafts[w].review <= told[w].shown
    /\ drafts[w].id # Nothing =>
        /\ drafts[w].id <= commands
        /\ \E a \in asked : a.id = drafts[w].id
        /\ \A a \in asked : a.id = drafts[w].id => a.item = w /\ a.review = drafts[w].review

DraftsFollow ==
    /\ reason \in {Nothing, selectedWorkItemId} /\ owner = selectedWorkItemId
    /\ selectedWorkItemId # Nothing => drafts[selectedWorkItemId] # Nothing
    /\ \A w \in WorkItem : drafts[w] # Nothing => DraftFollows(w)

AskedOnce ==
    /\ \A a \in asked :
        /\ a.reason = a.item /\ a.id <= commands
        /\ drafts[a.item] # Nothing /\ a.review <= drafts[a.item].review
        /\ a.review = drafts[a.item].review => a.id = drafts[a.item].id
    /\ \A a, b \in asked : a.id = b.id <=> (a.item = b.item /\ a.review = b.review)
    /\ \A r \in requests :
        /\ r.to = "acceptance" => r.body \in asked
        /\ r.to \in {"run", "cancel"} => r.body \in [item : WorkItem]

\* The review a request is about has come to an end.
IsOver(b) ==
    b.review < item[b.item].review \/ item[b.item].decision # Nothing \/ item[b.item].attempt

WasRefused(r) == r.to = "acceptance" /\ r.at = "answered" /\ ~r.answer.ok
SameDecision(d, b) == d.item = b.item /\ d.review = b.review /\ d.decision = b.decision

Decided ==
    /\ decisions \subseteq asked
    /\ \A d \in decisions : d.review < item[d.item].review
    /\ \A d, e \in decisions : (d.item = e.item /\ d.review = e.review) => d = e
    /\ \A r \in requests : WasRefused(r) =>
        IsOver(r.body) /\ \A d \in decisions : ~SameDecision(d, r.body)

PageInv ==
    /\ PageTypeOK /\ Gates /\ ServerIsAhead /\ AnswersAreNews /\ PageFollows /\ DraftsFollow
    /\ AskedOnce /\ Decided

-----------------------------------------------------------------------------
(* What every step of the server is to the page.                           *)

\* What was over is over, and reviews are counted up.
MovesOn(i, j) ==
    /\ i.review <= j.review
    /\ (i.review = j.review /\ (i.decision # Nothing \/ i.attempt))
            => (j.decision # Nothing \/ j.attempt)

\* An operation is overwritten by a later version of itself, and not at all when it is done.
OperationsMoveOn ==
    /\ \A o \in operations : \E p \in operations' : p.id = o.id
    /\ \A o \in operations, p \in operations' : p.id = o.id => p.version >= o.version
    /\ \A o \in operations : IsDone(o) => o \in operations'
    /\ \A o, p \in operations' : o.id = p.id => o = p

IsRecorded(b) ==
    /\ b \in asked /\ decisions' = decisions \cup {b}
    /\ item[b.item].review = b.review /\ item'[b.item].review > b.review
    /\ item[b.item].decision = Nothing /\ ~item[b.item].attempt

IsAnswer(q, r) ==
    /\ q.to = r.to /\ q.nr = r.nr /\ q.body = r.body /\ q.open = r.open
    /\ q.at = "answered" => q.open
    /\ HasSnapshot(q) => q.answer.snapshot = item'
    /\ HasPanel(q) => q.answer.model = operations'
    /\ WasRefused(q) => IsOver(q.body)' /\ \A d \in decisions' : ~SameDecision(d, q.body)

ServerFrame == UNCHANGED <<pageVars, told, asked, commands>>

ServerStep ==
    /\ ServerFrame
    /\ item' \in Snapshot /\ \A w \in WorkItem : MovesOn(item[w], item'[w])
    /\ operations' \subseteq Transition /\ OperationsMoveOn
    /\ decisions' = decisions \/ \E b \in asked : IsRecorded(b)
    /\ \/ requests' \subseteq requests
       \/ \E r \in requests, q \in Requests :
            IsAnswer(q, r) /\ requests' \subseteq (requests \ {r}) \cup {q}

LEMMA ServerTypes == PageInv /\ ServerStep => PageTypeOK'
<1>1. SUFFICES ASSUME PageInv, ServerStep PROVE PageTypeOK' OBVIOUS
<1>2. requests' \subseteq Requests BY <1>1 DEF PageInv, PageTypeOK, ServerStep
<1>3. decisions' \subseteq Decision
  BY <1>1 DEF PageInv, PageTypeOK, ServerStep, IsRecorded
<1>. QED BY <1>1, <1>2, <1>3 DEF PageInv, PageTypeOK, ServerStep, ServerFrame, pageVars

LEMMA ServerGates == PageInv /\ ServerStep => Gates'
<1>1. SUFFICES ASSUME PageInv, ServerStep PROVE Gates' OBVIOUS
<1>2. UNCHANGED <<requestGate, providerRequestGate>> BY <1>1 DEF ServerStep, ServerFrame, pageVars
<1>3. CASE requests' \subseteq requests BY <1>1, <1>2, <1>3 DEF PageInv, Gates, Gated
<1>4. ASSUME NEW r \in requests, NEW q \in Requests, IsAnswer(q, r),
             requests' \subseteq (requests \ {r}) \cup {q}
      PROVE  Gates'
  BY <1>1, <1>2, <1>4 DEF PageInv, Gates, Gated, IsAnswer, IsGated
<1>. QED BY <1>1, <1>3, <1>4 DEF ServerStep

LEMMA ServerStaysAhead == PageInv /\ ServerStep => ServerIsAhead'
<1>1. SUFFICES ASSUME PageInv, ServerStep PROVE ServerIsAhead' OBVIOUS
<1>2. told' = told BY <1>1 DEF ServerStep, ServerFrame
<1>3. ASSUME NEW w \in WorkItem
      PROVE  told[w].shown <= item'[w].review /\ told[w].review <= item'[w].review
  <2>1. told[w].shown \in Nat /\ told[w].review \in Nat /\ item[w].review \in Nat
        /\ item'[w].review \in Nat
    BY <1>1 DEF PageInv, PageTypeOK, ServerStep, Snapshot, ItemState
  <2>2. item[w].review <= item'[w].review BY <1>1 DEF ServerStep, MovesOn
  <2>. QED BY <1>1, <2>1, <2>2 DEF PageInv, ServerIsAhead
<1>4. ASSUME NEW w \in WorkItem, NEW t \in told[w].operations
      PROVE  /\ \E o \in operations' : o.id = t.id
             /\ \A o \in operations' : t.id = o.id => o.version >= t.version
  <2>1. PICK p \in operations : p.id = t.id BY <1>1 DEF PageInv, ServerIsAhead
  <2>2. p.version >= t.version BY <1>1, <2>1 DEF PageInv, ServerIsAhead, CaughtUp
  <2>3. t \in Transition /\ p \in Transition /\ operations' \subseteq Transition
    BY <1>1 DEF PageInv, PageTypeOK, ServerStep
  <2>4. ASSUME NEW o \in operations', t.id = o.id PROVE o.version >= t.version
    <3>1. o.version >= p.version BY <1>1, <2>1, <2>4 DEF ServerStep, OperationsMoveOn
    <3>2. o.version \in Nat /\ p.version \in Nat /\ t.version \in Nat BY <2>3 DEF Transition
    <3>. QED BY <2>2, <3>1, <3>2
  <2>5. \E o \in operations' : o.id = t.id
    BY <1>1, <2>1 DEF ServerStep, OperationsMoveOn
  <2>. QED BY <2>4, <2>5
<1>. QED
  BY <1>1, <1>2, <1>3, <1>4 DEF ServerIsAhead, CaughtUp, ServerStep, OperationsMoveOn

LEMMA ServerAnswersTruly == PageInv /\ ServerStep => AnswersAreNews'
<1>1. SUFFICES ASSUME PageInv, ServerStep PROVE AnswersAreNews' OBVIOUS
<1>2. UNCHANGED <<told, requestGate, providerRequestGate>>
  BY <1>1 DEF ServerStep, ServerFrame, pageVars
<1>3. ServerIsAhead' BY <1>1, ServerStaysAhead
<1>4. ASSUME NEW r \in requests, HasSnapshot(r) PROVE SnapshotIsNews(r)'
  <2>1. SnapshotIsNews(r) BY <1>1, <1>4 DEF PageInv, AnswersAreNews
  <2>2. ASSUME NEW w \in WorkItem PROVE r.answer.snapshot[w].review <= item'[w].review
    <3>1. r.answer.snapshot[w].review \in Nat /\ item[w].review \in Nat /\ item'[w].review \in Nat
      BY <1>1, <2>1 DEF PageInv, PageTypeOK, ServerStep, Snapshot, ItemState, SnapshotIsNews
    <3>2. item[w].review <= item'[w].review BY <1>1 DEF ServerStep, MovesOn
    <3>. QED BY <2>1, <3>1, <3>2 DEF SnapshotIsNews
  <2>. QED BY <1>2, <2>1, <2>2 DEF SnapshotIsNews
<1>5. ASSUME NEW r \in requests, HasPanel(r) PROVE PanelIsNews(r)'
  <2>1. PanelIsNews(r) BY <1>1, <1>5 DEF PageInv, AnswersAreNews
  <2>. QED BY <1>1, <1>2, <2>1 DEF PanelIsNews, CaughtUp, ServerStep, OperationsMoveOn
<1>6. ASSUME NEW q, q.answer.snapshot = item' PROVE SnapshotIsNews(q)'
  BY <1>1, <1>2, <1>3, <1>6 DEF SnapshotIsNews, ServerIsAhead, ServerStep, Snapshot, ItemState, PageInv, PageTypeOK
<1>7. ASSUME NEW q, q.answer.model = operations' PROVE PanelIsNews(q)'
  BY <1>1, <1>3, <1>7 DEF PanelIsNews, ServerIsAhead, ServerStep
<1>8. CASE requests' \subseteq requests
  BY <1>4, <1>5, <1>8 DEF AnswersAreNews, HasSnapshot, HasPanel, IsGated
<1>9. ASSUME NEW r \in requests, NEW q \in Requests, IsAnswer(q, r),
             requests' \subseteq (requests \ {r}) \cup {q}
      PROVE  AnswersAreNews'
  <2>1. HasSnapshot(q) => SnapshotIsNews(q)' BY <1>6, <1>9 DEF IsAnswer
  <2>2. HasPanel(q) => PanelIsNews(q)' BY <1>7, <1>9 DEF IsAnswer
  <2>. QED BY <1>4, <1>5, <1>9, <2>1, <2>2 DEF AnswersAreNews, HasSnapshot, HasPanel, IsGated
<1>. QED BY <1>1, <1>8, <1>9 DEF ServerStep

LEMMA ServerLeavesPage == PageInv /\ ServerStep => PageFollows' /\ DraftsFollow'
<1>1. SUFFICES ASSUME PageInv, ServerStep PROVE PageFollows' /\ DraftsFollow' OBVIOUS
<1>2. UNCHANGED <<pageVars, told, asked, commands>> BY <1>1 DEF ServerStep, ServerFrame
<1>3. \A o \in operations : IsDone(o) => o \in operations'
  BY <1>1 DEF ServerStep, OperationsMoveOn
<1>4. PageFollows' BY <1>1, <1>2, <1>3 DEF PageInv, PageFollows, CaughtUp, pageVars, PageTypeOK
<1>5. DraftsFollow' BY <1>1, <1>2 DEF PageInv, DraftsFollow, DraftFollows, pageVars
<1>. QED BY <1>4, <1>5

LEMMA ServerKeepsAsked == PageInv /\ ServerStep => AskedOnce'
<1>1. SUFFICES ASSUME PageInv, ServerStep PROVE AskedOnce' OBVIOUS
<1>2. UNCHANGED <<drafts, asked, commands>> BY <1>1 DEF ServerStep, ServerFrame, pageVars
<1>3. \A r \in requests' :
        /\ r.to = "acceptance" => r.body \in asked
        /\ r.to \in {"run", "cancel"} => r.body \in [item : WorkItem]
  BY <1>1 DEF PageInv, AskedOnce, ServerStep, IsAnswer
<1>. QED BY <1>1, <1>2, <1>3 DEF PageInv, AskedOnce

\* A decision the page sent is about a review that was shown.
LEMMA AskedWasShown ==
  ASSUME PageInv, NEW a \in asked
  PROVE  /\ a.item \in WorkItem /\ a.review \in Nat /\ item[a.item].review \in Nat
         /\ a.review <= item[a.item].review
<1>1. a \in Decision BY DEF PageInv, PageTypeOK
<1>2. a.item \in WorkItem /\ a.review \in Nat BY <1>1 DEF Decision
<1>3. a.review <= drafts[a.item].review /\ drafts[a.item] # Nothing BY DEF PageInv, AskedOnce
<1>4. drafts[a.item].review <= told[a.item].shown BY <1>2, <1>3 DEF PageInv, DraftsFollow, DraftFollows
<1>5. told[a.item].shown <= item[a.item].review BY <1>2 DEF PageInv, ServerIsAhead
<1>6. drafts[a.item] \in Draft /\ told[a.item].shown \in Nat /\ item[a.item].review \in Nat
  BY <1>2, <1>3 DEF PageInv, PageTypeOK, Snapshot, ItemState
<1>7. drafts[a.item].review \in Nat BY <1>6 DEF Draft
<1>. QED BY <1>2, <1>3, <1>4, <1>5, <1>6, <1>7

LEMMA ServerDecidesOnce == PageInv /\ ServerStep => Decided'
<1>1. SUFFICES ASSUME PageInv, ServerStep PROVE Decided' OBVIOUS
<1>2. asked' = asked BY <1>1 DEF ServerStep, ServerFrame
<1>3. ASSUME NEW a \in asked PROVE
        /\ a.review < item[a.item].review => a.review < item'[a.item].review
        /\ IsOver(a) => IsOver(a)'
  <2>1. /\ a.item \in WorkItem /\ a.review \in Nat /\ item[a.item].review \in Nat
        /\ a.review <= item[a.item].review
    BY <1>1, AskedWasShown
  <2>2. item'[a.item].review \in Nat BY <1>1, <2>1 DEF ServerStep, Snapshot, ItemState
  <2>3. MovesOn(item[a.item], item'[a.item]) BY <1>1, <2>1 DEF ServerStep
  <2>. QED BY <2>1, <2>2, <2>3 DEF MovesOn, IsOver
<1>4. decisions \subseteq asked BY <1>1 DEF PageInv, Decided
<1>5. decisions' \subseteq asked' BY <1>1, <1>2, <1>4 DEF ServerStep, IsRecorded
<1>6. \A d \in decisions' : d.review < item'[d.item].review
  <2>1. \A d \in decisions : d.review < item'[d.item].review
    BY <1>1, <1>3, <1>4 DEF PageInv, Decided
  <2>2. ASSUME NEW b \in asked, IsRecorded(b) PROVE b.review < item'[b.item].review
    <3>1. b.item \in WorkItem /\ b.review \in Nat BY <1>1, AskedWasShown
    <3>2. item'[b.item].review \in Nat BY <1>1, <3>1 DEF ServerStep, Snapshot, ItemState
    <3>. QED BY <2>2, <3>1, <3>2 DEF IsRecorded
  <2>. QED BY <1>1, <2>1, <2>2 DEF ServerStep, IsRecorded
<1>7. ASSUME NEW b \in asked, IsRecorded(b), NEW d \in decisions
      PROVE  ~(d.item = b.item /\ d.review = b.review)
  <2>1. d.review < item[d.item].review BY <1>1 DEF PageInv, Decided
  <2>2. d.review \in Nat BY <1>1, <1>4, AskedWasShown
  <2>. QED BY <1>7, <2>1, <2>2 DEF IsRecorded
<1>8. \A d, e \in decisions' : (d.item = e.item /\ d.review = e.review) => d = e
  <2>1. \A d, e \in decisions : (d.item = e.item /\ d.review = e.review) => d = e
    BY <1>1 DEF PageInv, Decided
  <2>. QED BY <1>1, <1>7, <2>1 DEF ServerStep, IsRecorded
<1>9. ASSUME NEW r \in requests, WasRefused(r)
      PROVE  IsOver(r.body)' /\ \A d \in decisions' : ~SameDecision(d, r.body)
  <2>1. r.body \in asked BY <1>1, <1>9 DEF PageInv, AskedOnce, WasRefused
  <2>2. IsOver(r.body) /\ \A d \in decisions : ~SameDecision(d, r.body)
    BY <1>1, <1>9 DEF PageInv, Decided
  <2>3. r.body.review \in Nat BY <1>1, <2>1, AskedWasShown
  <2>4. ASSUME NEW b \in asked, IsRecorded(b) PROVE ~SameDecision(b, r.body)
    BY <2>2, <2>3, <2>4 DEF IsRecorded, SameDecision, IsOver
  <2>5. \A d \in decisions' : ~SameDecision(d, r.body)
    BY <1>1, <2>2, <2>4 DEF ServerStep, IsRecorded
  <2>. QED BY <1>3, <2>1, <2>2, <2>5
<1>10. \A r \in requests' : WasRefused(r) =>
            IsOver(r.body)' /\ \A d \in decisions' : ~SameDecision(d, r.body)
  BY <1>1, <1>9 DEF ServerStep, IsAnswer
<1>. QED BY <1>5, <1>6, <1>8, <1>10 DEF Decided, WasRefused, SameDecision, IsOver

LEMMA ServerKeepsPage == PageInv /\ ServerStep => PageInv'
BY ServerTypes, ServerGates, ServerStaysAhead, ServerAnswersTruly, ServerLeavesPage,
   ServerKeepsAsked, ServerDecidesOnce DEF PageInv

LEMMA ItemsStay ==
  ASSUME PageInv, item' = item
  PROVE  item' \in Snapshot /\ \A w \in WorkItem : MovesOn(item[w], item'[w])
<1>1. \A w \in WorkItem : item[w].review \in Nat BY DEF PageInv, PageTypeOK, Snapshot, ItemState
<1>. QED BY <1>1 DEF MovesOn, PageInv, PageTypeOK

LEMMA OperationsStay ==
  ASSUME PageInv, operations' = operations
  PROVE  operations' \subseteq Transition /\ OperationsMoveOn
<1>1. \A o \in operations : o.version \in Nat BY DEF PageInv, PageTypeOK, Transition
<1>. QED BY <1>1 DEF OperationsMoveOn, PageInv, PageTypeOK, ServerIsAhead

\* One request gets this answer, unless it was given up.
LEMMA OneIsAnswered ==
  ASSUME PageInv, NEW r \in requests, NEW a \in Answers, requests' = WithAnswer(r, a),
         (IsGated(r) /\ a.ok) => a.snapshot = item',
         r.to = "providers" => a.model = operations',
         (r.to = "acceptance" /\ ~a.ok) =>
            IsOver(r.body)' /\ \A d \in decisions' : ~SameDecision(d, r.body)
  PROVE  \/ requests' \subseteq requests
         \/ \E s \in requests, q \in Requests :
              IsAnswer(q, s) /\ requests' \subseteq (requests \ {s}) \cup {q}
<1>1. r \in Requests BY DEF PageInv, PageTypeOK
<1>2. CASE ~r.open BY <1>2 DEF WithAnswer
<1>3. CASE r.open
  <2> DEFINE q == [r EXCEPT !.at = "answered", !.answer = a]
  <2>1. q \in Requests BY <1>1 DEF Requests
  <2>2. q.to = r.to /\ q.nr = r.nr /\ q.body = r.body /\ q.open = r.open /\ q.at = "answered"
        /\ q.answer = a
    BY <1>1 DEF Requests
  <2>3. requests' \subseteq (requests \ {r}) \cup {q} BY <1>3 DEF WithAnswer
  <2>. HIDE DEF q
  <2>4. HasSnapshot(q) => q.answer.snapshot = item' BY <2>2 DEF HasSnapshot, IsGated
  <2>5. HasPanel(q) => q.answer.model = operations' BY <2>2 DEF HasPanel
  <2>6. WasRefused(q) => IsOver(q.body)' /\ \A d \in decisions' : ~SameDecision(d, q.body)
    BY <2>2 DEF WasRefused, IsOver
  <2>7. IsAnswer(q, r) BY <1>3, <2>2, <2>4, <2>5, <2>6 DEF IsAnswer
  <2>. QED BY <2>1, <2>3, <2>7
<1>. QED BY <1>1, <1>2, <1>3 DEF Requests

LEMMA AnswerIsTyped ==
  ASSUME NEW ok \in BOOLEAN, NEW snapshot \in Snapshot \cup {Nothing},
         NEW model \in (SUBSET Transition) \cup {Nothing}, NEW key \in BOOLEAN
  PROVE  /\ Answer(ok, snapshot, model, key) \in Answers
         /\ Answer(ok, snapshot, model, key).ok = ok
         /\ Answer(ok, snapshot, model, key).snapshot = snapshot
         /\ Answer(ok, snapshot, model, key).model = model
BY DEF Answer, Answers

LEMMA ServeDashboardStep ==
  ASSUME PageInv, NEW r \in requests, ServeDashboard(r) PROVE ServerStep
<1> DEFINE a == Answer(TRUE, item, Nothing, FALSE)
<1>1. a \in Answers /\ a.ok = TRUE /\ a.snapshot = item
  <2>1. item \in Snapshot \cup {Nothing} BY DEF PageInv, PageTypeOK
  <2>. QED BY <2>1 DEF Answer, Answers
<1>2. requests' = WithAnswer(r, a) BY DEF ServeDashboard
<1>. HIDE DEF a
<1>3. r.to = "dashboard" /\ item' = item /\ operations' = operations /\ decisions' = decisions
      /\ ServerFrame
  BY DEF ServeDashboard, Untouched, ServerFrame
<1>. QED BY <1>1, <1>2, <1>3, OneIsAnswered, ItemsStay, OperationsStay DEF ServerStep

LEMMA ServeProvidersStep ==
  ASSUME PageInv, NEW r \in requests, ServeProviders(r) PROVE ServerStep
<1> DEFINE a == Answer(TRUE, Nothing, operations, FALSE)
<1>1. a \in Answers /\ a.ok = TRUE /\ a.model = operations
  <2>1. operations \in (SUBSET Transition) \cup {Nothing} BY DEF PageInv, PageTypeOK
  <2>. QED BY <2>1 DEF Answer, Answers
<1>2. requests' = WithAnswer(r, a) BY DEF ServeProviders
<1>. HIDE DEF a
<1>3. r.to = "providers" /\ item' = item /\ operations' = operations /\ decisions' = decisions
      /\ ServerFrame
  BY DEF ServeProviders, Untouched, ServerFrame
<1>4. ~IsGated(r) BY <1>3 DEF IsGated
<1>. QED BY <1>1, <1>2, <1>3, <1>4, OneIsAnswered, ItemsStay, OperationsStay DEF ServerStep

LEMMA ServeRunStep ==
  ASSUME PageInv, NEW r \in requests, ServeRun(r) PROVE ServerStep
<1>1. r.to \in {"run", "cancel"} /\ operations' = operations /\ decisions' = decisions /\ ServerFrame
  BY DEF ServeRun, Untouched, ServerFrame
<1>2. PICK can \in Admits(r) :
        /\ item' = IF ~can THEN item
                   ELSE [item EXCEPT ![r.body.item].run =
                            IF r.to = "run" THEN "running" ELSE "cancelling"]
        /\ requests' = WithAnswer(r, Answer(can, item', Nothing, FALSE))
  BY DEF ServeRun
<1>8. r.body.item \in WorkItem BY <1>1 DEF PageInv, AskedOnce
<1>3. can \in BOOLEAN
  <2>1. item[r.body.item].run \in {"no", "cancelling", "running"}
    BY <1>8 DEF PageInv, PageTypeOK, Snapshot, ItemState
  <2>. QED BY <1>1, <1>2, <2>1 DEF Admits, NoneActive
<1>4. item' \in Snapshot /\ \A w \in WorkItem :
        item'[w].review = item[w].review /\ item'[w].decision = item[w].decision
        /\ item'[w].attempt = item[w].attempt
  <2>1. item \in Snapshot BY DEF PageInv, PageTypeOK
  <2>2. CASE ~can BY <1>2, <2>1, <2>2
  <2>3. ASSUME NEW run \in {"running", "cancelling"}, item' = [item EXCEPT ![r.body.item].run = run]
        PROVE  item' \in Snapshot /\ \A w \in WorkItem :
                 item'[w].review = item[w].review /\ item'[w].decision = item[w].decision
                 /\ item'[w].attempt = item[w].attempt
    <3>1. \A w \in WorkItem : item'[w] = IF w = r.body.item THEN [item[w] EXCEPT !.run = run] ELSE item[w]
      BY <2>1, <2>3 DEF Snapshot
    <3>2. item' \in Snapshot BY <1>8, <2>1, <2>3 DEF Snapshot, ItemState
    <3>3. \A w \in WorkItem : item[w] \in ItemState BY <2>1 DEF Snapshot
    <3>. QED BY <3>1, <3>2, <3>3 DEF ItemState
  <2>. QED BY <1>2, <2>2, <2>3
<1>5. \A w \in WorkItem : MovesOn(item[w], item'[w])
  BY <1>4 DEF MovesOn, PageInv, PageTypeOK, Snapshot, ItemState
<1> DEFINE a == Answer(can, item', Nothing, FALSE)
<1>6. a \in Answers /\ a.snapshot = item'
  <2>1. item' \in Snapshot \cup {Nothing} BY <1>4
  <2>. QED BY <1>3, <2>1 DEF Answer, Answers
<1>7. requests' = WithAnswer(r, a) BY <1>2
<1>. HIDE DEF a
<1>. QED BY <1>1, <1>4, <1>5, <1>6, <1>7, OneIsAnswered, OperationsStay DEF ServerStep

LEMMA PrepareTransitionStep ==
  ASSUME PageInv, NEW r \in requests, PrepareTransition(r) PROVE ServerStep
<1> DEFINE new == [item |-> r.body.item, id |-> r.body.id, status |-> "approved", version |-> 1]
<1>1. /\ item' = item /\ requests' = requests /\ decisions' = decisions /\ ServerFrame
      /\ operations' = operations \cup {new} /\ \A o \in operations : o.id # r.body.id
  BY DEF PrepareTransition, Untouched, ServerFrame
<1>2. r.body \in asked BY DEF PrepareTransition, PageInv, AskedOnce
<1>3. new \in Transition BY <1>2 DEF PageInv, PageTypeOK, Decision, Transition
<1>4. new.id = r.body.id OBVIOUS
<1>. HIDE DEF new
<1>5. \A o \in operations : o \in Transition /\ o.version \in Nat
  BY DEF PageInv, PageTypeOK, Transition
<1>6. OperationsMoveOn BY <1>1, <1>4, <1>5 DEF OperationsMoveOn, PageInv, ServerIsAhead
<1>. QED BY <1>1, <1>3, <1>5, <1>6, ItemsStay DEF ServerStep

Overwritten(o, s) == [o EXCEPT !.status = s, !.version = @ + 1]
AllOverwritten(old, s) == {Overwritten(o, s) : o \in old}

LEMMA OverwrittenIsLater ==
  ASSUME NEW o \in Transition,
         NEW s \in {"transitioned", "outcome_unknown", "reconciled", "reconciliation_absent"}
  PROVE  /\ Overwritten(o, s) \in Transition /\ Overwritten(o, s).id = o.id
         /\ Overwritten(o, s).version >= o.version
<1>1. o.version \in Nat /\ o.version + 1 \in Nat BY DEF Transition
<1>2. Overwritten(o, s).id = o.id /\ Overwritten(o, s).version = o.version + 1
  BY DEF Transition, Overwritten
<1>3. Overwritten(o, s) \in Transition BY <1>1 DEF Transition, Overwritten
<1>4. o.version + 1 >= o.version BY <1>1
<1>. QED BY <1>2, <1>3, <1>4

\* Some operations that are not done are overwritten, each by a later version of it.
LEMMA Overwriting ==
  ASSUME PageInv, NEW old \in SUBSET operations, \A o \in old : ~IsDone(o),
         NEW s \in {"transitioned", "outcome_unknown", "reconciled", "reconciliation_absent"},
         operations' = (operations \ old) \cup AllOverwritten(old, s)
  PROVE  operations' \subseteq Transition /\ OperationsMoveOn
<1>1. \A o \in operations : o \in Transition /\ o.version \in Nat /\ o.version >= o.version
  <2>1. operations \subseteq Transition BY DEF PageInv, PageTypeOK
  <2>2. \A o \in Transition : o.version \in Nat BY DEF Transition
  <2>. QED BY <2>1, <2>2
<1>2. \A o \in old : /\ Overwritten(o, s) \in Transition /\ Overwritten(o, s).id = o.id
                     /\ Overwritten(o, s).version >= o.version
  BY <1>1, OverwrittenIsLater
<1>3. \A p \in operations' : p \in operations \ old \/ \E o \in old : p = Overwritten(o, s)
  BY DEF AllOverwritten
<1>4. \A o \in old : Overwritten(o, s) \in operations' BY DEF AllOverwritten
<1>5. operations \ old \subseteq operations' OBVIOUS
<1>6. \A o, p \in operations : o.id = p.id => o = p BY DEF PageInv, ServerIsAhead
<1>7. operations' \subseteq Transition BY <1>1, <1>2, <1>3
<1>8. \A o \in operations : \E p \in operations' : p.id = o.id BY <1>2, <1>4, <1>5
<1>9. ASSUME NEW o \in operations, NEW p \in operations', p.id = o.id PROVE p.version >= o.version
  <2>1. CASE p \in operations
    <3>1. p = o BY <1>6, <1>9, <2>1
    <3>. QED BY <1>1, <3>1
  <2>2. ASSUME NEW n \in old, p = Overwritten(n, s) PROVE p.version >= o.version
    <3>1. n = o BY <1>2, <1>6, <1>9, <2>2
    <3>. QED BY <1>2, <2>2, <3>1
  <2>. QED BY <1>3, <2>1, <2>2
<1>10. \A o \in operations : IsDone(o) => o \in operations' BY <1>5
<1>11. ASSUME NEW o \in operations', NEW p \in operations', o.id = p.id PROVE o = p
  <2>1. CASE o \in operations \ old /\ p \in operations \ old BY <1>6, <1>11, <2>1
  <2>2. ASSUME NEW n \in old, NEW m \in old, o = Overwritten(n, s), p = Overwritten(m, s)
        PROVE  o = p
    <3>1. n = m BY <1>2, <1>6, <1>11, <2>2
    <3>. QED BY <2>2, <3>1
  <2>3. ASSUME NEW n \in old, NEW m \in operations \ old, n.id = m.id PROVE FALSE
    BY <1>6, <2>3
  <2>. QED BY <1>2, <1>3, <1>11, <2>1, <2>2, <2>3
<1>. QED BY <1>7, <1>8, <1>9, <1>10, <1>11 DEF OperationsMoveOn

LEMMA DeliverTransitionStep ==
  ASSUME PageInv, NEW r \in requests, DeliverTransition(r) PROVE ServerStep
<1> DEFINE approved == {o \in operations : o.id = r.body.id /\ o.status = "approved"}
<1>1. r.to = "acceptance" /\ item' = item /\ decisions' = decisions /\ ServerFrame
  BY DEF DeliverTransition, Untouched, ServerFrame
<1>2. operations' \subseteq Transition /\ OperationsMoveOn
  <2>1. CASE operations' = operations BY <2>1, OperationsStay
  <2>2. ASSUME NEW s \in {"transitioned", "outcome_unknown"},
               operations' = (operations \ approved) \cup AllOverwritten(approved, s)
        PROVE  operations' \subseteq Transition /\ OperationsMoveOn
    <3>1. approved \in SUBSET operations /\ \A o \in approved : ~IsDone(o) BY DEF IsDone
    <3>. HIDE DEF approved
    <3>. QED BY <2>2, <3>1, Overwriting
  <2>3. \/ operations' = operations
        \/ \E s \in {"transitioned", "outcome_unknown"} :
                operations' = (operations \ approved) \cup AllOverwritten(approved, s)
    BY Zenon DEF DeliverTransition, AllOverwritten, Overwritten
  <2>. QED BY <2>1, <2>2, <2>3
<1>3. PICK key \in BOOLEAN : requests' = WithAnswer(r, Answer(TRUE, Nothing, Nothing, key))
  BY DEF DeliverTransition
<1> DEFINE a == Answer(TRUE, Nothing, Nothing, key)
<1>4. a \in Answers /\ a.ok = TRUE BY <1>3, AnswerIsTyped
<1>5. requests' = WithAnswer(r, a) BY <1>3
<1>. HIDE DEF a
<1>6. ~IsGated(r) BY <1>1 DEF IsGated
<1>. QED BY <1>1, <1>2, <1>4, <1>5, <1>6, OneIsAnswered, ItemsStay DEF ServerStep

LEMMA ReconcileTransitionStep ==
  ASSUME PageInv, NEW r \in requests, ReconcileTransition(r) PROVE ServerStep
<1>1. r.to = "reconcile" /\ item' = item /\ decisions' = decisions /\ ServerFrame
  BY DEF ReconcileTransition, Untouched, ServerFrame
<1>2. operations' \subseteq Transition /\ OperationsMoveOn
  <2>1. CASE operations' = operations BY <2>1, OperationsStay
  <2>2. ASSUME NEW o \in operations, o.status \in {"outcome_unknown", "reconciliation_absent"},
               NEW s \in {"reconciled", "reconciliation_absent"},
               operations' = (operations \ {o}) \cup {[o EXCEPT !.status = s, !.version = @ + 1]}
        PROVE  operations' \subseteq Transition /\ OperationsMoveOn
    <3> DEFINE old == {o}
    <3>1. old \in SUBSET operations /\ \A p \in old : ~IsDone(p) BY <2>2 DEF IsDone
    <3>2. operations' = (operations \ old) \cup AllOverwritten(old, s)
      BY <2>2 DEF AllOverwritten, Overwritten
    <3>. HIDE DEF old
    <3>. QED BY <2>2, <3>1, <3>2, Overwriting
  <2>. QED BY <2>1, <2>2 DEF ReconcileTransition
<1>3. PICK key \in BOOLEAN : requests' = WithAnswer(r, Answer(TRUE, Nothing, Nothing, key))
  BY DEF ReconcileTransition
<1> DEFINE a == Answer(TRUE, Nothing, Nothing, key)
<1>4. a \in Answers /\ a.ok = TRUE BY <1>3, AnswerIsTyped
<1>5. requests' = WithAnswer(r, a) BY <1>3
<1>. HIDE DEF a
<1>6. ~IsGated(r) BY <1>1 DEF IsGated
<1>. QED BY <1>1, <1>2, <1>4, <1>5, <1>6, OneIsAnswered, ItemsStay DEF ServerStep

\* The workflow goes on without the page.
LEMMA WorkflowStep ==
  ASSUME PageInv, NEW w \in WorkItem, AttemptStarts(w) \/ RunEnds(w) \/ Fact(w) PROVE ServerStep
<1>1. /\ UNCHANGED <<decisions, operations, requests>> /\ ServerFrame
      /\ item' = [item EXCEPT ![w] = item'[w]]
  BY DEF AttemptStarts, RunEnds, Fact, Untouched, ServerFrame, PageInv, PageTypeOK, Snapshot
<1>2. item[w] \in ItemState /\ item[w].review \in Nat
  BY DEF PageInv, PageTypeOK, Snapshot, ItemState
<1>3. item'[w] \in ItemState
  <2>1. CASE AttemptStarts(w)
    BY <1>2, <2>1 DEF AttemptStarts, PageInv, PageTypeOK, Snapshot, ItemState
  <2>2. CASE RunEnds(w) /\ item[w].attempt
    BY <1>2, <2>2 DEF RunEnds, PageInv, PageTypeOK, Snapshot, ItemState
  <2>4. CASE RunEnds(w) /\ ~item[w].attempt
    BY <1>2, <2>4 DEF RunEnds, PageInv, PageTypeOK, Snapshot, ItemState
  <2>3. CASE Fact(w)
    BY <1>2, <2>3 DEF Fact, PageInv, PageTypeOK, Snapshot, ItemState
  <2>. QED BY <2>1, <2>2, <2>3, <2>4
<1>4. MovesOn(item[w], item'[w])
  <2>1. CASE AttemptStarts(w)
    BY <1>2, <2>1 DEF AttemptStarts, PageInv, PageTypeOK, Snapshot, ItemState, MovesOn
  <2>2. CASE RunEnds(w)
    BY <1>2, <2>2 DEF RunEnds, PageInv, PageTypeOK, Snapshot, ItemState, MovesOn
  <2>3. CASE Fact(w)
    BY <1>2, <2>3 DEF Fact, PageInv, PageTypeOK, Snapshot, ItemState, MovesOn
  <2>. QED BY <2>1, <2>2, <2>3
<1>5. item' \in Snapshot /\ \A v \in WorkItem \ {w} : item'[v] = item[v]
  BY <1>1, <1>3 DEF PageInv, PageTypeOK, Snapshot
<1>6. \A v \in WorkItem : MovesOn(item[v], item'[v])
  BY <1>4, <1>5 DEF MovesOn, PageInv, PageTypeOK, Snapshot, ItemState
<1>. QED BY <1>1, <1>5, <1>6, OperationsStay DEF ServerStep

LEMMA RecordDecisionStep ==
  ASSUME PageInv, NEW r \in requests, RecordDecision(r) PROVE ServerStep
<1> DEFINE b == r.body
           i == item[b.item]
           isNew == (\A d \in decisions : d.id # b.id) /\ i.review = b.review
                    /\ i.decision = Nothing /\ ~i.attempt
<1>1. /\ r.to = "acceptance" /\ r.at = "sent" /\ operations' = operations /\ ServerFrame
      /\ decisions' = IF isNew THEN decisions \cup {b} ELSE decisions
      /\ item' = IF isNew
                 THEN [item EXCEPT ![b.item].review = @ + 1,
                                   ![b.item].decision = [decision |-> b.decision, id |-> b.id]]
                 ELSE item
      /\ requests' = IF b \in decisions' THEN (requests \ {r}) \cup {[r EXCEPT !.at = "delivering"]}
                     ELSE WithAnswer(r, Answer(FALSE, Nothing, Nothing, FALSE))
  BY DEF RecordDecision, Untouched, ServerFrame
<1>2. b \in asked /\ b \in Decision BY <1>1 DEF PageInv, AskedOnce, PageTypeOK
<1>3. /\ b.item \in WorkItem /\ b.review \in Nat /\ i.review \in Nat /\ b.review <= i.review
  BY <1>2, AskedWasShown
<1>4. /\ item' \in Snapshot /\ \A w \in WorkItem : MovesOn(item[w], item'[w])
      /\ decisions' = decisions \/ \E d \in asked : IsRecorded(d)
  <2>1. CASE ~isNew BY <1>1, <2>1, ItemsStay
  <2>2. CASE isNew
    <3>1. item[b.item] \in ItemState BY <1>3 DEF PageInv, PageTypeOK, Snapshot
    <3>2. [decision |-> b.decision, id |-> b.id] \in [decision : {"accepted", "rejected"}, id : Nat]
      BY <1>2 DEF Decision
    <3>8. i \in ItemState /\ i.review + 1 \in Nat BY <1>3, <3>1
    <3> DEFINE after == [i EXCEPT !.review = @ + 1, !.decision = [decision |-> b.decision, id |-> b.id]]
    <3>3. after \in ItemState /\ after.review = i.review + 1 BY <3>2, <3>8 DEF ItemState
    <3>4. item' = [item EXCEPT ![b.item] = after]
      BY <1>1, <1>3, <2>2 DEF PageInv, PageTypeOK, Snapshot
    <3>. HIDE DEF after
    <3>5. item' \in Snapshot /\ item'[b.item] = after /\ \A w \in WorkItem \ {b.item} : item'[w] = item[w]
      BY <1>3, <3>3, <3>4 DEF PageInv, PageTypeOK, Snapshot
    <3>6. ASSUME NEW w \in WorkItem PROVE MovesOn(item[w], item'[w])
      <4>1. CASE w = b.item BY <1>3, <3>3, <3>5, <4>1 DEF MovesOn
      <4>2. CASE w # b.item BY <3>5, <4>2 DEF MovesOn, PageInv, PageTypeOK, Snapshot, ItemState
      <4>. QED BY <4>1, <4>2
    <3>7. IsRecorded(b) BY <1>1, <1>2, <1>3, <2>2, <3>3, <3>5 DEF IsRecorded
    <3>. QED BY <1>2, <3>5, <3>6, <3>7
  <2>. QED BY <2>1, <2>2
<1>5. CASE b \in decisions'
  <2> DEFINE q == [r EXCEPT !.at = "delivering"]
  <2>1. r \in Requests BY DEF PageInv, PageTypeOK
  <2>2. q \in Requests BY <2>1 DEF Requests
  <2>3. q.to = r.to /\ q.nr = r.nr /\ q.body = r.body /\ q.open = r.open /\ q.at = "delivering"
    BY <2>1 DEF Requests
  <2>4. requests' \subseteq (requests \ {r}) \cup {q} BY <1>1, <1>5
  <2>. HIDE DEF q
  <2>5. IsAnswer(q, r) BY <2>3 DEF IsAnswer, HasSnapshot, HasPanel, WasRefused
  <2>. QED BY <1>1, <1>4, <2>2, <2>4, <2>5, OperationsStay DEF ServerStep
<1>6. CASE b \notin decisions'
  <2>1. ~isNew /\ item' = item /\ decisions' = decisions BY <1>1, <1>6
  <2>2. IsOver(b)'
    <3>1. CASE \E d \in decisions : d.id = b.id
      <4>1. PICK d \in decisions : d.id = b.id BY <3>1
      <4>2. d \in asked /\ d.review < item[d.item].review BY DEF PageInv, Decided
      <4>3. d.item = b.item /\ d.review = b.review BY <1>2, <4>1, <4>2 DEF PageInv, AskedOnce
      <4>. QED BY <2>1, <4>2, <4>3 DEF IsOver
    <3>2. CASE i.review # b.review BY <1>3, <2>1, <3>2 DEF IsOver
    <3>3. CASE i.decision # Nothing \/ i.attempt BY <2>1, <3>3 DEF IsOver
    <3>. QED BY <2>1, <3>1, <3>2, <3>3
  <2>3. ASSUME NEW d \in decisions, SameDecision(d, b) PROVE FALSE
    <3>1. d \in asked /\ d \in Decision BY DEF PageInv, Decided, PageTypeOK
    <3>2. d.reason = d.item /\ b.reason = b.item /\ d.id = b.id
      BY <1>2, <2>3, <3>1 DEF SameDecision, PageInv, AskedOnce
    <3>3. d = b BY <1>2, <2>3, <3>1, <3>2 DEF SameDecision, Decision
    <3>. QED BY <1>6, <2>1, <3>3
  <2> DEFINE a == Answer(FALSE, Nothing, Nothing, FALSE)
  <2>4. a \in Answers /\ a.ok = FALSE BY AnswerIsTyped
  <2>5. requests' = WithAnswer(r, a) BY <1>1, <1>6
  <2>. HIDE DEF a
  <2>6. ~IsGated(r) BY <1>1 DEF IsGated
  <2>7. \A d \in decisions' : ~SameDecision(d, r.body) BY <2>1, <2>3
  <2>. HIDE DEF isNew, i, b
  <2>. QED BY <1>1, <1>4, <2>2, <2>4, <2>5, <2>6, <2>7, OneIsAnswered, OperationsStay DEF ServerStep, b
<1>. QED BY <1>5, <1>6

-----------------------------------------------------------------------------
(* The page's requests.                                                    *)

\* A request that was sent, or given up, in this step.
IsSent(q) ==
    /\ q \in Requests /\ q.at # "answered"
    /\ q.to = "acceptance" => q.body \in asked'
    /\ q.to \in {"run", "cancel"} => q.body \in [item : WorkItem]
    /\ IsGated(q) => q.nr <= requestGate' /\ (q.open => q.nr > requestGate)
    /\ q.to = "providers" => q.nr <= providerRequestGate'

\* The page sends and takes; of its gated requests it sends one at a time.
RequestStep ==
    /\ UNCHANGED <<item, decisions, operations>>
    /\ requestGate' \in Nat /\ requestGate' >= requestGate
    /\ providerRequestGate' \in Nat /\ providerRequestGate' >= providerRequestGate
    /\ asked \subseteq asked'
    /\ \A q \in requests' : q \in requests \/ IsSent(q)
    /\ \A p, q \in requests' \ requests : (p \in Gated' /\ q \in Gated') => p = q

LEMMA RequestTypes == PageInv /\ RequestStep => requests' \subseteq Requests
BY DEF PageInv, PageTypeOK, RequestStep, IsSent

LEMMA PageGates == PageInv /\ RequestStep => Gates'
<1>1. SUFFICES ASSUME PageInv, RequestStep PROVE Gates' OBVIOUS
<1>2. \A q \in requests' : q \in requests \/ IsSent(q) BY <1>1 DEF RequestStep
<1>3. \A r \in Requests : r.nr \in Nat BY DEF Requests
<1>4. requests \subseteq Requests /\ requests' \subseteq Requests
  BY <1>1, RequestTypes DEF PageInv, PageTypeOK
<1>5. requestGate \in Nat /\ providerRequestGate \in Nat /\ requestGate' \in Nat
      /\ providerRequestGate' \in Nat /\ requestGate' >= requestGate
      /\ providerRequestGate' >= providerRequestGate
  BY <1>1 DEF PageInv, PageTypeOK, RequestStep
<1>6. \A r \in requests' : IsGated(r) => r.nr <= requestGate'
  BY <1>1, <1>2, <1>3, <1>4, <1>5 DEF PageInv, Gates, IsSent
<1>7. \A r \in requests' : r.to = "providers" => r.nr <= providerRequestGate'
  BY <1>1, <1>2, <1>3, <1>4, <1>5 DEF PageInv, Gates, IsSent
<1>8. \A r \in requests' : r.at = "answered" => r.open BY <1>1, <1>2 DEF PageInv, Gates, IsSent
<1>9. ASSUME NEW p \in requests', NEW q \in requests', IsGated(p), p.open, IsGated(q), q.open,
             p.nr = q.nr
      PROVE  p = q
  <2>1. CASE p \in requests /\ q \in requests BY <1>1, <1>9, <2>1 DEF PageInv, Gates, Gated
  <2>2. CASE p \notin requests /\ q \notin requests
    BY <1>1, <1>9, <2>2 DEF RequestStep, Gated, IsGated
  <2>3. ASSUME NEW r \in requests, IsGated(r), NEW s \in requests', IsSent(s), IsGated(s), s.open
        PROVE  r.nr # s.nr
    <3>1. r.nr <= requestGate BY <1>1, <2>3 DEF PageInv, Gates
    <3>2. s.nr > requestGate BY <2>3 DEF IsSent
    <3>3. r.nr \in Nat /\ s.nr \in Nat BY <1>3, <1>4
    <3>. QED BY <1>5, <3>1, <3>2, <3>3
  <2>. QED BY <1>2, <1>9, <2>1, <2>2, <2>3
<1>. QED BY <1>6, <1>7, <1>8, <1>9 DEF Gates, Gated, IsGated

LEMMA PageRequests ==
  ASSUME PageInv, RequestStep
  PROVE  \A r \in requests' : /\ r.to = "acceptance" => r.body \in asked'
                              /\ r.to \in {"run", "cancel"} => r.body \in [item : WorkItem]
BY DEF PageInv, AskedOnce, RequestStep, IsSent

LEMMA PageDecidesNothing == PageInv /\ RequestStep => Decided'
<1>1. SUFFICES ASSUME PageInv, RequestStep PROVE Decided' OBVIOUS
<1>2. UNCHANGED <<item, decisions>> /\ asked \subseteq asked' BY <1>1 DEF RequestStep
<1>3. \A r \in requests' : WasRefused(r) => r \in requests
  BY <1>1 DEF RequestStep, IsSent, WasRefused
<1>. QED BY <1>1, <1>2, <1>3 DEF PageInv, Decided, WasRefused, IsOver, SameDecision

\* The page is told something only when no newer answer than it has can be on its way.
TellsNothingTo(r) ==
    /\ (HasSnapshot(r) /\ r.nr = requestGate') => \A w \in WorkItem :
        told'[w].shown = told[w].shown /\ told'[w].review = told[w].review
    /\ (HasPanel(r) /\ r.nr = providerRequestGate') => \A w \in WorkItem :
        told'[w].operations = told[w].operations

LEMMA PageAnswers ==
  ASSUME PageInv, RequestStep, \A r \in requests \cap requests' : TellsNothingTo(r)
  PROVE  AnswersAreNews'
<1>1. UNCHANGED <<item, operations>> BY DEF RequestStep
<1>2. requestGate \in Nat /\ providerRequestGate \in Nat /\ requestGate' \in Nat
      /\ providerRequestGate' \in Nat /\ requestGate' >= requestGate
      /\ providerRequestGate' >= providerRequestGate
  BY DEF PageInv, PageTypeOK, RequestStep
<1>3. \A r \in requests : r.nr \in Nat BY DEF PageInv, PageTypeOK, Requests
<1>4. ASSUME NEW r \in requests', HasSnapshot(r) PROVE SnapshotIsNews(r)'
  <2>1. r \in requests BY <1>4 DEF RequestStep, IsSent, HasSnapshot
  <2>2. SnapshotIsNews(r) BY <1>4, <2>1 DEF PageInv, AnswersAreNews
  <2>3. r.nr <= requestGate BY <1>4, <2>1 DEF PageInv, Gates, HasSnapshot
  <2>4. r.nr = requestGate' => r.nr = requestGate BY <1>2, <1>3, <2>1, <2>3
  <2>5. TellsNothingTo(r) BY <2>1
  <2>. QED BY <1>1, <1>4, <2>2, <2>4, <2>5 DEF SnapshotIsNews, TellsNothingTo
<1>5. ASSUME NEW r \in requests', HasPanel(r) PROVE PanelIsNews(r)'
  <2>1. r \in requests BY <1>5 DEF RequestStep, IsSent, HasPanel
  <2>2. PanelIsNews(r) BY <1>5, <2>1 DEF PageInv, AnswersAreNews
  <2>3. r.nr <= providerRequestGate BY <1>5, <2>1 DEF PageInv, Gates, HasPanel
  <2>4. r.nr = providerRequestGate' => r.nr = providerRequestGate BY <1>2, <1>3, <2>1, <2>3
  <2>5. TellsNothingTo(r) BY <2>1
  <2>. QED BY <1>1, <1>5, <2>2, <2>4, <2>5 DEF PanelIsNews, TellsNothingTo, CaughtUp
<1>. QED BY <1>4, <1>5 DEF AnswersAreNews, HasSnapshot, HasPanel, IsGated

\* A request as the page sends it.
LEMMA RequestIsTyped ==
  ASSUME NEW to \in {"dashboard", "providers", "run", "cancel", "acceptance", "reconcile"},
         NEW nr \in Nat, NEW body \in Decision \cup [item : WorkItem] \cup [id : Nat] \cup {Nothing}
  PROVE  /\ PageRequest(to, nr, body) \in Requests
         /\ PageRequest(to, nr, body).to = to /\ PageRequest(to, nr, body).nr = nr
         /\ PageRequest(to, nr, body).body = body /\ PageRequest(to, nr, body).at = "sent"
         /\ PageRequest(to, nr, body).open
BY DEF PageRequest, Requests

\* What the page shows and has written is left alone, if it is told nothing.
LEMMA NothingIsTold ==
  ASSUME PageInv, RequestStep, told' = told
  PROVE  ServerIsAhead' /\ AnswersAreNews'
<1>1. ServerIsAhead' BY DEF PageInv, RequestStep, ServerIsAhead, CaughtUp
<1>2. \A r \in requests \cap requests' : TellsNothingTo(r) BY DEF TellsNothingTo
<1>. QED BY <1>1, <1>2, PageAnswers

LEMMA NothingIsShown ==
  ASSUME PageInv, RequestStep, UNCHANGED <<told, latestSnapshot, truthFence>>,
         panel'.model = panel.model
  PROVE  PageFollows'
BY DEF PageInv, PageFollows, RequestStep, CaughtUp

LEMMA NothingIsWritten ==
  ASSUME PageInv, RequestStep, UNCHANGED <<reason, owner, selectedWorkItemId, drafts, asked>>,
         commands' \in Nat, commands' >= commands,
         \A w \in WorkItem : told'[w].shown \in Nat /\ told'[w].shown >= told[w].shown
  PROVE  DraftsFollow' /\ AskedOnce'
<1>1. commands \in Nat BY DEF PageInv, PageTypeOK
<1>2. ASSUME NEW w \in WorkItem, drafts[w] # Nothing PROVE DraftFollows(w)'
  <2>1. drafts[w] \in Draft /\ told[w].shown \in Nat BY <1>2 DEF PageInv, PageTypeOK
  <2>2. drafts[w].review \in Nat /\ (drafts[w].id # Nothing => drafts[w].id \in Nat)
    BY <2>1 DEF Draft
  <2>3. DraftFollows(w) BY <1>2 DEF PageInv, DraftsFollow
  <2>. QED BY <1>1, <2>1, <2>2, <2>3 DEF DraftFollows
<1>3. DraftsFollow' BY <1>2 DEF PageInv, DraftsFollow
<1>4. \A a \in asked : a.id \in Nat BY DEF PageInv, PageTypeOK, Decision
<1>5. \A a \in asked : a.id <= commands' BY <1>1, <1>4 DEF PageInv, AskedOnce
<1>6. AskedOnce' BY <1>5, PageRequests DEF PageInv, AskedOnce
<1>. QED BY <1>3, <1>6

LEMMA PollDashboardKeeps == PageInv /\ PollDashboard => PageInv'
<1>1. SUFFICES ASSUME PageInv, PollDashboard PROVE PageInv' OBVIOUS
<1> DEFINE new == PageRequest("dashboard", requestGate + 1, Nothing)
<1>2. /\ UNCHANGED <<item, decisions, operations, providerRequestGate, truthFence, latestSnapshot,
                     selectedWorkItemId, panel, drafts, owner, reason, told, asked, commands>>
      /\ requestGate' = requestGate + 1 /\ requests' = requests \cup {new}
  BY <1>1 DEF PollDashboard
<1>3. requestGate \in Nat /\ providerRequestGate \in Nat /\ commands \in Nat
  BY <1>1 DEF PageInv, PageTypeOK
<1>4. /\ new \in Requests /\ new.to = "dashboard" /\ new.nr = requestGate + 1 /\ new.at = "sent"
  BY <1>3, RequestIsTyped
<1>. HIDE DEF new
<1>5. IsSent(new) BY <1>2, <1>3, <1>4 DEF IsSent
<1>6. RequestStep BY <1>2, <1>3, <1>5 DEF RequestStep
<1>7. \A w \in WorkItem : told'[w].shown \in Nat /\ told'[w].shown >= told[w].shown
  BY <1>1, <1>2 DEF PageInv, PageTypeOK
<1>8. DraftsFollow' /\ AskedOnce' BY <1>1, <1>2, <1>3, <1>6, <1>7, NothingIsWritten
<1>9. PageFollows' BY <1>1, <1>2, <1>6, NothingIsShown
<1>10. PageTypeOK' BY <1>1, <1>2, <1>3, <1>6, RequestTypes DEF PageInv, PageTypeOK
<1>. QED
  BY <1>1, <1>2, <1>6, <1>8, <1>9, <1>10, PageGates, NothingIsTold, PageDecidesNothing DEF PageInv

\* Asking for the panel, and failing to get it, leaves the panel as it is.
LEMMA PanelStays ==
  ASSUME PageInv, panel' \in {Asking, Failing, panel, [panel EXCEPT !.phase = "stale"]}
  PROVE  /\ panel'.model = panel.model
         /\ panel' \in [phase : {"idle", "loading", "refreshing", "ready", "empty", "stale", "error"},
                        model : (SUBSET Transition) \cup {Nothing}]
<1>1. panel \in [phase : {"idle", "loading", "refreshing", "ready", "empty", "stale", "error"},
                 model : (SUBSET Transition) \cup {Nothing}]
  BY DEF PageInv, PageTypeOK
<1>2. ASSUME NEW p \in {"loading", "refreshing", "error", "stale"}, panel' = [panel EXCEPT !.phase = p]
      PROVE  /\ panel'.model = panel.model
             /\ panel' \in [phase : {"idle", "loading", "refreshing", "ready", "empty", "stale", "error"},
                            model : (SUBSET Transition) \cup {Nothing}]
  BY <1>1, <1>2
<1>3. panel' = panel \/ \E p \in {"loading", "refreshing", "error", "stale"} :
            panel' = [panel EXCEPT !.phase = p]
  BY DEF Asking, Failing
<1>. QED BY <1>1, <1>2, <1>3

LEMMA PollProvidersKeeps == PageInv /\ PollProviders => PageInv'
<1>1. SUFFICES ASSUME PageInv, PollProviders PROVE PageInv' OBVIOUS
<1> DEFINE new == AskProviders
<1>2. /\ UNCHANGED <<item, decisions, operations, requestGate, truthFence, latestSnapshot,
                     selectedWorkItemId, drafts, owner, reason, told, asked, commands>>
      /\ providerRequestGate' = providerRequestGate + 1 /\ requests' = requests \cup {new}
      /\ panel' = Asking
  BY <1>1 DEF PollProviders
<1>3. requestGate \in Nat /\ providerRequestGate \in Nat /\ commands \in Nat
  BY <1>1 DEF PageInv, PageTypeOK
<1>4. /\ new \in Requests /\ new.to = "providers" /\ new.nr = providerRequestGate + 1
      /\ new.at = "sent"
  BY <1>3, RequestIsTyped DEF AskProviders
<1>. HIDE DEF new
<1>5. IsSent(new) BY <1>2, <1>3, <1>4 DEF IsSent, IsGated
<1>6. RequestStep BY <1>2, <1>3, <1>5 DEF RequestStep
<1>7. \A w \in WorkItem : told'[w].shown \in Nat /\ told'[w].shown >= told[w].shown
  BY <1>1, <1>2 DEF PageInv, PageTypeOK
<1>8. DraftsFollow' /\ AskedOnce' BY <1>1, <1>2, <1>3, <1>6, <1>7, NothingIsWritten
<1>9. PageFollows' BY <1>1, <1>2, <1>6, PanelStays, NothingIsShown
<1>10. PageTypeOK' BY <1>1, <1>2, <1>3, <1>6, PanelStays, RequestTypes DEF PageInv, PageTypeOK
<1>. QED
  BY <1>1, <1>2, <1>6, <1>8, <1>9, <1>10, PageGates, NothingIsTold, PageDecidesNothing DEF PageInv

-----------------------------------------------------------------------------
(* What the operator does.                                                 *)

\* A draft is kept for its review, and begun anew, without an id, for a later one.
LEMMA DraftIsFor ==
  ASSUME PageInv, NEW w \in WorkItem, NEW snapshot \in Snapshot, InitializeDraft(w, snapshot),
         UNCHANGED <<asked, commands>>, selectedWorkItemId' = w,
         told[w].shown <= snapshot[w].review, snapshot[w].review <= told'[w].shown,
         \A v \in WorkItem : told'[v].shown \in Nat /\ told'[v].shown >= told[v].shown,
         \A r \in requests' : /\ r.to = "acceptance" => r.body \in asked'
                              /\ r.to \in {"run", "cancel"} => r.body \in [item : WorkItem]
  PROVE  /\ drafts' \in [WorkItem -> Draft \cup {Nothing}] /\ reason' \in WorkItem \cup {Nothing}
         /\ DraftsFollow' /\ AskedOnce'
<1> DEFINE draft == DraftFor(w, snapshot, drafts[w])
<1>1. drafts' = [drafts EXCEPT ![w] = draft] /\ owner' = w /\ reason' = draft.reason
  BY DEF InitializeDraft
<1>2. drafts \in [WorkItem -> Draft \cup {Nothing}] BY DEF PageInv, PageTypeOK
<1>3. snapshot[w].review \in Nat BY DEF Snapshot, ItemState
<1>4. \A v \in WorkItem : told[v].shown \in Nat BY DEF PageInv, PageTypeOK
<1>5. \A v \in WorkItem : drafts[v] # Nothing =>
        /\ drafts[v] \in Draft /\ drafts[v].review \in Nat /\ DraftFollows(v)
        /\ drafts[v].reason \in {Nothing, v}
  BY <1>2 DEF PageInv, DraftsFollow, DraftFollows, Draft
<1>6. /\ draft \in Draft /\ draft.review = snapshot[w].review /\ draft.reason \in {Nothing, w}
      /\ draft = drafts[w] \/ draft.id = Nothing
      /\ drafts[w] # Nothing /\ drafts[w].review = draft.review => draft = drafts[w]
  BY <1>2, <1>3, <1>5 DEF DraftFor, Draft
<1>. HIDE DEF draft
<1>7. draft # Nothing BY <1>6, PageAssumption
<1>8. /\ drafts' \in [WorkItem -> Draft \cup {Nothing}] /\ reason' \in WorkItem \cup {Nothing}
      /\ drafts'[w] = draft /\ \A v \in WorkItem \ {w} : drafts'[v] = drafts[v]
  BY <1>1, <1>2, <1>6
<1>9. ASSUME NEW v \in WorkItem, drafts'[v] # Nothing PROVE DraftFollows(v)'
  <2>1. CASE v = w /\ draft.id = Nothing BY <1>6, <1>8, <2>1 DEF DraftFollows
  <2>2. CASE v = w /\ draft = drafts[w] BY <1>5, <1>6, <1>7, <1>8, <2>2 DEF DraftFollows
  <2>3. CASE v # w
    <3>1. drafts'[v] = drafts[v] /\ drafts[v].review <= told[v].shown
      BY <1>5, <1>8, <1>9, <2>3 DEF DraftFollows
    <3>2. drafts[v].review <= told'[v].shown BY <1>4, <1>5, <1>9, <3>1
    <3>. QED BY <1>5, <1>9, <3>1, <3>2 DEF DraftFollows
  <2>. QED BY <1>6, <2>1, <2>2, <2>3
<1>10. DraftsFollow' BY <1>1, <1>6, <1>7, <1>8, <1>9 DEF DraftsFollow
<1>11. ASSUME NEW a \in asked
       PROVE  /\ a.reason = a.item /\ a.id <= commands' /\ drafts'[a.item] # Nothing
              /\ a.review <= drafts'[a.item].review
              /\ a.review = drafts'[a.item].review => a.id = drafts'[a.item].id
  <2>1. a.item \in WorkItem /\ a.review \in Nat BY AskedWasShown
  <2>2. /\ a.reason = a.item /\ a.id <= commands /\ drafts[a.item] # Nothing
        /\ a.review <= drafts[a.item].review
        /\ a.review = drafts[a.item].review => a.id = drafts[a.item].id
    BY DEF PageInv, AskedOnce
  <2>3. CASE a.item # w BY <1>8, <2>1, <2>2, <2>3
  <2>4. CASE a.item = w /\ draft = drafts[w] BY <1>7, <1>8, <2>2, <2>4
  <2>5. CASE a.item = w /\ draft # drafts[w]
    <3>1. drafts[w].review \in Nat /\ drafts[w].review <= told[w].shown
      BY <1>5, <2>2, <2>5 DEF DraftFollows
    <3>2. drafts[w].review # draft.review BY <1>6, <2>2, <2>5
    <3>3. a.review < draft.review BY <1>3, <1>4, <1>6, <2>1, <2>2, <2>5, <3>1, <3>2
    <3>. QED BY <1>3, <1>6, <1>7, <1>8, <2>1, <2>2, <2>5, <3>3
  <2>. QED BY <2>3, <2>4, <2>5
<1>12. AskedOnce' BY <1>11 DEF PageInv, AskedOnce
<1>. QED BY <1>8, <1>10, <1>12

LEMMA SelectKeeps == ASSUME PageInv, NEW w \in WorkItem, Select(w) PROVE PageInv'
<1>1. /\ UNCHANGED <<item, decisions, operations, requests, requestGate, providerRequestGate,
                     truthFence, latestSnapshot, panel, told, asked, commands>>
      /\ latestSnapshot # Nothing /\ selectedWorkItemId' = w /\ InitializeDraft(w, latestSnapshot)
  BY DEF Select
<1>2. requestGate \in Nat /\ providerRequestGate \in Nat /\ latestSnapshot \in Snapshot
  BY <1>1 DEF PageInv, PageTypeOK
<1>3. RequestStep BY <1>1, <1>2 DEF RequestStep
<1>4. told[w].shown = latestSnapshot[w].review /\ \A v \in WorkItem : told[v].shown \in Nat
  BY <1>1 DEF PageInv, PageTypeOK, PageFollows
<1>5. /\ drafts' \in [WorkItem -> Draft \cup {Nothing}] /\ reason' \in WorkItem \cup {Nothing}
      /\ DraftsFollow' /\ AskedOnce'
  <2>1. told[w].shown <= latestSnapshot[w].review /\ latestSnapshot[w].review <= told'[w].shown
        /\ \A v \in WorkItem : told'[v].shown \in Nat /\ told'[v].shown >= told[v].shown
    BY <1>1, <1>4
  <2>. QED BY <1>1, <1>2, <1>3, <2>1, PageRequests, DraftIsFor
<1>6. PageTypeOK' BY <1>1, <1>2, <1>5 DEF PageInv, PageTypeOK
<1>. QED
  BY <1>1, <1>3, <1>5, <1>6, PageGates, NothingIsTold, NothingIsShown, PageDecidesNothing DEF PageInv

LEMMA WriteKeeps == PageInv /\ Write => PageInv'
<1>1. SUFFICES ASSUME PageInv, Write PROVE PageInv' OBVIOUS
<1>2. /\ UNCHANGED <<item, decisions, operations, requests, requestGate, providerRequestGate,
                     truthFence, latestSnapshot, selectedWorkItemId, panel, owner, told, asked,
                     commands>>
      /\ owner # Nothing /\ reason' = owner /\ drafts' = [drafts EXCEPT ![owner].reason = owner]
  BY <1>1 DEF Write
<1>3. owner = selectedWorkItemId /\ owner \in WorkItem
  BY <1>1, <1>2 DEF PageInv, PageTypeOK, DraftsFollow
<1>4. RequestStep BY <1>1, <1>2 DEF RequestStep, PageInv, PageTypeOK
<1> DEFINE draft == [drafts[owner] EXCEPT !.reason = owner]
<1>5. drafts \in [WorkItem -> Draft \cup {Nothing}] BY <1>1 DEF PageInv, PageTypeOK
<1>6. drafts' = [drafts EXCEPT ![owner] = draft] BY <1>2, <1>3, <1>5
<1>7. drafts[owner] # Nothing => /\ draft \in Draft /\ draft.review = drafts[owner].review
                                 /\ draft.id = drafts[owner].id /\ draft.reason = owner
  <2>1. drafts[owner] # Nothing => drafts[owner] \in Draft BY <1>3, <1>5
  <2>. QED BY <1>3, <2>1 DEF Draft
<1>8. drafts[owner] # Nothing /\ DraftFollows(owner) BY <1>1, <1>2, <1>3 DEF PageInv, DraftsFollow
<1>. HIDE DEF draft
<1>9. /\ drafts' \in [WorkItem -> Draft \cup {Nothing}] /\ drafts'[owner] = draft
      /\ draft # Nothing /\ \A v \in WorkItem \ {owner} : drafts'[v] = drafts[v]
  BY <1>3, <1>5, <1>6, <1>7, <1>8, PageAssumption
<1>10. ASSUME NEW v \in WorkItem, drafts'[v] # Nothing PROVE DraftFollows(v)'
  <2>1. CASE v = owner BY <1>2, <1>7, <1>8, <1>9, <2>1 DEF DraftFollows
  <2>2. CASE v # owner BY <1>1, <1>2, <1>9, <1>10, <2>2 DEF PageInv, DraftsFollow, DraftFollows
  <2>. QED BY <2>1, <2>2
<1>11. DraftsFollow' BY <1>2, <1>3, <1>9, <1>10 DEF DraftsFollow
<1>12. ASSUME NEW a \in asked
       PROVE  /\ a.reason = a.item /\ a.id <= commands' /\ drafts'[a.item] # Nothing
              /\ a.review <= drafts'[a.item].review
              /\ a.review = drafts'[a.item].review => a.id = drafts'[a.item].id
  <2>1. a.item \in WorkItem BY <1>1, AskedWasShown
  <2>. QED BY <1>1, <1>2, <1>7, <1>8, <1>9, <2>1 DEF PageInv, AskedOnce
<1>13. AskedOnce' BY <1>1, <1>2, <1>12 DEF PageInv, AskedOnce
<1>14. PageTypeOK' BY <1>1, <1>2, <1>3, <1>9 DEF PageInv, PageTypeOK
<1>. QED
  BY <1>1, <1>2, <1>4, <1>11, <1>13, <1>14, PageGates, NothingIsTold, NothingIsShown,
     PageDecidesNothing DEF PageInv

\* What a command that is sent leaves alone.
LEMMA SentStep ==
  ASSUME PageInv, NEW to \in {"run", "cancel", "acceptance", "reconcile"}, NEW nr \in Nat,
         NEW body \in Decision \cup [item : WorkItem] \cup [id : Nat], NEW accepting,
         Send(PageRequest(to, nr, body), accepting), requestGate' \in {requestGate, requestGate + 1},
         to \in {"run", "cancel"} =>
            nr = requestGate + 1 /\ requestGate' = nr /\ body \in [item : WorkItem],
         asked \subseteq asked', to = "acceptance" => body \in asked'
  PROVE  /\ RequestStep /\ commands' = commands + 1 /\ requests' \subseteq Requests
         /\ UNCHANGED <<item, decisions, operations, providerRequestGate, truthFence, latestSnapshot,
                        selectedWorkItemId, panel, owner, reason, told>>
<1> DEFINE new == PageRequest(to, nr, body)
<1>1. /\ UNCHANGED <<item, decisions, operations, providerRequestGate, truthFence, latestSnapshot,
                     selectedWorkItemId, panel, owner, reason, told>>
      /\ commands' = commands + 1 /\ requests' = requests \cup {new}
  BY DEF Send
<1>2. new \in Requests /\ new.to = to /\ new.nr = nr /\ new.body = body /\ new.at = "sent"
  BY RequestIsTyped
<1>. HIDE DEF new
<1>3. requestGate \in Nat /\ providerRequestGate \in Nat BY DEF PageInv, PageTypeOK
<1>4. IsSent(new) BY <1>1, <1>2, <1>3 DEF IsSent, IsGated
<1>5. requestGate' \in Nat /\ requestGate' >= requestGate BY <1>3
<1>6. \A p, q \in requests' \ requests : p = q BY <1>1
<1>7. RequestStep BY <1>1, <1>3, <1>4, <1>5, <1>6 DEF RequestStep
<1>. QED BY <1>1, <1>7, RequestTypes

\* A run, a cancellation or a reconciliation writes nothing.
LEMMA PlainCommandKeeps ==
  ASSUME PageInv, RequestStep, commands' = commands + 1, requests' \subseteq Requests,
         UNCHANGED <<item, decisions, operations, providerRequestGate, truthFence, latestSnapshot,
                     selectedWorkItemId, panel, owner, reason, told, drafts, asked>>
  PROVE  PageInv'
<1>1. commands \in Nat /\ \A w \in WorkItem : told'[w].shown \in Nat /\ told'[w].shown >= told[w].shown
  BY DEF PageInv, PageTypeOK
<1>2. commands' \in Nat /\ commands' >= commands BY <1>1
<1>3. DraftsFollow' /\ AskedOnce' BY <1>1, <1>2, NothingIsWritten
<1>4. PageTypeOK' BY <1>2 DEF PageInv, PageTypeOK, RequestStep
<1>. QED
  BY <1>3, <1>4, PageGates, NothingIsTold, NothingIsShown, PageDecidesNothing DEF PageInv

LEMMA RunKeeps == PageInv /\ Run => PageInv'
<1>1. SUFFICES ASSUME PageInv, Run PROVE PageInv' OBVIOUS
<1> DEFINE body == [item |-> selectedWorkItemId]
<1>2. selectedWorkItemId \in WorkItem /\ requestGate \in Nat
  BY <1>1 DEF Run, PageInv, PageTypeOK
<1>3. body \in [item : WorkItem] BY <1>2
<1>4. PICK to \in {"run", "cancel"} : Send(PageRequest(to, requestGate + 1, body), FALSE)
  BY <1>1 DEF Run
<1>5. requestGate' = requestGate + 1 /\ UNCHANGED <<drafts, asked>> BY <1>1 DEF Run
<1>. HIDE DEF body
<1>6. requestGate + 1 \in Nat BY <1>2
<1>7. to \in {"run", "cancel", "acceptance", "reconcile"} /\ to # "acceptance" OBVIOUS
<1>8. body \in Decision \cup [item : WorkItem] \cup [id : Nat] BY <1>3
<1>. QED BY <1>1, <1>3, <1>4, <1>5, <1>6, <1>7, <1>8, SentStep, PlainCommandKeeps

LEMMA ReconcileAcceptanceKeeps == PageInv /\ ReconcileAcceptance => PageInv'
<1>1. SUFFICES ASSUME PageInv, ReconcileAcceptance PROVE PageInv' OBVIOUS
<1>2. selectedWorkItemId \in WorkItem /\ commands \in Nat
  BY <1>1 DEF ReconcileAcceptance, PageInv, PageTypeOK
<1>3. PICK o \in Shown(selectedWorkItemId) :
        Send(PageRequest("reconcile", commands + 1, [id |-> o.id]), TRUE)
  BY <1>1 DEF ReconcileAcceptance
<1>4. o.id \in Nat
  <2>1. Shown(selectedWorkItemId) \subseteq panel.model /\ panel.model # Nothing
    BY <1>3 DEF Shown, Matching
  <2>2. panel.model \in (SUBSET Transition) \cup {Nothing} BY <1>1 DEF PageInv, PageTypeOK
  <2>. QED BY <2>1, <2>2 DEF Transition
<1> DEFINE body == [id |-> o.id]
<1>5. body \in [id : Nat] BY <1>4
<1>6. Send(PageRequest("reconcile", commands + 1, body), TRUE) BY <1>3
<1>7. requestGate' = requestGate /\ UNCHANGED <<drafts, asked>> BY <1>1 DEF ReconcileAcceptance
<1>. HIDE DEF body
<1>8. body \in Decision \cup [item : WorkItem] \cup [id : Nat] /\ commands + 1 \in Nat BY <1>2, <1>5
<1>. QED BY <1>1, <1>6, <1>7, <1>8, SentStep, PlainCommandKeeps

LEMMA SubmitAcceptanceKeeps ==
  ASSUME PageInv, NEW decision \in {"accepted", "rejected"}, SubmitAcceptance(decision)
  PROVE  PageInv'
<1> DEFINE w == selectedWorkItemId
           old == drafts[w]
           draft == DraftSent(w)
           body == [item |-> w, review |-> latestSnapshot[w].review, decision |-> decision,
                    reason |-> reason, id |-> draft.id]
<1>1. /\ w # Nothing /\ CanDecide(w) /\ reason # Nothing /\ requestGate' = requestGate
      /\ drafts' = [drafts EXCEPT ![w] = draft] /\ asked' = asked \cup {body}
      /\ Send(PageRequest("acceptance", commands + 1, body), decision = "accepted")
  BY DEF SubmitAcceptance
<1>2. w \in WorkItem /\ reason = w /\ latestSnapshot \in Snapshot
      /\ latestSnapshot[w].review = told[w].shown /\ told[w].shown \in Nat /\ commands \in Nat
  BY <1>1 DEF PageInv, PageTypeOK, DraftsFollow, CanDecide, PageFollows
<1>3. /\ drafts \in [WorkItem -> Draft \cup {Nothing}] /\ old # Nothing /\ old \in Draft
      /\ old.review \in Nat /\ old.id \in Nat \cup {Nothing} /\ DraftFollows(w)
  BY <1>1, <1>2 DEF PageInv, PageTypeOK, DraftsFollow, Draft
<1>4. /\ draft \in Draft /\ draft.review = told[w].shown /\ draft.reason = w /\ draft.id \in Nat
      /\ \/ draft.id = commands + 1 /\ ~(old.review = told[w].shown /\ old.id # Nothing)
         \/ old.review = told[w].shown /\ old.id # Nothing /\ draft.id = old.id
  <2> DEFINE begun == DraftFor(w, latestSnapshot, old)
             written == [begun EXCEPT !.reason = reason]
  <2>1. /\ begun \in Draft /\ begun.review = told[w].shown
        /\ begun.id = IF old.review = told[w].shown THEN old.id ELSE Nothing
    BY <1>2, <1>3 DEF DraftFor, Draft
  <2>. HIDE DEF begun
  <2>2. written \in Draft /\ written.review = begun.review /\ written.id = begun.id
        /\ written.reason = w
    BY <1>2, <2>1 DEF Draft
  <2>3. draft = IF written.id = Nothing THEN [written EXCEPT !.id = commands + 1] ELSE written
    BY DEF DraftSent, begun
  <2>. HIDE DEF draft, written, w, old
  <2>4. CASE written.id = Nothing
    <3>1. commands + 1 \in Nat BY <1>2
    <3>2. draft = [written EXCEPT !.id = commands + 1] BY <2>3, <2>4
    <3>3. draft \in Draft /\ draft.review = written.review /\ draft.id = commands + 1
          /\ draft.reason = written.reason
      BY <2>2, <3>1, <3>2 DEF Draft
    <3>. QED BY <2>1, <2>2, <2>4, <3>1, <3>3
  <2>5. CASE written.id # Nothing
    <3>1. draft = written BY <2>3, <2>5
    <3>2. written.id = old.id /\ old.review = told[w].shown BY <2>1, <2>2, <2>5
    <3>3. draft.id \in Nat BY <1>3, <2>5, <3>1, <3>2
    <3>. QED BY <2>1, <2>2, <2>5, <3>1, <3>2, <3>3
  <2>. QED BY <2>4, <2>5
<1>5. /\ body \in Decision /\ body.item = w /\ body.review = told[w].shown /\ body.reason = w
      /\ body.id = draft.id
  BY <1>2, <1>4 DEF Decision
<1>. HIDE DEF w, old, draft, body
<1>6. \A a \in asked : a.item \in WorkItem /\ a.review \in Nat /\ a.id \in Nat
  BY DEF PageInv, PageTypeOK, Decision
<1>7. \A a \in asked : a.id = draft.id => a.item = w /\ a.review = told[w].shown
  <2>1. \A a \in asked : a.id <= commands BY DEF PageInv, AskedOnce
  <2>2. CASE draft.id = commands + 1 BY <1>2, <1>6, <2>1, <2>2
  <2>3. CASE old.review = told[w].shown /\ old.id # Nothing /\ draft.id = old.id
    BY <1>3, <2>3 DEF DraftFollows, old
  <2>. QED BY <1>4, <2>2, <2>3
<1>8. \A a \in asked : (a.item = w /\ a.review = told[w].shown) => a.id = draft.id
  <2>1. ASSUME NEW a \in asked, a.item = w, a.review = told[w].shown PROVE a.id = draft.id
    <3>1. /\ a.review <= old.review
          /\ a.review = old.review => a.id = old.id
      BY <2>1 DEF PageInv, AskedOnce, old
    <3>2. old.review <= told[w].shown BY <1>3 DEF DraftFollows, old
    <3>5. a.review \in Nat /\ old.review \in Nat /\ told[w].shown \in Nat BY <1>2, <1>3, <1>6
    <3>6. old.review = a.review BY <2>1, <3>1, <3>2, <3>5
    <3>3. old.review = told[w].shown /\ a.id = old.id BY <2>1, <3>1, <3>6
    <3>4. old.id # Nothing BY <1>6, <3>3, PageAssumption
    <3>. QED BY <1>4, <3>3, <3>4
  <2>. QED BY <2>1
<1>9. \A a \in asked : a.item = w => a.review <= told[w].shown
  <2>1. ASSUME NEW a \in asked, a.item = w PROVE a.review <= told[w].shown
    <3>1. a.review <= old.review BY <2>1 DEF PageInv, AskedOnce, old
    <3>2. old.review <= told[w].shown BY <1>3 DEF DraftFollows, old
    <3>. QED BY <1>2, <1>3, <1>6, <3>1, <3>2
  <2>. QED BY <2>1
<1>10. ASSUME NEW v \in WorkItem, v # w, drafts[v] # Nothing, drafts[v].id # Nothing
       PROVE  drafts[v].id # draft.id
  <2>1. DraftFollows(v) BY <1>10 DEF PageInv, DraftsFollow
  <2>2. PICK a \in asked : a.id = drafts[v].id BY <1>10, <2>1 DEF DraftFollows
  <2>3. a.item = v BY <1>10, <2>1, <2>2 DEF DraftFollows
  <2>. QED BY <1>7, <1>10, <2>2, <2>3
<1>11. /\ RequestStep /\ commands' = commands + 1 /\ requests' \subseteq Requests
       /\ UNCHANGED <<item, decisions, operations, providerRequestGate, truthFence, latestSnapshot,
                      selectedWorkItemId, panel, owner, reason, told>>
  <2>1. commands + 1 \in Nat /\ body \in Decision \cup [item : WorkItem] \cup [id : Nat]
        /\ body \in asked' /\ asked \subseteq asked'
    BY <1>1, <1>2, <1>5
  <2>. QED BY <1>1, <2>1, SentStep
<1>12. /\ drafts' \in [WorkItem -> Draft \cup {Nothing}] /\ drafts'[w] = draft /\ draft # Nothing
       /\ \A v \in WorkItem \ {w} : drafts'[v] = drafts[v]
  BY <1>1, <1>2, <1>3, <1>4, PageAssumption
<1>13. draft.id <= commands'
  <2>1. old.id # Nothing => old.id <= commands BY <1>3 DEF DraftFollows, old
  <2>. QED BY <1>2, <1>3, <1>4, <1>11, <2>1
<1>14. ASSUME NEW v \in WorkItem, drafts'[v] # Nothing PROVE DraftFollows(v)'
  <2>1. CASE v = w
    <3>1. \A a \in asked' : a.id = draft.id => a.item = w /\ a.review = draft.review
      BY <1>1, <1>4, <1>5, <1>7
    <3>2. \E a \in asked' : a.id = draft.id BY <1>1, <1>5
    <3>3. draft.review <= told'[w].shown BY <1>2, <1>4, <1>11
    <3>. QED BY <1>4, <1>12, <1>13, <2>1, <3>1, <3>2, <3>3 DEF DraftFollows
  <2>2. CASE v # w
    <3>1. drafts'[v] = drafts[v] /\ DraftFollows(v) /\ drafts[v] \in Draft
      BY <1>12, <1>14, <1>3, <2>2 DEF PageInv, DraftsFollow
    <3>2. drafts[v].id # Nothing =>
            /\ drafts[v].id <= commands'
            /\ \E a \in asked' : a.id = drafts[v].id
            /\ \A a \in asked' : a.id = drafts[v].id => a.item = v /\ a.review = drafts[v].review
      <4>1. SUFFICES ASSUME drafts[v].id # Nothing
                     PROVE  /\ drafts[v].id <= commands'
                            /\ \E a \in asked' : a.id = drafts[v].id
                            /\ \A a \in asked' : a.id = drafts[v].id =>
                                    a.item = v /\ a.review = drafts[v].review
        OBVIOUS
      <4>2. drafts[v].id \in Nat /\ drafts[v].id <= commands'
        BY <1>2, <1>11, <3>1, <4>1 DEF Draft, DraftFollows
      <4>3. drafts[v].id # draft.id BY <1>10, <1>12, <1>14, <2>2, <3>1, <4>1
      <4>4. \E a \in asked' : a.id = drafts[v].id BY <1>1, <3>1, <4>1 DEF DraftFollows
      <4>5. \A a \in asked' : a.id = drafts[v].id => a.item = v /\ a.review = drafts[v].review
        BY <1>1, <1>5, <3>1, <4>1, <4>3 DEF DraftFollows
      <4>. QED BY <4>2, <4>4, <4>5
    <3>. QED BY <1>11, <3>1, <3>2 DEF DraftFollows
  <2>. QED BY <2>1, <2>2
<1>15. DraftsFollow'
  BY <1>2, <1>11, <1>12, <1>14 DEF PageInv, DraftsFollow, w
<1>16. ASSUME NEW a \in asked'
       PROVE  /\ a.reason = a.item /\ a.id <= commands' /\ drafts'[a.item] # Nothing
              /\ a.review <= drafts'[a.item].review
              /\ a.review = drafts'[a.item].review => a.id = drafts'[a.item].id
  <2>1. CASE a = body BY <1>2, <1>4, <1>5, <1>12, <1>13, <2>1
  <2>2. CASE a \in asked
    <3>1. /\ a.reason = a.item /\ a.id <= commands /\ drafts[a.item] # Nothing
          /\ a.review <= drafts[a.item].review
          /\ a.review = drafts[a.item].review => a.id = drafts[a.item].id
      BY <2>2 DEF PageInv, AskedOnce
    <3>2. a.id <= commands' BY <1>2, <1>6, <1>11, <2>2, <3>1
    <3>3. CASE a.item = w BY <1>4, <1>8, <1>9, <1>12, <2>2, <3>1, <3>2, <3>3
    <3>4. CASE a.item # w BY <1>6, <1>12, <2>2, <3>1, <3>2, <3>4
    <3>. QED BY <3>3, <3>4
  <2>. QED BY <1>1, <2>1, <2>2
<1>17. \A a, b \in asked' : a.id = b.id <=> (a.item = b.item /\ a.review = b.review)
  BY <1>1, <1>5, <1>7, <1>8 DEF PageInv, AskedOnce
<1>18. AskedOnce' BY <1>11, <1>16, <1>17, PageRequests DEF AskedOnce
<1>19. PageTypeOK'
  <2>1. asked' \subseteq Decision BY <1>1, <1>5 DEF PageInv, PageTypeOK
  <2>. QED BY <1>1, <1>2, <1>11, <1>12, <2>1 DEF PageInv, PageTypeOK
<1>. QED
  BY <1>11, <1>15, <1>18, <1>19, PageGates, NothingIsTold, NothingIsShown, PageDecidesNothing
  DEF PageInv

-----------------------------------------------------------------------------
(* What the page takes from answers.                                       *)

\* A fence stands only lower after a confirmation.
LEMMA ConfirmIsTyped ==
  ASSUME PageInv, NEW source \in Sources, NEW nr \in Nat, truthFence' = Confirm(source, nr)
  PROVE  /\ truthFence' \in [Sources -> [WorkItem -> Nat]]
         /\ \A s \in Sources \ {source} : truthFence'[s] = truthFence[s]
<1>1. truthFence \in [Sources -> [WorkItem -> Nat]] BY DEF PageInv, PageTypeOK
<1> DEFINE after == [w \in WorkItem |-> IF nr >= truthFence[source][w] THEN 0 ELSE truthFence[source][w]]
<1>2. truthFence' = [truthFence EXCEPT ![source] = after] BY <1>1 DEF Confirm
<1>3. after \in [WorkItem -> Nat] BY <1>1
<1>. HIDE DEF after
<1>. QED BY <1>1, <1>2, <1>3

\* What is left of a request that was settled, beside those the page now sends.
LEMMA SettledStep ==
  ASSUME PageInv, NEW r \in requests, NEW new \in SUBSET Requests,
         UNCHANGED <<item, decisions, operations, asked>>,
         requestGate' \in {requestGate, requestGate + 1},
         providerRequestGate' \in {providerRequestGate, providerRequestGate + 1},
         requests' \subseteq (requests \ {r}) \cup Abandoned(r) \cup new,
         \A q \in new :
            /\ q.at = "sent" /\ q.to \in {"dashboard", "providers"}
            /\ q.to = "dashboard" => q.nr = requestGate + 1 /\ requestGate' = q.nr
            /\ q.to = "providers" => q.nr = providerRequestGate'
            /\ \A p \in new : p.to = q.to => p = q
  PROVE  RequestStep
<1>1. requestGate \in Nat /\ providerRequestGate \in Nat BY DEF PageInv, PageTypeOK
<1>2. /\ requestGate' \in Nat /\ requestGate' >= requestGate
      /\ providerRequestGate' \in Nat /\ providerRequestGate' >= providerRequestGate
  BY <1>1
<1>3. ASSUME NEW q \in new PROVE IsSent(q) BY <1>1, <1>2, <1>3 DEF IsSent, IsGated
<1>4. ASSUME NEW q \in Abandoned(r) PROVE IsSent(q) /\ ~q.open
  <2>1. r \in Requests /\ r.nr \in Nat BY DEF PageInv, PageTypeOK, Requests
  <2>2. q = [r EXCEPT !.open = FALSE] /\ r.at # "answered" BY <1>4 DEF Abandoned
  <2>3. q \in Requests BY <2>1, <2>2 DEF Requests
  <2>4. q.to = r.to /\ q.nr = r.nr /\ q.body = r.body /\ q.at = r.at /\ q.open = FALSE
    BY <2>1, <2>2 DEF Requests
  <2>5. /\ r.to = "acceptance" => r.body \in asked
        /\ r.to \in {"run", "cancel"} => r.body \in [item : WorkItem]
        /\ IsGated(r) => r.nr <= requestGate
        /\ r.to = "providers" => r.nr <= providerRequestGate
    BY DEF PageInv, AskedOnce, Gates
  <2>. QED BY <1>1, <1>2, <2>1, <2>2, <2>3, <2>4, <2>5 DEF IsSent, IsGated
<1>5. \A q \in requests' : q \in requests \/ IsSent(q) BY <1>3, <1>4
<1>6. \A p, q \in requests' \ requests : (p \in Gated' /\ q \in Gated') => p = q
  <2>1. ASSUME NEW p \in requests' \ requests, p \in Gated' PROVE p \in new /\ p.to = "dashboard"
    BY <1>4, <2>1 DEF Gated, IsGated
  <2>. QED BY <2>1
<1>. QED BY <1>2, <1>5, <1>6 DEF RequestStep

LEMMA TakePanelKeeps ==
  ASSUME PageInv, NEW r \in requests, NEW how, TakePanel(r, how) PROVE PageInv'
<1>1. /\ UNCHANGED <<item, decisions, operations, requestGate, providerRequestGate, latestSnapshot,
                     selectedWorkItemId, drafts, owner, reason, told, asked, commands>>
      /\ r.to = "providers" /\ requests' = requests \ {r} /\ Settles(r, how)
      /\ panel' = IF ~IsLatest(r) THEN panel
                  ELSE IF how = "answered" THEN Adopting(r.answer.model) ELSE Failing
      /\ truthFence' = IF how = "answered" /\ IsLatest(r) /\ panel'.phase \in {"ready", "empty"}
                       THEN Confirm("provider", r.nr) ELSE truthFence
  BY Zenon DEF TakePanel
<1>2. requestGate \in Nat /\ providerRequestGate \in Nat /\ commands \in Nat /\ r.nr \in Nat
  BY DEF PageInv, PageTypeOK, Requests
<1>3. RequestStep BY <1>1, <1>2 DEF RequestStep
<1>4. \A w \in WorkItem : told'[w].shown \in Nat /\ told'[w].shown >= told[w].shown
  BY <1>1 DEF PageInv, PageTypeOK
<1>5. DraftsFollow' /\ AskedOnce' BY <1>1, <1>2, <1>3, <1>4, NothingIsWritten
<1>6. ServerIsAhead' /\ AnswersAreNews' BY <1>1, <1>3, NothingIsTold
<1> DEFINE Panels == [phase : {"idle", "loading", "refreshing", "ready", "empty", "stale", "error"},
                      model : (SUBSET Transition) \cup {Nothing}]
<1>7. /\ truthFence' \in [Sources -> [WorkItem -> Nat]] /\ panel' \in Panels
      /\ truthFence'["dashboard"] = truthFence["dashboard"]
      /\ \/ panel'.model = panel.model /\ truthFence' = truthFence
         \/ /\ \A o \in panel'.model : IsDone(o) => o \in operations
            /\ \A w \in WorkItem : CaughtUp(panel'.model, w)
  <2>1. CASE how = "answered" /\ IsLatest(r) /\ panel' # [panel EXCEPT !.phase = "stale"]
    <3>1. HasPanel(r) /\ r.nr = providerRequestGate
      BY <1>1, <2>1 DEF Settles, HasPanel, IsLatest
    <3>2. PanelIsNews(r) BY <3>1 DEF PageInv, AnswersAreNews
    <3>3. panel' = [phase |-> IF r.answer.model = {} THEN "empty" ELSE "ready",
                    model |-> r.answer.model]
      BY <1>1, <2>1 DEF Adopting
    <3>4. panel'.model = r.answer.model /\ panel'.phase \in {"empty", "ready"} BY <3>3
    <3>5. panel' \in Panels BY <3>2, <3>3 DEF PanelIsNews
    <3>7. truthFence' = Confirm("provider", r.nr) BY <1>1, <2>1, <3>4
    <3>8. truthFence' \in [Sources -> [WorkItem -> Nat]]
          /\ truthFence'["dashboard"] = truthFence["dashboard"]
      BY <1>2, <3>7, ConfirmIsTyped DEF Sources
    <3>. QED BY <3>1, <3>2, <3>4, <3>5, <3>8 DEF PanelIsNews
  <2>2. CASE ~(how = "answered" /\ IsLatest(r)) \/ panel' = [panel EXCEPT !.phase = "stale"]
    <3>1. panel' \in {Asking, Failing, panel, [panel EXCEPT !.phase = "stale"]} BY <1>1, <2>2
    <3>2. panel'.model = panel.model /\ panel' \in Panels BY <3>1, PanelStays
    <3>3. truthFence' = truthFence
      <4>1. CASE panel' = [panel EXCEPT !.phase = "stale"]
        <5>1. panel'.phase = "stale" BY <4>1 DEF PageInv, PageTypeOK
        <5>. QED BY <1>1, <5>1
      <4>2. CASE ~(how = "answered" /\ IsLatest(r)) BY <1>1, <4>2
      <4>. QED BY <2>2, <4>1, <4>2
    <3>. QED BY <3>2, <3>3 DEF PageInv, PageTypeOK
  <2>. QED BY <2>1, <2>2
<1>8. PageFollows'
  <2>1. CASE panel'.model = panel.model /\ truthFence' = truthFence
    BY <1>1, <1>3, <2>1, NothingIsShown
  <2>2. CASE /\ \A o \in panel'.model : IsDone(o) => o \in operations
             /\ \A w \in WorkItem : CaughtUp(panel'.model, w)
    BY <1>1, <1>7, <2>2 DEF PageInv, PageFollows, CaughtUp
  <2>. QED BY <1>7, <2>1, <2>2
<1>9. PageTypeOK' BY <1>1, <1>7 DEF PageInv, PageTypeOK
<1>. QED BY <1>1, <1>3, <1>5, <1>6, <1>8, <1>9, PageGates, PageDecidesNothing DEF PageInv

LEMMA TakeCommandKeeps ==
  ASSUME PageInv, NEW r \in requests, NEW how, TakeCommand(r, how) PROVE PageInv'
<1> DEFINE w == command.item
           sources == SourcesFenced(r, how)
           new == {PageRequest("dashboard", requestGate + 1, Nothing), AskProviders}
           Level(s) == 1 + IF s = "dashboard" THEN requestGate ELSE providerRequestGate
           moved == LinearMayHaveMoved(r, how)
<1>1. /\ UNCHANGED <<item, decisions, operations, latestSnapshot, selectedWorkItemId, drafts, owner,
                     reason, asked, commands>>
      /\ requestGate' = requestGate + 1 /\ providerRequestGate' = providerRequestGate + 1
      /\ panel' = Asking
      /\ requests' = (requests \ {r}) \cup Abandoned(r) \cup new
  BY DEF TakeCommand
<1>2. truthFence' = [s \in Sources |-> IF s \notin sources THEN truthFence[s]
                                       ELSE [truthFence[s] EXCEPT ![w] = Level(s)]]
  BY DEF TakeCommand
<1>3. told' = [told EXCEPT ![w].review = IF r.to = "acceptance" THEN item[w].review ELSE @,
                           ![w].operations = IF moved THEN {o \in operations : o.item = w} ELSE @]
  BY DEF TakeCommand
<1>4. ("dashboard" \in sources <=> r.to = "acceptance") /\ ("provider" \in sources <=> moved)
  BY DEF SourcesFenced
<1>5. requestGate \in Nat /\ providerRequestGate \in Nat /\ commands \in Nat
  BY DEF PageInv, PageTypeOK
<1>6. new \subseteq Requests /\ RequestStep
  <2>4. /\ requestGate + 1 \in Nat /\ providerRequestGate + 1 \in Nat
        /\ Nothing \in Decision \cup [item : WorkItem] \cup [id : Nat] \cup {Nothing}
    BY <1>5
  <2>1. /\ PageRequest("dashboard", requestGate + 1, Nothing) \in Requests
        /\ PageRequest("dashboard", requestGate + 1, Nothing).at = "sent"
        /\ PageRequest("dashboard", requestGate + 1, Nothing).to = "dashboard"
        /\ PageRequest("dashboard", requestGate + 1, Nothing).nr = requestGate + 1
        /\ AskProviders \in Requests /\ AskProviders.at = "sent" /\ AskProviders.to = "providers"
        /\ AskProviders.nr = providerRequestGate + 1
    BY <2>4, RequestIsTyped DEF AskProviders
  <2>2. \A q \in new :
            /\ q.at = "sent" /\ q.to \in {"dashboard", "providers"}
            /\ q.to = "dashboard" => q.nr = requestGate + 1 /\ requestGate' = q.nr
            /\ q.to = "providers" => q.nr = providerRequestGate'
            /\ \A p \in new : p.to = q.to => p = q
    BY <1>1, <2>1
  <2>3. new \in SUBSET Requests BY <2>1
  <2>. HIDE DEF new
  <2>. QED BY <1>1, <2>2, <2>3, SettledStep
<1>. HIDE DEF w, sources, new, moved
<1>7. truthFence \in [Sources -> [WorkItem -> Nat]]
      /\ told \in [WorkItem -> [shown : Nat, review : Nat, operations : SUBSET Transition]]
  BY DEF PageInv, PageTypeOK
<1>8. /\ truthFence' \in [Sources -> [WorkItem -> Nat]]
      /\ \A s \in Sources, v \in WorkItem :
            truthFence'[s][v] = IF v = w /\ s \in sources THEN Level(s) ELSE truthFence[s][v]
  <2>1. \A s \in Sources : Level(s) \in Nat BY <1>5
  <2>. HIDE DEF Level
  <2>. QED BY <1>2, <1>7, <2>1
<1>9. /\ told' \in [WorkItem -> [shown : Nat, review : Nat, operations : SUBSET Transition]]
      /\ \A v \in WorkItem :
            /\ told'[v].shown = told[v].shown
            /\ told'[v].review = IF v = w /\ r.to = "acceptance" THEN item[w].review ELSE told[v].review
            /\ told'[v].operations = IF v = w /\ moved THEN {o \in operations : o.item = w}
                                     ELSE told[v].operations
  <2> DEFINE rev == IF r.to = "acceptance" THEN item[w].review ELSE told[w].review
             ops == IF moved THEN {o \in operations : o.item = w} ELSE told[w].operations
  <2>1. CASE w \notin WorkItem BY <1>3, <1>7, <2>1
  <2>2. CASE w \in WorkItem
    <3>1. rev \in Nat /\ ops \in SUBSET Transition
      BY <1>7, <2>2 DEF PageInv, PageTypeOK, Snapshot, ItemState
    <3>2. told' = [told EXCEPT ![w].review = rev, ![w].operations = ops] BY <1>3, <1>7, <2>2
    <3>3. rev = (IF r.to = "acceptance" THEN item[w].review ELSE told[w].review)
          /\ ops = (IF moved THEN {o \in operations : o.item = w} ELSE told[w].operations)
      OBVIOUS
    <3>. HIDE DEF rev, ops
    <3>4. \A v \in WorkItem : told'[v] = IF v = w THEN [told[w] EXCEPT !.review = rev, !.operations = ops]
                                         ELSE told[v]
      BY <1>7, <2>2, <3>2
    <3>5. told[w] \in [shown : Nat, review : Nat, operations : SUBSET Transition] BY <1>7, <2>2
    <3> DEFINE t == [told[w] EXCEPT !.review = rev, !.operations = ops]
    <3>6. t \in [shown : Nat, review : Nat, operations : SUBSET Transition] /\ t.shown = told[w].shown
          /\ t.review = rev /\ t.operations = ops
      BY <3>1, <3>5
    <3>7. told' = [v \in WorkItem |-> IF v = w THEN t ELSE told[v]] BY <1>7, <2>2, <3>2
    <3>. HIDE DEF t
    <3>. QED BY <1>7, <3>3, <3>6, <3>7
  <2>. QED BY <2>1, <2>2
<1>15. \A v \in WorkItem : told'[v].shown = told[v].shown /\ told[v].shown \in Nat BY <1>7, <1>9
<1>16. \A v \in WorkItem :
            told'[v].review = IF v = w /\ r.to = "acceptance" THEN item[w].review ELSE told[v].review
  BY <1>9
<1>17. \A v \in WorkItem :
            told'[v].operations = IF v = w /\ moved THEN {o \in operations : o.item = w}
                                  ELSE told[v].operations
  BY <1>9
<1>10. ServerIsAhead'
  <2>1. ASSUME NEW v \in WorkItem
        PROVE  /\ told'[v].shown <= item[v].review /\ told'[v].review <= item[v].review
               /\ \A o \in operations, t \in told'[v].operations : t.id = o.id => o.version >= t.version
               /\ \A t \in told'[v].operations : \E o \in operations : o.id = t.id
    <3>1. /\ told[v].shown <= item[v].review /\ told[v].review <= item[v].review
          /\ CaughtUp(operations, v)
          /\ \A t \in told[v].operations : \E o \in operations : o.id = t.id
      BY DEF PageInv, ServerIsAhead
    <3>2. item[v].review \in Nat BY DEF PageInv, PageTypeOK, Snapshot, ItemState
    <3>3. CASE v = w /\ moved
      <4>1. told'[v].operations \subseteq operations BY <1>17, <3>3
      <4>2. \A o, p \in operations : o.id = p.id => o = p BY DEF PageInv, ServerIsAhead
      <4>3. \A o \in operations : o.version \in Nat BY DEF PageInv, PageTypeOK, Transition
      <4>4. told'[v].shown <= item[v].review /\ told'[v].review <= item[v].review
        BY <1>15, <1>16, <3>1, <3>2
      <4>5. \A o \in operations : o.version >= o.version BY <4>3
      <4>. QED BY <4>1, <4>2, <4>4, <4>5
    <3>4. CASE ~(v = w /\ moved)
      <4>1. told'[v].shown <= item[v].review /\ told'[v].review <= item[v].review
        BY <1>15, <1>16, <3>1, <3>2
      <4>2. told'[v].operations = told[v].operations BY <1>17, <3>4
      <4>. QED BY <3>1, <4>1, <4>2 DEF CaughtUp
    <3>. QED BY <3>3, <3>4
  <2>. QED BY <1>1, <2>1 DEF PageInv, ServerIsAhead, CaughtUp
<1>11. AnswersAreNews'
  <2>1. ASSUME NEW q \in requests PROVE TellsNothingTo(q)
    <3>1. q.nr \in Nat BY DEF PageInv, PageTypeOK, Requests
    <3>2. HasSnapshot(q) => q.nr # requestGate'
      BY <1>1, <1>5, <3>1 DEF PageInv, Gates, HasSnapshot
    <3>3. HasPanel(q) => q.nr # providerRequestGate'
      BY <1>1, <1>5, <3>1 DEF PageInv, Gates, HasPanel
    <3>. QED BY <3>2, <3>3 DEF TellsNothingTo
  <2>. QED BY <1>6, <2>1, PageAnswers
<1>12. PageFollows'
  <2>1. panel'.model = panel.model BY <1>1, PanelStays
  <2>2. "dashboard" \in Sources /\ "provider" \in Sources BY DEF Sources
  <2>3. Level("dashboard") # 0 /\ Level("provider") # 0 BY <1>5
  <2>. HIDE DEF Level
  <2>4. ASSUME NEW v \in WorkItem, latestSnapshot # Nothing
        PROVE  /\ latestSnapshot[v].review = told'[v].shown
               /\ truthFence'["dashboard"][v] = 0 => told'[v].review <= told'[v].shown
    BY <1>4, <1>8, <1>15, <1>16, <2>2, <2>3, <2>4 DEF PageInv, PageFollows
  <2>5. ASSUME NEW v \in WorkItem, panel.model # Nothing, truthFence'["provider"][v] = 0
        PROVE  /\ CaughtUp(panel.model, v) /\ told'[v].operations = told[v].operations
    BY <1>4, <1>8, <1>17, <2>2, <2>3, <2>5 DEF PageInv, PageFollows
  <2>. QED BY <1>1, <2>1, <2>4, <2>5 DEF PageInv, PageFollows, CaughtUp
<1>13. DraftsFollow' /\ AskedOnce'
  <2>1. \A v \in WorkItem : told'[v].shown \in Nat /\ told'[v].shown >= told[v].shown BY <1>15
  <2>. QED BY <1>1, <1>5, <1>6, <2>1, NothingIsWritten
<1>14. PageTypeOK' BY <1>1, <1>5, <1>6, <1>8, <1>9, PanelStays, RequestTypes DEF PageInv, PageTypeOK
<1>. QED BY <1>6, <1>10, <1>11, <1>12, <1>13, <1>14, PageGates, PageDecidesNothing DEF PageInv

LEMMA TakeSnapshotKeeps ==
  ASSUME PageInv, NEW r \in requests, NEW how, TakeSnapshot(r, how) PROVE PageInv'
<1> DEFINE done == how = "answered" /\ IsLatest(r)
           again == done /\ r.to # "dashboard"
           opens == done /\ latestSnapshot = Nothing
           next == PageRequest("dashboard", requestGate + 1, Nothing)
           new == (IF again THEN {next} ELSE {}) \cup (IF opens THEN {AskProviders} ELSE {})
<1>1. /\ UNCHANGED <<item, decisions, operations, asked, commands>> /\ IsGated(r) /\ Settles(r, how)
      /\ requestGate' = IF again THEN requestGate + 1 ELSE requestGate
      /\ providerRequestGate' = IF opens THEN providerRequestGate + 1 ELSE providerRequestGate
      /\ panel' = IF opens THEN Asking ELSE panel
      /\ requests' = (requests \ {r}) \cup Abandoned(r) \cup new
  <2>1. AskProviders.nr = providerRequestGate + 1 BY DEF AskProviders, PageRequest
  <2>. QED BY <2>1 DEF TakeSnapshot
<1>2. IF done THEN truthFence' = Confirm("dashboard", r.nr) /\ Render(r.answer.snapshot)
      ELSE UNCHANGED <<truthFence, latestSnapshot, selectedWorkItemId, drafts, owner, reason, told>>
  BY DEF TakeSnapshot
<1>3. requestGate \in Nat /\ providerRequestGate \in Nat /\ commands \in Nat /\ r.nr \in Nat
  BY DEF PageInv, PageTypeOK, Requests
<1>4. RequestStep /\ \A q \in new : q.at = "sent"
  <2>1. /\ requestGate + 1 \in Nat /\ providerRequestGate + 1 \in Nat
        /\ Nothing \in Decision \cup [item : WorkItem] \cup [id : Nat] \cup {Nothing}
    BY <1>3
  <2>2. /\ next \in Requests /\ next.at = "sent" /\ next.to = "dashboard"
        /\ next.nr = requestGate + 1
        /\ AskProviders \in Requests /\ AskProviders.at = "sent" /\ AskProviders.to = "providers"
        /\ AskProviders.nr = providerRequestGate + 1
    BY <2>1, RequestIsTyped DEF AskProviders
  <2>. HIDE DEF next
  <2>3. \A q \in new :
            /\ q.at = "sent" /\ q.to \in {"dashboard", "providers"}
            /\ q.to = "dashboard" => q.nr = requestGate + 1 /\ requestGate' = q.nr
            /\ q.to = "providers" => q.nr = providerRequestGate'
            /\ \A p \in new : p.to = q.to => p = q
    BY <1>1, <2>2
  <2>4. new \in SUBSET Requests BY <2>2
  <2>. HIDE DEF new
  <2>. QED BY <1>1, <2>3, <2>4, SettledStep
<1>5. panel'.model = panel.model
      /\ panel' \in [phase : {"idle", "loading", "refreshing", "ready", "empty", "stale", "error"},
                     model : (SUBSET Transition) \cup {Nothing}]
  BY <1>1, PanelStays
<1>. HIDE DEF new, next
<1>6. CASE ~done
  <2>1. UNCHANGED <<truthFence, latestSnapshot, selectedWorkItemId, drafts, owner, reason, told>>
    BY <1>2, <1>6
  <2>2. \A v \in WorkItem : told'[v].shown \in Nat /\ told'[v].shown >= told[v].shown
    BY <2>1 DEF PageInv, PageTypeOK
  <2>3. DraftsFollow' /\ AskedOnce' BY <1>1, <1>3, <1>4, <2>1, <2>2, NothingIsWritten
  <2>4. PageFollows' BY <1>4, <1>5, <2>1, NothingIsShown
  <2>5. PageTypeOK' BY <1>1, <1>3, <1>4, <1>5, <2>1, RequestTypes DEF PageInv, PageTypeOK
  <2>. QED
    BY <1>4, <2>1, <2>3, <2>4, <2>5, PageGates, NothingIsTold, PageDecidesNothing DEF PageInv
<1>7. CASE done
  <2> DEFINE snapshot == r.answer.snapshot
             w == IF selectedWorkItemId = Nothing THEN First ELSE selectedWorkItemId
  <2>1. HasSnapshot(r) /\ r.nr = requestGate /\ r.at = "answered" /\ r.open
    BY <1>1, <1>7 DEF Settles, HasSnapshot, IsLatest, IsGated
  <2>2. SnapshotIsNews(r) BY <2>1 DEF PageInv, AnswersAreNews
  <2>3. /\ snapshot \in Snapshot
        /\ \A v \in WorkItem :
            /\ snapshot[v].review \in Nat /\ snapshot[v].review <= item[v].review
            /\ told[v].shown <= snapshot[v].review /\ told[v].review <= snapshot[v].review
    BY <2>1, <2>2 DEF SnapshotIsNews, Snapshot, ItemState
  <2>4. /\ truthFence' = Confirm("dashboard", r.nr) /\ Render(snapshot) BY <1>2, <1>7
  <2>. HIDE DEF snapshot
  <2>5. /\ latestSnapshot' = snapshot /\ selectedWorkItemId' = w /\ InitializeDraft(w, snapshot)
        /\ told' = [v \in WorkItem |-> [told[v] EXCEPT !.shown = Larger(@, snapshot[v].review)]]
    BY <2>4 DEF Render
  <2>6. w \in WorkItem BY PageAssumption DEF PageInv, PageTypeOK
  <2>. HIDE DEF w
  <2>7. told \in [WorkItem -> [shown : Nat, review : Nat, operations : SUBSET Transition]]
    BY DEF PageInv, PageTypeOK
  <2>8. ASSUME NEW v \in WorkItem
        PROVE  /\ told'[v] \in [shown : Nat, review : Nat, operations : SUBSET Transition]
               /\ told'[v].shown = snapshot[v].review /\ told'[v].review = told[v].review
               /\ told'[v].operations = told[v].operations
               /\ told[v].shown \in Nat
    <3>1. told[v] \in [shown : Nat, review : Nat, operations : SUBSET Transition] BY <2>7
    <3>2. told[v].shown \in Nat BY <3>1
    <3>3. Larger(told[v].shown, snapshot[v].review) = snapshot[v].review
      BY <2>3, <3>2 DEF Larger
    <3>4. told'[v] = [told[v] EXCEPT !.shown = snapshot[v].review] BY <2>5, <3>3
    <3>5. snapshot[v].review \in Nat BY <2>3
    <3>. QED BY <3>1, <3>2, <3>4, <3>5
  <2>9. told' \in [WorkItem -> [shown : Nat, review : Nat, operations : SUBSET Transition]]
    <3> DEFINE t(v) == [told[v] EXCEPT !.shown = Larger(@, snapshot[v].review)]
    <3>1. told' = [v \in WorkItem |-> t(v)] BY <2>5
    <3>2. \A v \in WorkItem : t(v) \in [shown : Nat, review : Nat, operations : SUBSET Transition]
      BY <2>8, <3>1
    <3>. HIDE DEF t
    <3>. QED BY <3>1, <3>2
  <2>10. \A v \in WorkItem :
            /\ told'[v].shown = snapshot[v].review /\ told'[v].review = told[v].review
            /\ told'[v].operations = told[v].operations /\ told[v].shown \in Nat
    BY <2>8
  <2>11. ServerIsAhead'
    BY <1>1, <2>3, <2>10 DEF PageInv, ServerIsAhead, CaughtUp
  <2>12. AnswersAreNews'
    <3>1. ASSUME NEW q \in requests \cap requests', HasSnapshot(q), q.nr = requestGate' PROVE FALSE
      <4>1. q.nr \in Nat /\ q.nr <= requestGate /\ q.open
        BY <3>1 DEF PageInv, PageTypeOK, Gates, HasSnapshot, Requests
      <4>2. requestGate' = requestGate BY <1>1, <1>3, <3>1, <4>1
      <4>3. q = r BY <1>1, <2>1, <3>1, <4>1, <4>2 DEF PageInv, Gates, Gated, HasSnapshot
      <4>4. q \in new BY <1>1, <2>1, <3>1, <4>3 DEF Abandoned
      <4>. QED BY <1>4, <2>1, <4>3, <4>4
    <3>2. \A q \in requests \cap requests' : TellsNothingTo(q)
      BY <2>10, <3>1 DEF TellsNothingTo
    <3>. QED BY <1>4, <3>2, PageAnswers
  <2>13. truthFence' \in [Sources -> [WorkItem -> Nat]]
         /\ truthFence'["provider"] = truthFence["provider"]
    BY <1>3, <2>4, ConfirmIsTyped DEF Sources
  <2>14. PageFollows'
    <3>1. ASSUME NEW v \in WorkItem
          PROVE  /\ latestSnapshot'[v].review = told'[v].shown
                 /\ told'[v].review <= told'[v].shown
      BY <2>3, <2>5, <2>10
    <3>2. ASSUME panel.model # Nothing, NEW v \in WorkItem, truthFence["provider"][v] = 0
          PROVE  CaughtUp(panel.model, v)'
      BY <1>5, <2>10, <3>2 DEF PageInv, PageFollows, CaughtUp
    <3>3. panel.model # Nothing => \A o \in panel.model : IsDone(o) => o \in operations
      BY DEF PageInv, PageFollows
    <3>. QED BY <1>1, <1>5, <2>13, <3>1, <3>2, <3>3 DEF PageFollows, CaughtUp
  <2>15. /\ drafts' \in [WorkItem -> Draft \cup {Nothing}] /\ reason' \in WorkItem \cup {Nothing}
         /\ DraftsFollow' /\ AskedOnce'
    <3>1. \A v \in WorkItem : told'[v].shown \in Nat /\ told'[v].shown >= told[v].shown
      BY <2>3, <2>10
    <3>2. told[w].shown <= snapshot[w].review /\ snapshot[w].review <= told'[w].shown
      BY <2>3, <2>6, <2>10
    <3>3. \A q \in requests' : /\ q.to = "acceptance" => q.body \in asked'
                               /\ q.to \in {"run", "cancel"} => q.body \in [item : WorkItem]
      BY <1>4, PageRequests
    <3>. QED BY <1>1, <2>3, <2>5, <2>6, <3>1, <3>2, <3>3, DraftIsFor
  <2>16. PageTypeOK'
    <3>1. requestGate' \in Nat /\ providerRequestGate' \in Nat /\ requests' \subseteq Requests
      BY <1>4, RequestTypes DEF RequestStep
    <3>2. latestSnapshot' \in Snapshot \cup {Nothing} /\ selectedWorkItemId' \in WorkItem \cup {Nothing}
      BY <2>3, <2>5, <2>6
    <3>3. UNCHANGED <<item, decisions, operations, asked, commands>> BY <1>1
    <3>. QED BY <1>5, <2>9, <2>13, <2>15, <3>1, <3>2, <3>3 DEF PageInv, PageTypeOK
  <2>. QED
    BY <1>4, <2>11, <2>12, <2>14, <2>15, <2>16, PageGates, PageDecidesNothing DEF PageInv
<1>. QED BY <1>6, <1>7

-----------------------------------------------------------------------------
(* The theorems.                                                           *)

LEMMA PageInitInv == PageInit => PageInv
<1>1. SUFFICES ASSUME PageInit PROVE PageInv OBVIOUS
<1>2. /\ item = [w \in WorkItem |-> [review |-> 1, decision |-> Nothing, attempt |-> FALSE, run |-> "no"]]
      /\ decisions = {} /\ operations = {} /\ asked = {} /\ commands = 0
      /\ requests = {PageRequest("dashboard", 1, Nothing)}
      /\ requestGate = 1 /\ providerRequestGate = 0 /\ truthFence = NoFence
      /\ latestSnapshot = Nothing /\ selectedWorkItemId = Nothing
      /\ panel = [phase |-> "idle", model |-> Nothing]
      /\ drafts = [w \in WorkItem |-> Nothing] /\ owner = Nothing /\ reason = Nothing
      /\ told = [w \in WorkItem |-> [shown |-> 0, review |-> 0, operations |-> {}]]
  BY <1>1 DEF PageInit, PageRequest
<1>3. /\ PageRequest("dashboard", 1, Nothing) \in Requests /\ PageRequest("dashboard", 1, Nothing).to = "dashboard"
      /\ PageRequest("dashboard", 1, Nothing).nr = 1 /\ PageRequest("dashboard", 1, Nothing).at = "sent"
  <2>1. 1 \in Nat /\ Nothing \in Decision \cup [item : WorkItem] \cup [id : Nat] \cup {Nothing}
    OBVIOUS
  <2>. QED BY <2>1, RequestIsTyped
<1>4. item \in Snapshot BY <1>2 DEF Snapshot, ItemState
<1>5. truthFence \in [Sources -> [WorkItem -> Nat]] BY <1>2 DEF NoFence
<1>6. /\ told \in [WorkItem -> [shown : Nat, review : Nat, operations : SUBSET Transition]]
      /\ \A w \in WorkItem : told[w].shown = 0 /\ told[w].review = 0 /\ told[w].operations = {}
                             /\ item[w].review = 1
  BY <1>2
<1>7. panel \in [phase : {"idle", "loading", "refreshing", "ready", "empty", "stale", "error"},
                 model : (SUBSET Transition) \cup {Nothing}]
      /\ panel.model = Nothing
  BY <1>2
<1>8. drafts \in [WorkItem -> Draft \cup {Nothing}] /\ \A w \in WorkItem : drafts[w] = Nothing
  BY <1>2
<1>9. PageTypeOK BY <1>2, <1>3, <1>4, <1>5, <1>6, <1>7, <1>8 DEF PageTypeOK
<1>10. Gates BY <1>2, <1>3 DEF Gates, Gated, IsGated
<1>11. ServerIsAhead BY <1>2, <1>6 DEF ServerIsAhead, CaughtUp
<1>12. AnswersAreNews BY <1>2, <1>3 DEF AnswersAreNews, HasSnapshot, HasPanel
<1>13. PageFollows BY <1>2, <1>7 DEF PageFollows
<1>14. DraftsFollow BY <1>2, <1>8 DEF DraftsFollow
<1>15. AskedOnce BY <1>2, <1>3 DEF AskedOnce
<1>16. Decided BY <1>2, <1>3 DEF Decided, WasRefused
<1>. QED BY <1>9, <1>10, <1>11, <1>12, <1>13, <1>14, <1>15, <1>16 DEF PageInv

LEMMA PageNextInv == PageInv /\ [PageNext]_controlRoomVars => PageInv'
<1>1. SUFFICES ASSUME PageInv, [PageNext]_controlRoomVars PROVE PageInv' OBVIOUS
<1>2. CASE PollDashboard BY <1>1, <1>2, PollDashboardKeeps
<1>3. CASE PollProviders BY <1>1, <1>3, PollProvidersKeeps
<1>4. CASE Operator
  BY <1>1, <1>4, SelectKeeps, WriteKeeps, RunKeeps, ReconcileAcceptanceKeeps, SubmitAcceptanceKeeps
  DEF Operator
<1>5. CASE Served
  <2>1. PICK r \in requests : Work(r) BY <1>5 DEF Served
  <2>2. ServerStep
    BY <1>1, <2>1, ServeDashboardStep, ServeProvidersStep, ServeRunStep, RecordDecisionStep,
       PrepareTransitionStep, DeliverTransitionStep, ReconcileTransitionStep
    DEF Work
  <2>. QED BY <1>1, <2>2, ServerKeepsPage
<1>6. CASE Taken
  BY <1>1, <1>6, TakeSnapshotKeeps, TakePanelKeeps, TakeCommandKeeps DEF Taken, Take
<1>7. CASE \E w \in WorkItem : AttemptStarts(w) \/ RunEnds(w) \/ Fact(w)
  BY <1>1, <1>7, WorkflowStep, ServerKeepsPage
<1>8. CASE UNCHANGED controlRoomVars
  <2>1. ServerStep
    BY <1>1, <1>8, ItemsStay, OperationsStay DEF ServerStep, ServerFrame, controlRoomVars
  <2>. QED BY <1>1, <2>1, ServerKeepsPage
<1>. QED BY <1>1, <1>2, <1>3, <1>4, <1>5, <1>6, <1>7, <1>8 DEF PageNext

\* Of the answers on their way only the newest is taken, the fences stand as long as what
\* the page shows is older than what it was told, and every draft is of the review that
\* was shown: the invariant the two properties rest on.
THEOREM PageInvariant == PageSpec => []PageInv
<1>. QED BY PageInitInv, PageNextInv, PTL DEF PageSpec

LEMMA CurrentIfInvariant == PageInv => PageIsCurrent
<1>1. SUFFICES ASSUME PageInv, NEW w \in WorkItem
               PROVE  /\ latestSnapshot # Nothing => latestSnapshot[w].review >= told[w].shown
                      /\ CanDecide(w) => latestSnapshot[w].review >= told[w].review
                      /\ \A o \in Shown(w) : CanReconcile(w, o) =>
                            \A t \in told[w].operations : t.id = o.id => o.version >= t.version
                      /\ ShowsDone(w) => \E o \in operations :
                            o.id = latestSnapshot[w].decision.id
                            /\ o.status \in {"transitioned", "reconciled"}
  BY DEF PageIsCurrent
<1>2. told[w].shown \in Nat /\ told[w].review \in Nat BY <1>1 DEF PageInv, PageTypeOK
<1>3. latestSnapshot # Nothing => latestSnapshot[w].review >= told[w].shown
  BY <1>1, <1>2 DEF PageInv, PageFollows
<1>4. CanDecide(w) => latestSnapshot[w].review >= told[w].review
  BY <1>1, <1>2 DEF PageInv, PageFollows, CanDecide
<1>5. Shown(w) # {} => panel.model # Nothing
        /\ Shown(w) = {o \in panel.model : o.item = w /\ o.id = latestSnapshot[w].decision.id}
  BY DEF Shown, Matching
<1>6. ASSUME NEW o \in Shown(w), CanReconcile(w, o), NEW t \in told[w].operations, t.id = o.id
      PROVE  o.version >= t.version
  <2>1. truthFence["provider"][w] = 0 BY <1>6 DEF CanReconcile, Sources
  <2>2. panel.model # Nothing /\ o \in panel.model BY <1>5
  <2>. QED BY <1>1, <1>6, <2>1, <2>2 DEF PageInv, PageFollows, CaughtUp
<1>7. ASSUME ShowsDone(w)
      PROVE  \E o \in operations : o.id = latestSnapshot[w].decision.id
                                   /\ o.status \in {"transitioned", "reconciled"}
  <2>1. PICK o \in Shown(w) : o.status \in {"transitioned", "reconciled"} BY <1>7 DEF ShowsDone
  <2>2. panel.model # Nothing /\ o \in panel.model /\ o.id = latestSnapshot[w].decision.id BY <1>5
  <2>3. o \in operations BY <1>1, <2>1, <2>2 DEF PageInv, PageFollows, IsDone
  <2>. QED BY <2>1, <2>2, <2>3
<1>. QED BY <1>3, <1>4, <1>6, <1>7

\* For any number of work items, commands and lost or overtaken answers: the page never
\* shows an older review than before, and offers no decision and no reconciliation from
\* before the operator's last command about it; what it shows as done in Linear is done.
THEOREM PageStaysCurrent == PageSpec => []PageIsCurrent
<1>. QED BY PageInvariant, CurrentIfInvariant, PTL

LEMMA AsReadIfInvariant == PageInv => DecidedAsRead
<1>1. SUFFICES ASSUME PageInv PROVE DecidedAsRead OBVIOUS
<1>2. \A d \in decisions : d \in asked /\ d \in Decision /\ d.reason = d.item
  BY <1>1 DEF PageInv, PageTypeOK, Decided, AskedOnce
<1>3. \A a, b \in asked : a.id = b.id => a.item = b.item /\ a.review = b.review
  BY <1>1 DEF PageInv, AskedOnce
<1>4. ASSUME NEW r \in requests, WasRefused(r), NEW d \in decisions,
             [d EXCEPT !.id = Nothing] = [r.body EXCEPT !.id = Nothing]
      PROVE  FALSE
  <2>1. r.body \in Decision BY <1>1, <1>4 DEF PageInv, PageTypeOK, AskedOnce, WasRefused
  <2>2. d \in Decision BY <1>2
  <2>3. SameDecision(d, r.body) BY <1>4, <2>1, <2>2 DEF SameDecision, Decision
  <2>. QED BY <1>1, <1>4, <2>3 DEF PageInv, Decided
<1>. QED BY <1>2, <1>3, <1>4 DEF DecidedAsRead, WasRefused

\* Whatever is edited, repeated, lost or reset by another review: a decision is recorded
\* with the reason written for its item, an id names one review, and what was refused
\* does not stand under another id.
THEOREM DecisionsAreAsRead == PageSpec => []DecidedAsRead
<1>. QED BY PageInvariant, AsReadIfInvariant, PTL
=============================================================================
