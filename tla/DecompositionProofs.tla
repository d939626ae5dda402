------------------------ MODULE DecompositionProofs ------------------------
(***************************************************************************)
(* What holds of the dispatcher for any plans, work items and limits.      *)
(***************************************************************************)
EXTENDS Decomposition, FiniteSetTheorems, TLAPS

-----------------------------------------------------------------------------
(* The journal: memory and file differ only while a write is under way and *)
(* after one whose outcome is unknown, and then the file is one write ahead. *)

OnFile == ActiveOf(disk.records, disk.retired)
Live == Active \cup OnFile

Command ==
    [op: {"approve"}, plan: Plan, revision: {1, 2},
     baselines: UNION {[owned -> Nat] : owned \in SUBSET WorkItem}]
        \cup [op: {"retire"}, plan: Plan]

Approves(c) == c.op = "approve"

IsApproval(r) ==
    /\ r.plan \in Plan
    /\ r.baselines # None => r.baselines \in [Owned(r.plan) -> Nat]

JournalTyped ==
    /\ IsFiniteSet(disk.records) /\ \A r \in disk.records : IsApproval(r)
    /\ disk.retired \subseteq Plan
    /\ queue \in Seq(Command)
    /\ \A k \in 1..Len(queue) :
        Approves(queue[k]) => queue[k].baselines \in [Owned(queue[k].plan) -> Nat]
    /\ profile \in {1, 2}

FileIsAhead ==
    /\ EnvelopeParses(disk)
    /\ records \subseteq disk.records /\ retired \subseteq disk.retired
    /\ retired \subseteq PlansIn(records)
    /\ \A r, s \in Live : r # s => Owned(r.plan) \cap Owned(s.plan) = {}
    /\ replaced => queue # <<>> /\ Accepts(Turn) /\ disk = After(Turn)
    /\ (up /\ ~replaced /\ health = "ready") => disk.records = records /\ disk.retired = retired

NothingWhileDown ==
    ~up => /\ queue = <<>> /\ ~replaced
           /\ approving = {} /\ retiring = {}
           /\ \A w \in WorkItem : run[w] = None /\ accepting[w] = None
           /\ restarts < MaxRestarts

JournalInv == JournalTyped /\ FileIsAhead /\ NothingWhileDown

-----------------------------------------------------------------------------
(* The claims: each is backed by a command, and each command by a claim.   *)

Backed(k) ==
    IF Approves(queue[k]) THEN queue[k].plan \in approving
    ELSE queue[k].plan \in retiring /\ queue[k].plan \in releasing \cup retired

BackedInv ==
    /\ \A k \in 1..Len(queue) : Backed(k)
    /\ \A j, k \in 1..Len(queue) :
        (j # k /\ queue[j].op = queue[k].op) => queue[j].plan # queue[k].plan
    /\ releasing \subseteq ActivePlans

ClaimInv == BackedInv /\ ClaimsAreExclusive

-----------------------------------------------------------------------------
(* The runs.                                                               *)

\* The approval a plan's attempt on w counts from.
Founds(r, w) == w \in Node[r.plan] /\ r.baselines # None

RunInv ==
    /\ \A w \in WorkItem : (run[w] # None /\ run[w].by # "person") =>
        \E r \in Active : r.plan = run[w].by /\ Founds(r, w)
    /\ \A r \in Live : \A w \in Node[r.plan] : run[w] # None => run[w].by # "person"

PlanRuns(p) == {w \in Node[p] : run[w] # None /\ run[w].by = p}
SlotInv == \A p \in Plan : Cardinality(PlanRuns(p)) <= MaxParallelism[p]

-----------------------------------------------------------------------------
(* The attempts.                                                           *)

AttemptsOf(w, p) == {i \in DOMAIN item[w].by : item[w].by[i] = p}

AttemptInv ==
    /\ \A w \in WorkItem : item[w].active <= Len(item[w].by)
    /\ \A r \in disk.records : \A w \in Node[r.plan] :
        r.baselines # None => r.baselines[w] <= Len(item[w].by)
    /\ \A w \in WorkItem : \A i \in DOMAIN item[w].by : item[w].by[i] \in Plan =>
        /\ i <= item[w].active
        /\ \E r \in disk.records :
            r.plan = item[w].by[i] /\ Founds(r, w) /\ i > r.baselines[w]

CountInv ==
    \A p \in Plan : \A w \in Node[p] :
        /\ Cardinality(AttemptsOf(w, p)) <= MaxAttempts[p]
        /\ (run[w] # None /\ run[w].by = p /\ ~run[w].started) =>
            Cardinality(AttemptsOf(w, p)) < MaxAttempts[p]

-----------------------------------------------------------------------------
(* The windows.  What runs on a node while its approval waits belongs to a *)
(* plan that is active; unless that plan's retirement comes first, the     *)
(* approval will be refused.                                               *)

WindowInv ==
    \A r \in Live : r.baselines # None =>
        \A w \in Node[r.plan] : \A i \in Window(r, w) :
            item[w].by[i] \in {r.plan, "elsewhere"}

Hindered(k, w) ==
    \E r \in Active :
        /\ w \in Owned(r.plan)
        /\ \A j \in 1..Len(queue) :
            (j < k /\ ~Approves(queue[j])) => queue[j].plan # r.plan

QueueInv ==
    \A k \in 1..Len(queue) : Approves(queue[k]) =>
        \A w \in Node[queue[k].plan] :
            /\ queue[k].baselines[w] <= Len(item[w].by)
            /\ \A i \in DOMAIN item[w].by :
                i > queue[k].baselines[w] => item[w].by[i] = "elsewhere" \/ Hindered(k, w)

-----------------------------------------------------------------------------
(* The acceptances.                                                        *)

Ordered(r, w) ==
    /\ w \in Node[r.plan] => \A d \in DependsOn[r.plan][w] : IsAccepted(d)
    /\ w = Root[r.plan] => \A n \in Node[r.plan] : IsAccepted(n)

OrderInv ==
    \A w \in WorkItem : (accepting[w] # None /\ accepting[w].verdict = "accepted") =>
        \A r \in Active : Ordered(r, w)

IInv ==
    /\ TypeOK /\ JournalInv /\ ClaimInv /\ RunInv /\ SlotInv
    /\ AttemptInv /\ CountInv /\ WindowInv /\ QueueInv /\ OrderInv

-----------------------------------------------------------------------------
(* The operators.                                                          *)

\* A command that is queued comes last.
LEMMA Queueing ==
    ASSUME NEW c \in Command, queue \in Seq(Command), Enqueue(c)
    PROVE  /\ queue' \in Seq(Command) /\ Len(queue') = Len(queue) + 1
           /\ \A k \in 1..Len(queue) : queue'[k] = queue[k]
           /\ queue'[Len(queue) + 1] = c
<1> DEFINE S == Command
<1>1. c \in S /\ queue \in Seq(S) /\ queue' = Append(queue, c)
    BY DEF Enqueue
<1> HIDE DEF S
<1>2. /\ queue' \in Seq(S) /\ Len(queue') = Len(queue) + 1
      /\ \A k \in 1..Len(queue) : queue'[k] = queue[k]
      /\ queue'[Len(queue) + 1] = c
    BY <1>1
<1> QED BY <1>2 DEF S

\* The command at the head of the queue.
LEMMA HeadOfQueue ==
    ASSUME queue \in Seq(Command), queue # <<>>
    PROVE  Turn \in Command /\ Turn = queue[1] /\ Len(queue) \in Nat /\ 1 \in 1..Len(queue)
<1> DEFINE S == Command
<1>1. queue \in Seq(S)
    OBVIOUS
<1> HIDE DEF S
<1>2. Turn \in S /\ Turn = queue[1] /\ Len(queue) \in Nat /\ 1 \in 1..Len(queue)
    BY <1>1 DEF Turn
<1> QED BY <1>2 DEF S

\* An answered command leaves the queue, and the others move up.
LEMMA Leaving ==
    ASSUME queue \in Seq(Command), queue # <<>>, LeaveQueue
    PROVE  /\ queue' \in Seq(Command) /\ Len(queue') + 1 = Len(queue) /\ Len(queue') \in Nat
           /\ \A k \in 1..Len(queue') : k + 1 \in 1..Len(queue) /\ queue'[k] = queue[k + 1]
<1> DEFINE S == Command
<1>1. queue \in Seq(S) /\ queue' = Tail(queue)
    BY DEF LeaveQueue
<1> HIDE DEF S
<1>2. /\ queue' \in Seq(S) /\ Len(queue') + 1 = Len(queue) /\ Len(queue') \in Nat
      /\ \A k \in 1..Len(queue') : k + 1 \in 1..Len(queue) /\ queue'[k] = queue[k + 1]
    BY <1>1
<1> QED BY <1>2 DEF S

\* What a command is made of.
LEMMA CommandParts ==
    ASSUME PlansAreWellFormed, NEW c \in Command
    PROVE  c.plan \in Plan /\ c.op \in {"approve", "retire"}
BY DEF Command

LEMMA ApprovalCommand ==
    ASSUME PlansAreWellFormed, NEW p \in Plan, profile \in {1, 2},
           NEW baselines \in [Owned(p) -> Nat]
    PROVE  [op |-> "approve", plan |-> p, revision |-> profile, baselines |-> baselines] \in Command
<1>1. Owned(p) \in SUBSET WorkItem
    BY DEF PlansAreWellFormed, Owned
<1>2. baselines \in UNION {[owned -> Nat] : owned \in SUBSET WorkItem}
    BY <1>1
<1> DEFINE B == UNION {[owned -> Nat] : owned \in SUBSET WorkItem}
<1>3. baselines \in B
    BY <1>2
<1> HIDE DEF B
<1>4. [op |-> "approve", plan |-> p, revision |-> profile, baselines |-> baselines]
        \in [op: {"approve"}, plan: Plan, revision: {1, 2}, baselines: B]
    BY <1>3
<1> QED BY <1>4 DEF Command, B

LEMMA RetireCommand ==
    ASSUME NEW p \in Plan
    PROVE  [op |-> "retire", plan |-> p] \in Command
BY DEF Command

\* What the plans of the constants own.
LEMMA OwnedItems ==
    ASSUME PlansAreWellFormed, NEW p \in Plan
    PROVE  Owned(p) \subseteq WorkItem /\ Node[p] \subseteq Owned(p) /\ Root[p] \in Owned(p)
BY DEF PlansAreWellFormed, Owned

\* What is active has a record, of a plan.
LEMMA LiveRecords ==
    ASSUME JournalTyped, FileIsAhead
    PROVE  /\ Active \subseteq records /\ OnFile \subseteq disk.records
           /\ Live \subseteq disk.records
           /\ \A r \in disk.records : IsApproval(r) /\ r.plan \in Plan
           /\ \A r, s \in disk.records : r.plan = s.plan => r = s
           /\ ActivePlans \subseteq Plan /\ ActivePlans \cap retired = {}
           /\ \A p \in ActivePlans : \E r \in Active : r.plan = p
BY DEF JournalTyped, FileIsAhead, EnvelopeParses, Active, OnFile, Live, ActiveOf, ActivePlans,
       PlansIn, IsApproval

LEMMA InitIInv ==
    ASSUME PlansAreWellFormed
    PROVE  Init => IInv
<1> SUFFICES ASSUME Init PROVE IInv
    OBVIOUS
<1>1. PICK legacy \in {{}} \cup {{Approval(p, 1, None)} : p \in Plan} :
        disk = [records |-> legacy, retired |-> {}]
    BY DEF Init
<1> DEFINE Legacy ==
        /\ IsFiniteSet(legacy) /\ Cardinality(legacy) <= 1 /\ Cardinality(legacy) \in Nat
        /\ \A r, s \in legacy : r = s
        /\ \A r \in legacy : r.plan \in Plan /\ r.baselines = None
<1>2. Legacy
  <2>1. CASE legacy = {}
    BY <2>1, FS_EmptySet
  <2>2. ASSUME NEW p \in Plan, legacy = {Approval(p, 1, None)} PROVE Legacy
    <3>1. IsFiniteSet(legacy) /\ Cardinality(legacy) = 1
      BY <2>2, FS_Singleton
    <3> QED BY <2>2, <3>1 DEF Approval
  <2> QED BY <1>1, <2>1, <2>2
<1>3. disk.records = legacy /\ records = legacy /\ disk.retired = {} /\ retired = {}
    BY <1>1 DEF Init
<1>4. /\ queue = <<>> /\ Len(queue) = 0 /\ 1..Len(queue) = {} /\ queue \in Seq(Command)
      /\ ~replaced /\ up
    BY DEF Init
<1>5. /\ \A w \in WorkItem : run[w] = None /\ accepting[w] = None
      /\ approving = {} /\ retiring = {} /\ releasing = {}
    BY DEF Init
<1>6. \A w \in WorkItem :
        item[w] = NewItem /\ item[w].by = <<>> /\ DOMAIN item[w].by = {} /\ Len(item[w].by) = 0
            /\ item[w].active = 0
    BY DEF Init, NewItem
<1>7. TypeOK
  <2>1. NewItem \in Item
    BY DEF NewItem, Item, Outcome
  <2>2. /\ item \in [WorkItem -> Item] /\ run \in [WorkItem -> Run \cup {None}]
        /\ accepting \in [WorkItem -> Review \cup {None}]
    BY <2>1 DEF Init
  <2>3. PlansIn(records) \subseteq Plan /\ retired \subseteq Plan
    BY <1>2, <1>3 DEF PlansIn
  <2>4. health = "ready" /\ replaced = FALSE /\ up = TRUE /\ restarts = 0 /\ requests = 0
    BY DEF Init
  <2>5. restarts \in 0..MaxRestarts /\ requests \in 0..MaxRequests
    BY <2>4 DEF PlansAreWellFormed
  <2> QED BY <1>5, <2>2, <2>3, <2>4, <2>5 DEF TypeOK
<1>8. JournalInv
  <2>1. JournalTyped
    BY <1>2, <1>3, <1>4 DEF JournalTyped, IsApproval, Init
  <2>2. EnvelopeParses(disk)
    BY <1>2, <1>3 DEF EnvelopeParses, OwnershipAvailable, ActiveOf, PlansIn, PlansAreWellFormed
  <2>3. \A r, s \in Live : r = s
    BY <1>2, <1>3 DEF Live, Active, OnFile, ActiveOf
  <2>4. FileIsAhead
    BY <1>1, <1>3, <1>4, <2>2, <2>3 DEF FileIsAhead
  <2> QED BY <1>4, <2>1, <2>4 DEF JournalInv, NothingWhileDown
<1>9. ClaimInv
    BY <1>4, <1>5 DEF ClaimInv, BackedInv, ClaimsAreExclusive, ClaimedByApproval, ClaimedByRetirement
<1>10. RunInv /\ OrderInv
  <2>1. \A r \in Live : Node[r.plan] \subseteq WorkItem
    BY <1>2, <1>3, OwnedItems DEF Live, Active, OnFile, ActiveOf
  <2> QED BY <1>5, <2>1 DEF RunInv, OrderInv
<1>11. SlotInv
  <2> SUFFICES ASSUME NEW p \in Plan PROVE Cardinality(PlanRuns(p)) <= MaxParallelism[p]
    BY DEF SlotInv
  <2>1. PlanRuns(p) = {}
    BY <1>5, OwnedItems DEF PlanRuns
  <2> QED BY <2>1, FS_EmptySet DEF PlansAreWellFormed
<1>12. AttemptInv
    BY <1>2, <1>3, <1>6 DEF AttemptInv
<1>13. CountInv
  <2> SUFFICES ASSUME NEW p \in Plan, NEW w \in Node[p]
               PROVE  Cardinality(AttemptsOf(w, p)) = 0 /\ MaxAttempts[p] \in Nat /\ MaxAttempts[p] > 0
    BY DEF CountInv
  <2>1. AttemptsOf(w, p) = {}
    BY <1>6, OwnedItems DEF AttemptsOf
  <2> QED BY <2>1, FS_EmptySet DEF PlansAreWellFormed
<1>14. WindowInv
    BY <1>2, <1>3 DEF WindowInv, Live, Active, OnFile, ActiveOf
<1>15. QueueInv
    BY <1>4 DEF QueueInv
<1> QED BY <1>7, <1>8, <1>9, <1>10, <1>11, <1>12, <1>13, <1>14, <1>15 DEF IInv

-----------------------------------------------------------------------------
(* The types.                                                              *)

\* A new attempt is the last one and the active one.
LEMMA NewAttempt ==
    ASSUME NEW it \in Item, NEW by \in Starter, NEW status \in Outcome \cup {"running"}
    PROVE  /\ WithAttempt(it, by, status) \in Item
           /\ WithAttempt(it, by, status).by = Append(it.by, by)
           /\ WithAttempt(it, by, status).active = Len(it.by) + 1
           /\ WithAttempt(it, by, status).decision = None
<1>1. Append(it.by, by) \in Seq(Starter) /\ Len(it.by) + 1 \in Nat
    BY DEF Item
<1> QED BY <1>1 DEF WithAttempt, Item

LEMMA OlderAttempt ==
    ASSUME NEW it \in Item, NEW by \in Starter
    PROVE  /\ [it EXCEPT !.by = Append(@, by)] \in Item
           /\ [it EXCEPT !.by = Append(@, by)].by = Append(it.by, by)
           /\ [it EXCEPT !.by = Append(@, by)].active = it.active
           /\ [it EXCEPT !.by = Append(@, by)].decision = it.decision
<1>1. Append(it.by, by) \in Seq(Starter)
    BY DEF Item
<1> QED BY <1>1 DEF Item

LEMMA NextTypeOK ==
    ASSUME PlansAreWellFormed, TypeOK, JournalInv, Next
    PROVE  TypeOK'
<1> DEFINE JournalOK == /\ PlansIn(records) \subseteq Plan /\ retired \subseteq Plan
                        /\ health \in {"ready", "fenced"} /\ replaced \in BOOLEAN
           ItemOK == item \in [WorkItem -> Item]
           RunOK == run \in [WorkItem -> Run \cup {None}]
           ReviewsOK == accepting \in [WorkItem -> Review \cup {None}]
           ClaimsOK == approving \subseteq Plan /\ retiring \subseteq Plan /\ releasing \subseteq retiring
           ProcessOK == /\ up \in BOOLEAN /\ restarts \in 0..MaxRestarts
           RequestsOK == requests \in 0..MaxRequests
<1>0. JournalOK /\ ItemOK /\ RunOK /\ ReviewsOK /\ ClaimsOK /\ ProcessOK /\ RequestsOK
    BY DEF TypeOK
<1>j. UNCHANGED journal => JournalOK'
    BY <1>0 DEF journal
<1>c. UNCHANGED claims => ClaimsOK'
    BY <1>0 DEF claims
<1>p. UNCHANGED process => ProcessOK'
    BY <1>0 DEF process
<1>r. Requested => RequestsOK'
    BY <1>0 DEF Requested, PlansAreWellFormed
<1>e. ASSUME NEW c, Enqueue(c) PROVE JournalOK'
    BY <1>0, <1>e DEF Enqueue
<1>1. ASSUME NEW p \in Plan, Approve(p) \/ Retire(p) \/ RetireAgain(p) PROVE TypeOK'
    BY <1>0, <1>1, <1>c, <1>p, <1>r, <1>e DEF Approve, Retire, RetireAgain, TypeOK
<1>2. ASSUME JournalReplaces PROVE TypeOK'
    BY <1>0, <1>2, <1>c, <1>p DEF JournalReplaces, Replace, TypeOK
<1>3. ASSUME JournalAnswers PROVE TypeOK'
  <2>1. JournalOK'
    <3>1. CASE TurnChangesNothing \/ OutcomeUnknown
      BY <1>0, <3>1 DEF TurnChangesNothing, OutcomeUnknown, LeaveQueue
    <3>2. ASSUME Confirm PROVE JournalOK'
      <4>1. Turn.plan \in Plan
        BY <3>2, HeadOfQueue, CommandParts DEF Confirm, JournalInv, JournalTyped, FileIsAhead
      <4>2. PlansIn(After(Turn).records) \subseteq Plan /\ After(Turn).retired \subseteq Plan
        BY <1>0, <4>1 DEF After, PlansIn, Approval
      <4> QED BY <1>0, <3>2, <4>2 DEF Confirm, LeaveQueue
    <3> QED BY <1>3, <3>1, <3>2 DEF JournalAnswers, Answered
  <2>2. ClaimsOK'
    BY <1>0, <1>3 DEF JournalAnswers
  <2> QED BY <1>0, <1>3, <1>p, <2>1, <2>2 DEF JournalAnswers, TypeOK
<1>4. ASSUME NEW p \in Plan, NEW cooling, NEW started \in SUBSET WorkItem, Dispatch(p, cooling, started)
      PROVE  TypeOK'
  <2>1. RunOK'
    BY <1>0, <1>4 DEF Dispatch, Run
  <2> QED BY <1>0, <1>4, <1>j, <1>c, <1>p, <2>1 DEF Dispatch, TypeOK
<1>5. ASSUME NEW w \in WorkItem, StartManualRun(w) PROVE TypeOK'
  <2>1. RunOK'
    BY <1>0, <1>5 DEF StartManualRun, Run
  <2> QED BY <1>0, <1>5, <1>j, <1>c, <1>p, <1>r, <2>1 DEF StartManualRun, TypeOK
<1>6. ASSUME NEW w \in WorkItem, RunStarts(w) PROVE TypeOK'
  <2>1. run[w] \in Run \cup {None} /\ run[w] # None /\ item[w] \in Item
    BY <1>0, <1>6 DEF RunStarts
  <2>2. run[w].by \in Starter /\ [run[w] EXCEPT !.started = TRUE] \in Run
    BY <2>1 DEF Run, Starter
  <2>3. RunOK'
    BY <1>0, <1>6, <2>2 DEF RunStarts
  <2>4. ItemOK'
    BY <1>0, <1>6, <2>1, <2>2, NewAttempt DEF RunStarts
  <2> QED BY <1>0, <1>6, <1>j, <1>c, <1>p, <2>3, <2>4 DEF RunStarts, TypeOK
<1>7. ASSUME NEW w \in WorkItem, RunNeverStarts(w) \/ RunEndIsLost(w) PROVE TypeOK'
  <2>1. RunOK'
    BY <1>0, <1>7 DEF RunNeverStarts, RunEndIsLost
  <2> QED BY <1>0, <1>7, <1>j, <1>c, <1>p, <2>1 DEF RunNeverStarts, RunEndIsLost, TypeOK
<1>8. ASSUME NEW w \in WorkItem, RunEnds(w) PROVE TypeOK'
  <2>1. PICK outcome \in Outcome : item' = [item EXCEPT ![w].status = outcome]
    BY <1>8 DEF RunEnds
  <2>2. [item[w] EXCEPT !.status = outcome] \in Item
    BY <1>0 DEF Item
  <2>3. ItemOK'
    BY <1>0, <2>1, <2>2
  <2>4. RunOK'
    BY <1>0, <1>8 DEF RunEnds
  <2> QED BY <1>0, <1>8, <1>j, <1>c, <1>p, <2>3, <2>4 DEF RunEnds, TypeOK
<1>9. ASSUME NEW w \in WorkItem, NEW verdict \in {"accepted", "rejected"}, DecideAcceptance(w, verdict) PROVE TypeOK'
  <2>1. Page(w) \in Nat \X (Outcome \cup {"running", None})
    BY <1>0 DEF Page, Item
  <2>2. ReviewsOK'
    BY <1>0, <1>9, <2>1 DEF DecideAcceptance, Review
  <2> QED BY <1>0, <1>9, <1>j, <1>c, <1>p, <1>r, <2>2 DEF DecideAcceptance, TypeOK
<1>10. ASSUME NEW w \in WorkItem, DecisionIsWritten(w) PROVE TypeOK'
  <2>1. accepting[w].verdict \in {"accepted", "rejected"}
    BY <1>0, <1>10 DEF DecisionIsWritten, Review
  <2>2. ItemOK'
    BY <1>0, <1>10, <2>1 DEF DecisionIsWritten, Item
  <2>3. ReviewsOK'
    BY <1>0, <1>10 DEF DecisionIsWritten
  <2> QED BY <1>0, <1>10, <1>j, <1>c, <1>p, <2>2, <2>3 DEF DecisionIsWritten, TypeOK
<1>11. ASSUME NEW w \in WorkItem, DecisionFails(w) PROVE TypeOK'
    BY <1>0, <1>11, <1>j, <1>c, <1>p DEF DecisionFails, TypeOK
<1>12. ASSUME NEW w \in WorkItem, ImportFacts(w) PROVE TypeOK'
  <2>1. PICK gate \in {"open", "passed", "failed"} \ {item[w].gate} :
            item' = [item EXCEPT ![w].gate = gate,
                                ![w].decision = IF item[w].status = "completed" THEN None ELSE @]
    BY <1>12 DEF ImportFacts
  <2>2. [item[w] EXCEPT !.gate = gate,
                        !.decision = IF item[w].status = "completed" THEN None ELSE @] \in Item
    BY <1>0 DEF Item
  <2>3. ItemOK'
    BY <1>0, <2>1, <2>2
  <2> QED BY <1>0, <1>12, <1>j, <1>c, <1>p, <1>r, <2>3 DEF ImportFacts, TypeOK
<1>13. ASSUME NEW w \in WorkItem, ImportAttempt(w) PROVE TypeOK'
  <2>1. item[w] \in Item /\ "elsewhere" \in Starter
    BY <1>0 DEF Starter
  <2>2. ItemOK'
    <3>1. ASSUME NEW status \in {"completed", "failed"},
                 item' = [item EXCEPT ![w] = WithAttempt(@, "elsewhere", status)]
          PROVE  ItemOK'
      BY <1>0, <2>1, <3>1, NewAttempt DEF Outcome
    <3>2. ASSUME item' = [item EXCEPT ![w].by = Append(@, "elsewhere")] PROVE ItemOK'
      <4>1. [item[w] EXCEPT !.by = Append(@, "elsewhere")] \in Item
        BY <2>1, OlderAttempt
      <4> QED BY <1>0, <3>2, <4>1
    <3> QED BY <1>13, <3>1, <3>2 DEF ImportAttempt
  <2> QED BY <1>0, <1>13, <1>j, <1>c, <1>p, <1>r, <2>2 DEF ImportAttempt, TypeOK
<1>14. ASSUME Stop PROVE TypeOK'
  <2>1. RunOK'
    BY <1>14 DEF Stop
  <2>2. ReviewsOK'
    BY <1>14 DEF Stop
  <2> QED BY <1>0, <1>14, <2>1, <2>2 DEF Stop, TypeOK
<1>15. ASSUME Restart PROVE TypeOK'
  <2>1. \A it \in Item : Recovered(it) \in Item
    BY DEF Recovered, Item, Outcome
  <2>2. ItemOK'
    BY <1>0, <1>15, <2>1 DEF Restart
  <2>3. JournalOK'
    BY <1>15 DEF Restart, OpenJournal, JournalInv, JournalTyped, PlansIn, IsApproval
  <2>4. restarts' = restarts + 1 /\ restarts < MaxRestarts
    BY <1>15 DEF Restart, JournalInv, NothingWhileDown
  <2>5. ProcessOK'
    BY <1>0, <1>15, <2>4 DEF Restart, PlansAreWellFormed
  <2> QED BY <1>0, <1>15, <1>c, <2>2, <2>3, <2>5 DEF Restart, TypeOK
<1> QED BY <1>1, <1>2, <1>3, <1>4, <1>5, <1>6, <1>7, <1>8, <1>9, <1>10, <1>11, <1>12, <1>13,
           <1>14, <1>15 DEF Next

-----------------------------------------------------------------------------
(* The journal.                                                            *)

\* The approval whose turn it is, and what it does to memory and file.
Granted == Approval(Turn.plan, Turn.revision, Turn.baselines)

LEMMA GrantedRecord ==
    ASSUME PlansAreWellFormed, JournalTyped, queue # <<>>
    PROVE  /\ Turn.plan \in Plan /\ Granted.plan = Turn.plan
           /\ Approves(Turn) => Granted.baselines = Turn.baselines /\ IsApproval(Granted)
<1>1. Turn = queue[1] /\ 1 \in 1..Len(queue) /\ Turn.plan \in Plan
    BY HeadOfQueue, CommandParts DEF JournalTyped
<1>2. Approves(Turn) => Turn.baselines \in [Owned(Turn.plan) -> Nat]
    BY <1>1 DEF JournalTyped
<1> QED BY <1>1, <1>2 DEF Granted, Approval, IsApproval

LEMMA Replacing ==
    ASSUME PlansAreWellFormed, JournalTyped, FileIsAhead, up, Replace
    PROVE  /\ disk.records = records /\ disk.retired = retired /\ OnFile = Active /\ Live = Active
           /\ Active' = Active /\ queue # <<>>
           /\ Approves(Turn) =>
                /\ disk'.records = records \cup {Granted} /\ disk'.retired = retired
                /\ Turn.plan \notin PlansIn(records) /\ Cardinality(records) < PlanLimit
                /\ OnFile' = Active \cup {Granted}
                /\ \A r \in Active : Owned(r.plan) \cap Owned(Turn.plan) = {}
           /\ ~Approves(Turn) =>
                /\ disk'.records = records /\ disk'.retired = retired \cup {Turn.plan}
                /\ Turn.plan \in PlansIn(records)
                /\ OnFile' \subseteq Active
           /\ Live' = Active \cup (IF Approves(Turn) THEN {Granted} ELSE {})
<1>1. disk.records = records /\ disk.retired = retired /\ queue # <<>> /\ Accepts(Turn)
      /\ disk' = After(Turn) /\ UNCHANGED <<records, retired, queue>>
    BY DEF Replace, FileIsAhead, Accepts
<1>2. disk.records = records /\ disk.retired = retired
    BY <1>1
<1>3. OnFile = Active /\ Live = Active /\ Active' = Active
    BY <1>1, <1>2 DEF OnFile, Live, Active
<1>4. ASSUME Approves(Turn)
      PROVE  /\ disk'.records = records \cup {Granted} /\ disk'.retired = retired
             /\ Turn.plan \notin PlansIn(records) /\ Cardinality(records) < PlanLimit
             /\ OnFile' = Active \cup {Granted}
             /\ \A r \in Active : Owned(r.plan) \cap Owned(Turn.plan) = {}
  <2>1. disk'.records = records \cup {Granted} /\ disk'.retired = retired
    BY <1>1, <1>4 DEF After, Approves, Granted
  <2>2. CanApprove(Turn.plan)
    BY <1>1, <1>4 DEF Accepts, Approves
  <2>3. Granted.plan \notin retired
    BY <1>1, <2>2, GrantedRecord DEF CanApprove, FileIsAhead
  <2>4. OnFile' = Active \cup {Granted}
    BY <2>1, <2>3 DEF OnFile, Active, ActiveOf
  <2> QED BY <2>1, <2>2, <2>4 DEF CanApprove, OwnershipAvailable
<1>5. ASSUME ~Approves(Turn)
      PROVE  /\ disk'.records = records /\ disk'.retired = retired \cup {Turn.plan}
             /\ Turn.plan \in PlansIn(records)
             /\ OnFile' \subseteq Active
  <2>1. disk'.records = records /\ disk'.retired = retired \cup {Turn.plan}
    BY <1>1, <1>5 DEF After, Approves
  <2>2. OnFile' \subseteq Active
    BY <2>1 DEF OnFile, Active, ActiveOf
  <2> QED BY <1>1, <1>5, <2>1, <2>2 DEF Accepts, CanRetire, Approves
<1>6. Live' = Active' \cup OnFile'
    BY DEF Live
<1> QED BY <1>1, <1>2, <1>3, <1>4, <1>5, <1>6

LEMMA Answering ==
    ASSUME PlansAreWellFormed, JournalTyped, FileIsAhead, Answered
    PROVE  /\ queue # <<>> /\ LeaveQueue /\ UNCHANGED disk /\ OnFile' = OnFile
           /\ Live' \subseteq Live
           /\ \/ UNCHANGED <<records, retired>> /\ Active' = Active
              \/ /\ records' = disk.records /\ retired' = disk.retired
                 /\ retired' = retired \cup (IF Approves(Turn) THEN {} ELSE {Turn.plan})
                 /\ Active' = OnFile
                 /\ IF Approves(Turn)
                    THEN Active' = Active \cup {Granted} /\ Granted \notin Active
                    ELSE Active' = {r \in Active : r.plan # Turn.plan} /\ Turn.plan \notin retired
<1>1. queue # <<>> /\ LeaveQueue /\ UNCHANGED disk /\ OnFile' = OnFile
    BY DEF Answered, TurnChangesNothing, Confirm, OutcomeUnknown, FileIsAhead, OnFile
<1>2. ASSUME TurnChangesNothing \/ OutcomeUnknown
      PROVE  UNCHANGED <<records, retired>> /\ Active' = Active /\ Live' \subseteq Live
    BY <1>1, <1>2 DEF TurnChangesNothing, OutcomeUnknown, Active, Live
<1>3. ASSUME Confirm
      PROVE  /\ records' = disk.records /\ retired' = disk.retired
             /\ retired' = retired \cup (IF Approves(Turn) THEN {} ELSE {Turn.plan})
             /\ Active' = OnFile /\ Live' \subseteq Live
             /\ IF Approves(Turn)
                THEN Active' = Active \cup {Granted} /\ Granted \notin Active
                ELSE Active' = {r \in Active : r.plan # Turn.plan} /\ Turn.plan \notin retired
  <2>1. disk = After(Turn) /\ Accepts(Turn)
    BY <1>3 DEF Confirm, FileIsAhead
  <2>2. records' = disk.records /\ retired' = disk.retired
    BY <1>3, <2>1 DEF Confirm
  <2>3. Active' = OnFile
    BY <2>2 DEF Active, OnFile
  <2>4. Live' = OnFile
    BY <1>1, <2>3 DEF Live
  <2>5. ASSUME Approves(Turn)
        PROVE  retired' = retired /\ Active' = Active \cup {Granted} /\ Granted \notin Active
    <3>1. disk.records = records \cup {Granted} /\ disk.retired = retired
      BY <2>1, <2>5 DEF After, Approves, Granted
    <3>2. Granted.plan \notin PlansIn(records)
      BY <1>1, <2>1, <2>5, GrantedRecord DEF Accepts, Approves, CanApprove
    <3>3. Granted.plan \notin retired /\ Granted \notin records
      BY <3>2 DEF FileIsAhead, PlansIn
    <3> QED BY <2>2, <2>3, <3>1, <3>3 DEF OnFile, Active, ActiveOf
  <2>6. ASSUME ~Approves(Turn)
        PROVE  /\ retired' = retired \cup {Turn.plan}
               /\ Active' = {r \in Active : r.plan # Turn.plan} /\ Turn.plan \notin retired
    <3>1. disk.records = records /\ disk.retired = retired \cup {Turn.plan}
      BY <2>1, <2>6 DEF After, Approves
    <3>2. Turn.plan \notin retired
      BY <2>1, <2>6 DEF Accepts, Approves, CanRetire
    <3> QED BY <2>2, <2>3, <3>1, <3>2 DEF OnFile, Active, ActiveOf
  <2> QED BY <2>2, <2>3, <2>4, <2>5, <2>6 DEF Live
<1> QED BY <1>1, <1>2, <1>3 DEF Answered

LEMMA Opening ==
    ASSUME PlansAreWellFormed, JournalInv, Restart
    PROVE  /\ records' = disk.records /\ retired' = disk.retired /\ disk' = disk
           /\ queue' = <<>> /\ replaced' = FALSE /\ up' = TRUE
           /\ Active' = OnFile /\ OnFile' = OnFile /\ Live' = OnFile
BY DEF Restart, OpenJournal, Active, OnFile, Live

\* The steps that leave the plans and the claims alone.
Quiet == UNCHANGED <<journal, claims, process>>

LEMMA QuietSteps ==
    ASSUME Next
    PROVE  \/ Quiet /\ (up \/ UNCHANGED <<run, accepting>>)
           \/ \E p \in Plan : Approve(p) \/ Retire(p) \/ RetireAgain(p)
           \/ JournalReplaces \/ JournalAnswers \/ Stop \/ Restart
BY DEF Next, Quiet, Dispatch, StartManualRun, RunStarts, RunNeverStarts, RunEnds, RunEndIsLost,
       DecideAcceptance, DecisionIsWritten, DecisionFails, ImportFacts, ImportAttempt, Serving

LEMMA QuietJournal ==
    ASSUME Quiet
    PROVE  /\ UNCHANGED <<records, retired, disk, queue, replaced, health>>
           /\ UNCHANGED <<approving, retiring, releasing, profile, up, restarts>>
           /\ Active' = Active /\ OnFile' = OnFile /\ Live' = Live /\ ActivePlans' = ActivePlans
BY DEF Quiet, journal, claims, process, Active, OnFile, Live, ActivePlans

\* What a request to the journal adds to the queue.
LEMMA Requesting ==
    ASSUME PlansAreWellFormed, TypeOK, JournalTyped, NEW p \in Plan,
           Approve(p) \/ Retire(p) \/ RetireAgain(p)
    PROVE  /\ UNCHANGED <<records, retired, disk, replaced, health, item, run, accepting>>
           /\ UNCHANGED <<profile, up, restarts>> /\ up
           /\ Active' = Active /\ OnFile' = OnFile /\ Live' = Live /\ ActivePlans' = ActivePlans
           /\ queue' \in Seq(Command) /\ Len(queue') = Len(queue) + 1 /\ Len(queue) \in Nat
           /\ \A k \in 1..Len(queue) : queue'[k] = queue[k]
           /\ queue'[Len(queue) + 1].plan = p
           /\ Approve(p) <=> Approves(queue'[Len(queue) + 1])
           /\ Approve(p) => queue'[Len(queue) + 1].baselines = [w \in Owned(p) |-> Len(item[w].by)]
           /\ Approve(p) => queue'[Len(queue) + 1].baselines \in [Owned(p) -> Nat]
<1> DEFINE baselines == [w \in Owned(p) |-> Len(item[w].by)]
           asked == [op |-> "approve", plan |-> p, revision |-> profile, baselines |-> baselines]
           given == [op |-> "retire", plan |-> p]
<1>1. baselines \in [Owned(p) -> Nat]
  <2>1. \A w \in Owned(p) : Len(item[w].by) \in Nat
    BY OwnedItems DEF TypeOK, Item
  <2> QED BY <2>1
<1>2. asked \in Command /\ given \in Command
    BY <1>1, ApprovalCommand, RetireCommand DEF JournalTyped
<1>3. /\ Approves(asked) /\ asked.plan = p /\ asked.baselines = baselines
      /\ ~Approves(given) /\ given.plan = p
    BY DEF Approves
<1>4. \/ Approve(p) /\ Enqueue(asked)
      \/ (Retire(p) \/ RetireAgain(p)) /\ Enqueue(given)
    BY DEF Approve, Retire, RetireAgain
<1>5. /\ UNCHANGED <<records, retired, disk, replaced, health, item, run, accepting>>
      /\ UNCHANGED <<profile, up, restarts>> /\ up
    BY DEF Approve, Retire, RetireAgain, Enqueue, process, Serving, ApprovalPossible,
           RetirementPossible
<1>6. Active' = Active /\ OnFile' = OnFile /\ Live' = Live /\ ActivePlans' = ActivePlans
    BY <1>5 DEF Active, OnFile, Live, ActivePlans
<1> HIDE DEF asked, given, baselines
<1>7. ASSUME NEW c \in Command, Enqueue(c)
      PROVE  /\ queue' \in Seq(Command) /\ Len(queue') = Len(queue) + 1 /\ Len(queue) \in Nat
             /\ \A k \in 1..Len(queue) : queue'[k] = queue[k]
             /\ queue'[Len(queue) + 1] = c
    BY <1>7, Queueing DEF JournalTyped
<1>8. ~(Approve(p) /\ Enqueue(given))
  <2>1. Approve(p) => Enqueue(asked)
    BY DEF Approve, asked, baselines
  <2>2. ~(Enqueue(asked) /\ Enqueue(given))
    BY <1>2, <1>3, <1>7
  <2> QED BY <2>1, <2>2
<1>9. CASE Approve(p) /\ Enqueue(asked)
    BY <1>1, <1>2, <1>3, <1>5, <1>6, <1>7, <1>9 DEF baselines
<1>10. CASE (Retire(p) \/ RetireAgain(p)) /\ Enqueue(given)
    BY <1>2, <1>3, <1>5, <1>6, <1>7, <1>8, <1>10
<1> QED BY <1>4, <1>9, <1>10

LEMMA NextJournalInv ==
    ASSUME PlansAreWellFormed, TypeOK, JournalInv, Next
    PROVE  JournalInv'
<1> USE DEF JournalInv
<1>1. CASE Quiet /\ (up \/ UNCHANGED <<run, accepting>>)
  <2>1. JournalTyped'
    BY <1>1, QuietJournal DEF JournalTyped
  <2>2. FileIsAhead'
    <3>1. Turn' = Turn /\ (Accepts(Turn) <=> Accepts(Turn)') /\ After(Turn)' = After(Turn)
      BY <1>1, QuietJournal DEF Turn, Accepts, CanApprove, CanRetire, After
    <3>2. EnvelopeParses(disk)'
      BY <1>1, QuietJournal DEF FileIsAhead, EnvelopeParses
    <3>3. \A r, s \in Live' : r # s => Owned(r.plan) \cap Owned(s.plan) = {}
      BY <1>1, QuietJournal DEF FileIsAhead
    <3> QED BY <1>1, <3>1, <3>2, <3>3, QuietJournal DEF FileIsAhead
  <2>3. NothingWhileDown'
    BY <1>1, QuietJournal DEF NothingWhileDown
  <2> QED BY <2>1, <2>2, <2>3
<1>2. ASSUME NEW p \in Plan, Approve(p) \/ Retire(p) \/ RetireAgain(p) PROVE JournalInv'
  <2>1. JournalTyped'
    <3>1. \A k \in 1..Len(queue') : Approves(queue'[k]) =>
            queue'[k].baselines \in [Owned(queue'[k].plan) -> Nat]
      <4> SUFFICES ASSUME NEW k \in 1..Len(queue'), Approves(queue'[k])
                   PROVE  queue'[k].baselines \in [Owned(queue'[k].plan) -> Nat]
        OBVIOUS
      <4>0. Len(queue') = Len(queue) + 1 /\ Len(queue) \in Nat
        BY <1>2, Requesting
      <4>1. CASE k \in 1..Len(queue)
        BY <1>2, <4>1, Requesting DEF JournalTyped
      <4>2. CASE k = Len(queue) + 1
        <5>1. Approve(p)
          BY <1>2, <4>2, Requesting
        <5> QED BY <1>2, <4>2, <5>1, Requesting
      <4> QED BY <4>0, <4>1, <4>2
    <3> QED BY <1>2, <3>1, Requesting DEF JournalTyped
  <2>2. FileIsAhead'
    <3>1. ASSUME replaced
          PROVE  queue' # <<>> /\ Turn' = Turn /\ (Accepts(Turn) <=> Accepts(Turn)') /\ After(Turn)' = After(Turn)
      <4>1. 1 \in 1..Len(queue) /\ Turn = queue[1]
        BY <3>1, HeadOfQueue DEF FileIsAhead, JournalTyped
      <4>2. Turn' = Turn
        BY <1>2, <4>1, Requesting DEF Turn
      <4>3. queue' # <<>>
        <5>1. Len(queue') = Len(queue) + 1 /\ Len(queue) \in Nat
          BY <1>2, Requesting
        <5> QED BY <5>1
      <4> QED BY <1>2, <4>2, <4>3, Requesting DEF Accepts, CanApprove, CanRetire, After
    <3> QED BY <1>2, <3>1, Requesting DEF FileIsAhead, EnvelopeParses
  <2>3. NothingWhileDown'
    BY <1>2, Requesting DEF NothingWhileDown
  <2> QED BY <2>1, <2>2, <2>3
<1>3. ASSUME JournalReplaces PROVE JournalInv'
  <2>0. Replace /\ up /\ UNCHANGED <<claims, process, run, accepting>> /\ queue # <<>>
    BY <1>3 DEF JournalReplaces, Replace
  <2>1. JournalTyped'
    <3>1. Turn.plan \in Plan /\ (Approves(Turn) => IsApproval(Granted))
      BY <2>0, GrantedRecord
    <3>2. IsFiniteSet(disk'.records)
      <4>1. IsFiniteSet(records)
        BY <2>0, Replacing DEF JournalTyped
      <4>2. IsFiniteSet(records \cup {Granted})
        BY <4>1, FS_AddElement
      <4>3. disk'.records \in {records, records \cup {Granted}}
        BY <2>0, Replacing
      <4> QED BY <4>1, <4>2, <4>3
    <3> QED BY <2>0, <3>1, <3>2, Replacing DEF JournalTyped, Replace, process
  <2>2. EnvelopeParses(disk)'
    <3>1. CASE Approves(Turn)
      <4>1. disk'.records = records \cup {Granted} /\ disk'.retired = retired
        BY <2>0, <3>1, Replacing
      <4>2. Cardinality(disk'.records) <= PlanLimit
        <5>1. IsFiniteSet(records) /\ Cardinality(records) \in Nat
          BY <2>0, Replacing, FS_CardinalityType DEF JournalTyped
        <5>2. Cardinality(disk'.records) \in {Cardinality(records), Cardinality(records) + 1}
          BY <4>1, <5>1, FS_AddElement
        <5> QED BY <2>0, <3>1, <5>1, <5>2, Replacing DEF PlansAreWellFormed
      <4>3. \A r, s \in disk'.records : r.plan = s.plan => r = s
        BY <2>0, <3>1, <4>1, Replacing, GrantedRecord DEF FileIsAhead, EnvelopeParses, PlansIn
      <4>4. disk'.retired \subseteq PlansIn(disk'.records)
        BY <4>1 DEF FileIsAhead, PlansIn
      <4>5. \A r \in OnFile' : \A s \in OnFile' \ {r} : Owned(s.plan) \cap Owned(r.plan) = {}
        BY <2>0, <3>1, Replacing, GrantedRecord DEF FileIsAhead
      <4> QED BY <4>2, <4>3, <4>4, <4>5 DEF EnvelopeParses, OnFile, OwnershipAvailable
    <3>2. CASE ~Approves(Turn)
      <4>1. disk'.records = records /\ disk'.retired = retired \cup {Turn.plan} /\ OnFile' \subseteq OnFile
        BY <2>0, <3>2, Replacing
      <4>2. disk'.retired \subseteq PlansIn(disk'.records)
        BY <2>0, <3>2, <4>1, Replacing DEF FileIsAhead
      <4>3. \A r \in OnFile' : \A s \in OnFile' \ {r} : Owned(s.plan) \cap Owned(r.plan) = {}
        BY <4>1 DEF FileIsAhead, Live
      <4> QED BY <2>0, <4>1, <4>2, <4>3, Replacing
              DEF FileIsAhead, EnvelopeParses, OnFile, OwnershipAvailable
    <3> QED BY <3>1, <3>2
  <2>3. FileIsAhead'
    <3>1. \A r, s \in Live' : r # s => Owned(r.plan) \cap Owned(s.plan) = {}
      BY <2>0, Replacing, GrantedRecord DEF FileIsAhead
    <3>2. Turn' = Turn /\ (Accepts(Turn) <=> Accepts(Turn)') /\ After(Turn)' = After(Turn)
      BY <2>0, Replacing DEF Replace, Turn, Accepts, CanApprove, CanRetire, After
    <3>3. records \subseteq disk'.records /\ retired \subseteq disk'.retired
      BY <2>0, Replacing
    <3> QED BY <2>0, <2>2, <3>1, <3>2, <3>3 DEF FileIsAhead, Replace
  <2>4. NothingWhileDown'
    BY <2>0 DEF NothingWhileDown, process
  <2> QED BY <2>1, <2>3, <2>4
<1>4. ASSUME JournalAnswers PROVE JournalInv'
  <2>0. Answered /\ up /\ UNCHANGED <<process, run, accepting>> /\ queue # <<>> /\ LeaveQueue
    BY <1>4, Answering DEF JournalAnswers
  <2>1. JournalTyped'
    <3>1. \A k \in 1..Len(queue') : Approves(queue'[k]) =>
            queue'[k].baselines \in [Owned(queue'[k].plan) -> Nat]
      BY <2>0, Leaving DEF JournalTyped
    <3> QED BY <2>0, <3>1, Leaving, Answering DEF JournalTyped, process
  <2>2. EnvelopeParses(disk)'
    BY <2>0, Answering DEF FileIsAhead, EnvelopeParses
  <2>3. \A r, s \in Live' : r # s => Owned(r.plan) \cap Owned(s.plan) = {}
    BY <2>0, Answering DEF FileIsAhead
  <2>4. /\ records' \subseteq disk'.records /\ retired' \subseteq disk'.retired
        /\ retired' \subseteq PlansIn(records')
        /\ ~replaced'
    <3>1. disk.retired \subseteq PlansIn(disk.records)
      BY DEF FileIsAhead, EnvelopeParses
    <3> QED BY <2>0, <3>1, Answering DEF FileIsAhead, LeaveQueue
  <2>5. (up' /\ health' = "ready") => disk'.records = records' /\ disk'.retired = retired'
    <3>1. CASE TurnChangesNothing
      BY <2>0, <3>1, Answering DEF FileIsAhead, TurnChangesNothing
    <3>2. CASE Confirm
      BY <3>2 DEF Confirm, FileIsAhead
    <3>3. CASE OutcomeUnknown
      BY <3>3 DEF OutcomeUnknown
    <3> QED BY <2>0, <3>1, <3>2, <3>3 DEF Answered
  <2>6. FileIsAhead'
    BY <2>2, <2>3, <2>4, <2>5 DEF FileIsAhead
  <2>7. NothingWhileDown'
    BY <2>0 DEF NothingWhileDown, process
  <2> QED BY <2>1, <2>6, <2>7
<1>5. ASSUME Stop PROVE JournalInv'
  <2>1. /\ UNCHANGED <<records, retired, disk, health, profile, restarts>>
        /\ queue' = <<>> /\ replaced' = FALSE /\ up' = FALSE
        /\ Active' = Active /\ OnFile' = OnFile /\ Live' = Live
    BY <1>5 DEF Stop, Active, OnFile, Live
  <2>2. JournalTyped'
    BY <2>1 DEF JournalTyped
  <2>3. FileIsAhead'
    BY <2>1 DEF FileIsAhead, EnvelopeParses
  <2>4. NothingWhileDown'
    BY <1>5, <2>1 DEF NothingWhileDown, Stop
  <2> QED BY <2>2, <2>3, <2>4
<1>6. ASSUME Restart PROVE JournalInv'
  <2>1. JournalTyped'
    <3>1. <<>> \in Seq(Command) /\ Len(<<>>) = 0 /\ 1..0 = {}
      OBVIOUS
    <3> QED BY <1>6, <3>1, Opening DEF JournalTyped, Restart
  <2>2. FileIsAhead'
    <3>1. \A r, s \in Live' : r # s => Owned(r.plan) \cap Owned(s.plan) = {}
      BY <1>6, Opening DEF FileIsAhead, Live
    <3>2. EnvelopeParses(disk)' /\ retired' \subseteq PlansIn(records')
      BY <1>6, Opening DEF FileIsAhead, EnvelopeParses
    <3> QED BY <1>6, <3>1, <3>2, Opening DEF FileIsAhead, Restart, OpenJournal
  <2>3. NothingWhileDown'
    BY <1>6, Opening DEF NothingWhileDown
  <2> QED BY <2>1, <2>2, <2>3
<1> QED BY <1>1, <1>2, <1>3, <1>4, <1>5, <1>6, QuietSteps

-----------------------------------------------------------------------------
(* The claims.                                                             *)

\* A work item has one active plan, also on the file.
LEMMA OneOwner ==
    ASSUME FileIsAhead, NEW r \in Live, NEW s \in Live, NEW w \in Owned(r.plan), w \in Owned(s.plan)
    PROVE  r = s
BY DEF FileIsAhead

LEMMA NextBackedInv ==
    ASSUME PlansAreWellFormed, TypeOK, JournalInv, BackedInv, Next
    PROVE  BackedInv'
<1> USE DEF JournalInv
<1>1. CASE Quiet
    BY <1>1, QuietJournal DEF BackedInv, Backed
<1>2. ASSUME NEW p \in Plan, Approve(p) \/ Retire(p) \/ RetireAgain(p) PROVE BackedInv'
  <2>0. PICK n : n = Len(queue)
    OBVIOUS
  <2>1. /\ n \in Nat /\ Len(queue') = n + 1 /\ \A k \in 1..n : queue'[k] = queue[k]
        /\ queue'[n + 1].plan = p /\ (Approve(p) <=> Approves(queue'[n + 1]))
        /\ retired' = retired /\ ActivePlans' = ActivePlans
    BY <1>2, <2>0, Requesting
  <2>2. \A k \in 1..(n + 1) : k \in 1..n \/ k = n + 1
    BY <2>1
  <2>3. approving \subseteq approving' /\ retiring \subseteq retiring' /\ releasing \subseteq releasing'
    BY <1>2 DEF Approve, Retire, RetireAgain
  <2>4. Approve(p) => p \notin approving /\ p \in approving'
    BY OwnedItems DEF Approve, ApprovalPossible, Claimed, ClaimedByApproval
  <2>5. ~Approve(p) => p \notin retiring /\ p \in retiring' /\ p \in releasing' \cup retired'
    BY <1>2, <2>1 DEF Retire, RetireAgain, RetirementPossible
  <2>6. releasing' \subseteq ActivePlans'
    BY <1>2, <2>1 DEF BackedInv, Approve, Retire, RetireAgain, RetirementPossible
  <2>7. \A k \in 1..n : Backed(k)
    BY <2>0 DEF BackedInv
  <2>8. \A k \in 1..(n + 1) : Backed(k)'
    <3>1. \A k \in 1..n : Backed(k)'
      BY <2>1, <2>3, <2>7 DEF Backed
    <3>2. Backed(n + 1)'
      BY <1>2, <2>1, <2>4, <2>5 DEF Backed
    <3> QED BY <2>2, <3>1, <3>2
  <2>9. \A k \in 1..n : queue[k].op = queue'[n + 1].op => queue[k].plan # p
    <3> SUFFICES ASSUME NEW k \in 1..n, queue[k].op = queue'[n + 1].op PROVE queue[k].plan # p
      OBVIOUS
    <3>1. Approves(queue[k]) <=> Approve(p)
      BY <2>1 DEF Approves
    <3> QED BY <2>4, <2>5, <2>7, <3>1 DEF Backed
  <2>10. \A j, k \in 1..n :
            (j # k /\ queue[j].op = queue[k].op) => queue[j].plan # queue[k].plan
    BY <2>0 DEF BackedInv
  <2>11. \A j, k \in 1..(n + 1) :
            (j # k /\ queue'[j].op = queue'[k].op) => queue'[j].plan # queue'[k].plan
    BY <2>1, <2>2, <2>9, <2>10
  <2> QED BY <2>1, <2>6, <2>8, <2>11 DEF BackedInv
<1>3. CASE JournalReplaces
  <2>1. /\ UNCHANGED <<approving, retiring, releasing, retired, queue>> /\ Active' = Active
        /\ ActivePlans' = ActivePlans
    BY <1>3 DEF JournalReplaces, Replace, claims, Active, ActivePlans
  <2> QED BY <2>1 DEF BackedInv, Backed
<1>4. ASSUME JournalAnswers PROVE BackedInv'
  <2>0. Answered /\ queue # <<>> /\ LeaveQueue
    BY <1>4, Answering DEF JournalAnswers
  <2>1. /\ Len(queue') + 1 = Len(queue) /\ Len(queue') \in Nat
        /\ \A k \in 1..Len(queue') : k + 1 \in 1..Len(queue) /\ queue'[k] = queue[k + 1]
        /\ Turn = queue[1] /\ 1 \in 1..Len(queue)
    BY <2>0, Leaving, HeadOfQueue DEF JournalTyped
  <2>2. retired \subseteq retired' /\ ActivePlans \ {Turn.plan} \subseteq ActivePlans'
        /\ (Approves(Turn) => ActivePlans \subseteq ActivePlans')
    BY <2>0, Answering DEF ActivePlans, PlansIn
  <2>3. IF Approves(Turn)
        THEN approving' = approving \ {Turn.plan} /\ UNCHANGED <<retiring, releasing>>
        ELSE /\ retiring' = retiring \ {Turn.plan} /\ releasing' = releasing \ {Turn.plan}
             /\ UNCHANGED approving
    BY <1>4 DEF JournalAnswers, Approves
  <2>4. \A k \in 1..Len(queue') : queue'[k].op = Turn.op => queue'[k].plan # Turn.plan
    <3> SUFFICES ASSUME NEW k \in 1..Len(queue'), queue'[k].op = Turn.op PROVE queue'[k].plan # Turn.plan
      OBVIOUS
    <3>1. k + 1 # 1 /\ k + 1 \in 1..Len(queue)
      BY <2>1
    <3> QED BY <2>1, <3>1 DEF BackedInv
  <2>5. \A k \in 1..Len(queue') : queue'[k] \in Command
    BY <2>0, Leaving DEF JournalTyped
  <2>6. \A k \in 1..Len(queue') : Backed(k)'
    <3> SUFFICES ASSUME NEW k \in 1..Len(queue') PROVE Backed(k)'
      OBVIOUS
    <3>1. Backed(k + 1) /\ queue'[k] = queue[k + 1]
      BY <2>1 DEF BackedInv
    <3>2. queue'[k].op \in {"approve", "retire"} /\ Turn.op \in {"approve", "retire"}
      BY <2>0, <2>5, CommandParts, HeadOfQueue DEF JournalTyped
    <3>3. queue'[k].op = Turn.op => queue'[k].plan # Turn.plan
      BY <2>4
    <3> QED BY <2>2, <2>3, <3>1, <3>2, <3>3 DEF Backed, Approves
  <2>7. \A j, k \in 1..Len(queue') :
            (j # k /\ queue'[j].op = queue'[k].op) => queue'[j].plan # queue'[k].plan
    <3> SUFFICES ASSUME NEW j \in 1..Len(queue'), NEW k \in 1..Len(queue'), j # k,
                        queue'[j].op = queue'[k].op
                 PROVE  queue'[j].plan # queue'[k].plan
      OBVIOUS
    <3>1. j + 1 # k + 1 /\ j + 1 \in 1..Len(queue) /\ k + 1 \in 1..Len(queue)
      BY <2>1
    <3> QED BY <2>1, <3>1 DEF BackedInv
  <2>8. releasing' \subseteq ActivePlans'
    BY <2>2, <2>3 DEF BackedInv
  <2> QED BY <2>6, <2>7, <2>8 DEF BackedInv
<1>5. ASSUME Stop \/ Restart PROVE BackedInv'
  <2>1. queue' = <<>> /\ releasing' = {}
    BY <1>5, Opening DEF Stop, Restart, claims, NothingWhileDown, TypeOK
  <2>2. 1..Len(queue') = {}
    BY <2>1
  <2> QED BY <2>1, <2>2 DEF BackedInv
<1> QED BY <1>1, <1>2, <1>3, <1>4, <1>5, QuietSteps

\* What the dispatcher starts: nodes of one active plan, within its limits.
LEMMA Dispatching ==
    ASSUME PlansAreWellFormed, NEW p \in Plan, NEW cooling, NEW started \in SUBSET WorkItem,
           Dispatch(p, cooling, started)
    PROVE  /\ Serving /\ p \notin retiring /\ Quiet /\ UNCHANGED <<item, accepting>>
           /\ started \subseteq Node[p]
           /\ Cardinality(started) <= MaxParallelism[p] - Cardinality(RunsOf(p))
           /\ run' = [w \in WorkItem |->
                        IF w \in started THEN [by |-> p, started |-> FALSE] ELSE run[w]]
           /\ \A w \in started : run[w] = None
           /\ \E r \in Active : r.plan = p /\ r.baselines # None
                /\ \A w \in started : HasPlanAttempt(r, w) => ~RetryExhausted(r, w)
<1>1. PICK r \in Active :
        /\ r.plan = p
        /\ started \subseteq ReadyNodes(r, cooling) /\ started # {}
        /\ HasSlots(p, Cardinality(started))
    BY DEF Dispatch
<1>2. \A w \in started : w \in Node[p] /\ Phase(r, w) \in {"ready", "retry"}
    BY <1>1 DEF ReadyNodes
<1>3. ASSUME NEW w \in started
      PROVE  r.baselines # None /\ run[w] = None /\ (HasPlanAttempt(r, w) => ~RetryExhausted(r, w))
  <2>1. Phase(r, w) \in {"ready", "retry"}
    BY <1>2
  <2>2. r.baselines # None
    BY <2>1 DEF Phase
  <2>3. run[w] = None
    BY <2>1, <2>2 DEF Phase
  <2>4. HasPlanAttempt(r, w) => Phase(r, w) = PhaseOfAttempt(r, w)
    BY <2>1, <2>2, <2>3 DEF Phase
  <2>5. HasPlanAttempt(r, w) => ~RetryExhausted(r, w)
    BY <2>1, <2>4 DEF PhaseOfAttempt
  <2> QED BY <2>2, <2>3, <2>5
<1> QED BY <1>1, <1>2, <1>3 DEF Dispatch, HasSlots, Quiet

LEMMA NextExclusive ==
    ASSUME PlansAreWellFormed, TypeOK, JournalInv, ClaimInv, Next
    PROVE  ClaimsAreExclusive'
<1> USE DEF JournalInv
<1> DEFINE Calmer ==
        /\ approving' \subseteq approving /\ releasing' \subseteq releasing
        /\ \A w \in WorkItem :
            /\ accepting[w] = None => accepting'[w] = None
            /\ run'[w] # None => run[w] # None /\ run'[w].by = run[w].by
<1>1. ASSUME Calmer PROVE ClaimsAreExclusive'
    BY <1>1 DEF ClaimInv, ClaimsAreExclusive, ClaimedByApproval, ClaimedByRetirement
<1>2. ASSUME NEW p \in Plan, Approve(p) \/ Retire(p) \/ RetireAgain(p) PROVE ClaimsAreExclusive'
  <2>1. UNCHANGED <<run, accepting>>
    BY <1>2, Requesting
  <2>2. CASE Approve(p)
    BY <2>1, <2>2 DEF Approve, ApprovalPossible, Claimed, IsQuiet, ClaimInv, ClaimsAreExclusive,
                      ClaimedByApproval, ClaimedByRetirement
  <2>3. CASE Retire(p)
    BY <2>1, <2>3 DEF Retire, RetirementPossible, IsQuiet, ClaimInv, ClaimsAreExclusive,
                      ClaimedByApproval, ClaimedByRetirement
  <2>4. CASE RetireAgain(p)
    BY <1>1, <2>1, <2>4 DEF RetireAgain
  <2> QED BY <1>2, <2>2, <2>3, <2>4
<1>3. ASSUME JournalReplaces \/ JournalAnswers PROVE ClaimsAreExclusive'
    BY <1>1, <1>3 DEF JournalReplaces, JournalAnswers, claims
<1>4. ASSUME NEW p \in Plan, NEW cooling, NEW started \in SUBSET WorkItem, Dispatch(p, cooling, started)
      PROVE  ClaimsAreExclusive'
  <2>1. /\ UNCHANGED <<approving, releasing, accepting>> /\ p \notin retiring
        /\ started \subseteq Node[p]
        /\ p \in ActivePlans
        /\ run' = [w \in WorkItem |->
                        IF w \in started THEN [by |-> p, started |-> FALSE] ELSE run[w]]
    BY <1>4, Dispatching DEF Quiet, claims, ActivePlans, PlansIn
  <2>2. \A w \in started : ~ClaimedByRetirement(w)
    <3> SUFFICES ASSUME NEW w \in started, NEW q \in releasing, w \in Owned(q) PROVE FALSE
      BY DEF ClaimedByRetirement
    <3>1. q \in ActivePlans /\ q \in retiring
      BY DEF ClaimInv, BackedInv, TypeOK
    <3>2. PICK r \in Active, s \in Active : r.plan = p /\ s.plan = q
      BY <2>1, <3>1, LiveRecords
    <3>3. w \in Owned(p)
      BY <2>1, OwnedItems
    <3>4. p = q
      BY <3>2, <3>3, OneOwner DEF Live
    <3> QED BY <2>1, <3>1, <3>4
  <2>3. p # "person"
    BY DEF PlansAreWellFormed
  <2>4. ASSUME NEW w \in WorkItem
        PROVE  /\ (ClaimedByApproval(w) <=> ClaimedByApproval(w)')
               /\ (ClaimedByRetirement(w) <=> ClaimedByRetirement(w)')
               /\ run'[w] # run[w] => ~ClaimedByRetirement(w) /\ run'[w].by # "person"
    BY <2>1, <2>2, <2>3 DEF ClaimedByApproval, ClaimedByRetirement
  <2> QED BY <2>1, <2>4 DEF ClaimInv, ClaimsAreExclusive
<1>5. ASSUME NEW w \in WorkItem, StartManualRun(w) PROVE ClaimsAreExclusive'
    BY <1>5 DEF StartManualRun, TypeOK, claims, Claimed, ClaimInv, ClaimsAreExclusive,
                ClaimedByApproval, ClaimedByRetirement
<1>6. ASSUME NEW w \in WorkItem, RunStarts(w) \/ RunNeverStarts(w) \/ RunEnds(w) \/ RunEndIsLost(w)
      PROVE  ClaimsAreExclusive'
  <2>1. \A v \in WorkItem : run'[v] # None => run[v] # None /\ run'[v].by = run[v].by
    BY <1>6 DEF RunStarts, RunNeverStarts, RunEnds, RunEndIsLost, TypeOK, Run
  <2> QED BY <1>1, <1>6, <2>1 DEF RunStarts, RunNeverStarts, RunEnds, RunEndIsLost, claims
<1>7. ASSUME NEW w \in WorkItem, NEW verdict, DecideAcceptance(w, verdict) PROVE ClaimsAreExclusive'
    BY <1>7 DEF DecideAcceptance, TypeOK, claims, Claimed, ClaimInv, ClaimsAreExclusive,
                ClaimedByApproval, ClaimedByRetirement
<1>8. ASSUME NEW w \in WorkItem, DecisionIsWritten(w) \/ DecisionFails(w) PROVE ClaimsAreExclusive'
    BY <1>1, <1>8 DEF DecisionIsWritten, DecisionFails, TypeOK, claims
<1>9. ASSUME NEW w \in WorkItem, ImportFacts(w) \/ ImportAttempt(w) PROVE ClaimsAreExclusive'
    BY <1>1, <1>9 DEF ImportFacts, ImportAttempt, claims
<1>10. ASSUME Stop PROVE ClaimsAreExclusive'
    BY <1>1, <1>10 DEF Stop
<1>11. ASSUME Restart PROVE ClaimsAreExclusive'
    BY <1>1, <1>11 DEF Restart, claims
<1> QED BY <1>2, <1>3, <1>4, <1>5, <1>6, <1>7, <1>8, <1>9, <1>10, <1>11 DEF Next

-----------------------------------------------------------------------------
(* The runs.                                                               *)

\* The steps after which the runs are among those from before.
SameRuns ==
    \A w \in WorkItem : run'[w] # None =>
        run[w] # None /\ run'[w].by = run[w].by /\ (run[w].started => run'[w].started)

LEMMA RunSteps ==
    ASSUME TypeOK, Next
    PROVE  \/ SameRuns
           \/ \E p \in Plan, cooling, started \in SUBSET WorkItem : Dispatch(p, cooling, started)
           \/ \E w \in WorkItem : StartManualRun(w)
<1>1. ASSUME NEW p \in Plan, Approve(p) \/ Retire(p) \/ RetireAgain(p) PROVE SameRuns
    BY <1>1 DEF Approve, Retire, RetireAgain, SameRuns
<1>2. ASSUME JournalReplaces \/ JournalAnswers PROVE SameRuns
    BY <1>2 DEF JournalReplaces, JournalAnswers, SameRuns
<1>3. ASSUME NEW w \in WorkItem, RunStarts(w) \/ RunNeverStarts(w) \/ RunEnds(w) \/ RunEndIsLost(w)
      PROVE  SameRuns
    BY <1>3 DEF RunStarts, RunNeverStarts, RunEnds, RunEndIsLost, SameRuns, TypeOK, Run
<1>4. ASSUME NEW w \in WorkItem, NEW verdict, DecideAcceptance(w, verdict) PROVE SameRuns
    BY <1>4 DEF DecideAcceptance, SameRuns
<1>5. ASSUME NEW w \in WorkItem, DecisionIsWritten(w) \/ DecisionFails(w) \/ ImportFacts(w) \/ ImportAttempt(w)
      PROVE  SameRuns
    BY <1>5 DEF DecisionIsWritten, DecisionFails, ImportFacts, ImportAttempt, SameRuns
<1>6. ASSUME Stop \/ Restart PROVE SameRuns
    BY <1>6 DEF Stop, Restart, SameRuns
<1> QED BY <1>1, <1>2, <1>3, <1>4, <1>5, <1>6 DEF Next

\* What the file is ahead by is claimed by the approval whose turn it is.
LEMMA AheadByTheTurn ==
    ASSUME PlansAreWellFormed, JournalTyped, FileIsAhead, BackedInv, Serving, NEW r \in Live, r \notin Active
    PROVE  r.plan \in approving
<1>1. r \in OnFile /\ replaced
    BY DEF Live, FileIsAhead, Serving, OnFile, Active
<1>2. queue # <<>> /\ disk = After(Turn)
    BY <1>1 DEF FileIsAhead
<1>3. Approves(Turn) /\ r = Granted
  <2>1. CASE Approves(Turn)
    BY <1>1, <1>2, <2>1 DEF After, Approves, Granted, OnFile, Active, ActiveOf
  <2>2. CASE ~Approves(Turn)
    BY <1>1, <1>2, <2>2 DEF After, Approves, OnFile, Active, ActiveOf
  <2> QED BY <2>1, <2>2
<1>4. Turn = queue[1] /\ 1 \in 1..Len(queue)
    BY <1>2, HeadOfQueue DEF JournalTyped
<1> QED BY <1>2, <1>3, <1>4, GrantedRecord DEF BackedInv, Backed

LEMMA NextRunInv ==
    ASSUME PlansAreWellFormed, TypeOK, JournalInv, ClaimInv, RunInv, Next
    PROVE  RunInv'
<1> USE DEF JournalInv, ClaimInv
<1>1. ASSUME SameRuns, Active \subseteq Active', Live' \subseteq Live PROVE RunInv'
  <2>1. \A w \in WorkItem : (run'[w] # None /\ run'[w].by # "person") =>
            \E r \in Active' : r.plan = run'[w].by /\ Founds(r, w)
    BY <1>1 DEF RunInv, SameRuns
  <2>2. \A r \in Live' : \A w \in Node[r.plan] : run'[w] # None => run'[w].by # "person"
    <3>1. \A r \in Live' : Node[r.plan] \subseteq WorkItem
      BY <1>1, LiveRecords, OwnedItems
    <3> QED BY <1>1, <3>1 DEF RunInv, SameRuns
  <2> QED BY <2>1, <2>2 DEF RunInv, Founds
<1>2. ASSUME NEW p \in Plan, Approve(p) \/ Retire(p) \/ RetireAgain(p) PROVE RunInv'
  <2>1. SameRuns
    BY <1>2, Requesting DEF SameRuns
  <2> QED BY <1>1, <1>2, <2>1, Requesting
<1>3. ASSUME JournalReplaces PROVE RunInv'
  <2>0. up /\ Replace /\ UNCHANGED run
    BY <1>3 DEF JournalReplaces
  <2>1. CASE ~Approves(Turn)
    BY <1>1, <2>0, <2>1, Replacing DEF SameRuns
  <2>2. CASE Approves(Turn)
    <3>1. /\ queue # <<>> /\ Active' = Active /\ Live = Active /\ Live' = Active \cup {Granted}
          /\ Granted.plan = Turn.plan
      BY <2>0, <2>2, Replacing, GrantedRecord
    <3>2. Turn.plan \in approving /\ Turn.plan \in Plan
      BY <2>2, <3>1, HeadOfQueue, GrantedRecord DEF JournalTyped, BackedInv, Backed
    <3>3. \A w \in Node[Turn.plan] : run[w] # None => run[w].by # "person"
      BY <3>2, OwnedItems DEF ClaimsAreExclusive, ClaimedByApproval
    <3> QED BY <2>0, <3>1, <3>3 DEF RunInv, Founds
  <2> QED BY <2>1, <2>2
<1>4. ASSUME JournalAnswers PROVE RunInv'
  <2>0. Answered /\ UNCHANGED run /\ queue # <<>>
    BY <1>4, Answering DEF JournalAnswers
  <2>1. CASE Active \subseteq Active'
    BY <1>1, <2>0, <2>1, Answering DEF SameRuns
  <2>2. CASE ~(Active \subseteq Active')
    <3>1. /\ ~Approves(Turn) /\ Turn.plan \notin retired /\ Live' \subseteq Live
          /\ Active' = {r \in Active : r.plan # Turn.plan}
      BY <2>0, <2>2, Answering
    <3>2. Turn.plan \in releasing
      BY <2>0, <3>1, HeadOfQueue DEF JournalTyped, BackedInv, Backed
    <3>3. Turn.plan \in Plan
      BY <2>0, GrantedRecord
    <3>4. \A w \in Node[Turn.plan] : run[w] = None
      BY <3>2, <3>3, OwnedItems DEF ClaimsAreExclusive, ClaimedByRetirement
    <3> QED BY <2>0, <3>1, <3>4 DEF RunInv, Founds
  <2> QED BY <2>1, <2>2
<1>5. ASSUME NEW p \in Plan, NEW cooling, NEW started \in SUBSET WorkItem, Dispatch(p, cooling, started)
      PROVE  RunInv'
  <2>1. /\ started \subseteq Node[p] /\ Active' = Active /\ Live' = Live
        /\ run' = [w \in WorkItem |->
                        IF w \in started THEN [by |-> p, started |-> FALSE] ELSE run[w]]
    BY <1>5, Dispatching, QuietJournal
  <2>2. PICK r \in Active : r.plan = p /\ r.baselines # None
    BY <1>5, Dispatching
  <2>3. p # "person"
    BY DEF PlansAreWellFormed
  <2>4. \A w \in WorkItem : (run'[w] # None /\ run'[w].by # "person") =>
            \E s \in Active' : s.plan = run'[w].by /\ Founds(s, w)
    <3> SUFFICES ASSUME NEW w \in WorkItem, run'[w] # None, run'[w].by # "person"
                 PROVE  \E s \in Active : s.plan = run'[w].by /\ Founds(s, w)
      BY <2>1
    <3>1. CASE w \in started
      BY <2>1, <2>2, <3>1 DEF Founds
    <3>2. CASE w \notin started
      BY <2>1, <3>2 DEF RunInv
    <3> QED BY <3>1, <3>2
  <2>5. \A s \in Live' : \A w \in Node[s.plan] : run'[w] # None => run'[w].by # "person"
    <3>1. \A s \in Live : Node[s.plan] \subseteq WorkItem
      BY LiveRecords, OwnedItems
    <3> QED BY <2>1, <2>3, <3>1 DEF RunInv
  <2> QED BY <2>4, <2>5 DEF RunInv, Founds
<1>6. ASSUME NEW w \in WorkItem, StartManualRun(w) PROVE RunInv'
  <2>1. /\ Serving /\ ~Claimed(w) /\ ManualRunAllowed(w) /\ Quiet
        /\ run' = [run EXCEPT ![w] = [by |-> "person", started |-> FALSE]]
        /\ run \in [WorkItem -> Run \cup {None}]
    BY <1>6 DEF StartManualRun, Quiet, TypeOK
  <2>2. Active' = Active /\ Live' = Live
    BY <2>1, QuietJournal
  <2>3. \A r \in Live : w \notin Node[r.plan]
    <3> SUFFICES ASSUME NEW r \in Live, w \in Node[r.plan] PROVE FALSE
      OBVIOUS
    <3>1. r \notin Active
      BY <2>1 DEF ManualRunAllowed
    <3>2. r.plan \in approving /\ w \in Owned(r.plan)
      BY <2>1, <3>1, AheadByTheTurn DEF Owned
    <3> QED BY <2>1, <3>2 DEF Claimed, ClaimedByApproval
  <2>4. \A v \in WorkItem : (run'[v] # None /\ run'[v].by # "person") =>
            \E r \in Active : r.plan = run'[v].by /\ Founds(r, v)
    <3> SUFFICES ASSUME NEW v \in WorkItem, run'[v] # None, run'[v].by # "person"
                 PROVE  \E r \in Active : r.plan = run'[v].by /\ Founds(r, v)
      OBVIOUS
    <3>1. v # w
      BY <2>1
    <3> QED BY <2>1, <3>1 DEF RunInv
  <2>5. \A r \in Live : \A v \in Node[r.plan] : run'[v] # None => run'[v].by # "person"
    BY <2>1, <2>3, LiveRecords, OwnedItems DEF RunInv
  <2> QED BY <2>2, <2>4, <2>5 DEF RunInv, Founds
<1>7. ASSUME Stop \/ Restart PROVE RunInv'
  <2>1. \A w \in WorkItem : run'[w] = None
    BY <1>7 DEF Stop, Restart, NothingWhileDown
  <2>2. Live' \subseteq Live
    BY <1>7, Opening DEF Stop, Live, Active, OnFile
  <2> QED BY <2>1, <2>2, LiveRecords, OwnedItems DEF RunInv
<1>8. CASE Quiet /\ SameRuns
    BY <1>1, <1>8, QuietJournal
<1> QED BY <1>2, <1>3, <1>4, <1>5, <1>6, <1>7, <1>8, QuietSteps, RunSteps

LEMMA NextSlotInv ==
    ASSUME PlansAreWellFormed, TypeOK, SlotInv, Next
    PROVE  SlotInv'
<1> SUFFICES ASSUME NEW q \in Plan PROVE Cardinality(PlanRuns(q)') <= MaxParallelism[q]
    BY DEF SlotInv
<1>0. Node[q] \subseteq WorkItem /\ IsFiniteSet(WorkItem) /\ MaxParallelism[q] \in Nat
      /\ q # "person"
    BY OwnedItems DEF PlansAreWellFormed
<1>1. IsFiniteSet(PlanRuns(q)) /\ PlanRuns(q) \subseteq RunsOf(q) /\ IsFiniteSet(RunsOf(q))
    BY <1>0, FS_Subset DEF PlanRuns, RunsOf
<1>2. Cardinality(PlanRuns(q)) <= MaxParallelism[q]
    BY DEF SlotInv
<1>3. ASSUME PlanRuns(q)' \subseteq PlanRuns(q) PROVE Cardinality(PlanRuns(q)') <= MaxParallelism[q]
  <2>1. Cardinality(PlanRuns(q)') <= Cardinality(PlanRuns(q))
    BY <1>1, <1>3, FS_Subset
  <2>2. Cardinality(PlanRuns(q)) \in Nat /\ Cardinality(PlanRuns(q)') \in Nat
    BY <1>1, <1>3, FS_Subset, FS_CardinalityType
  <2> QED BY <1>0, <1>2, <2>1, <2>2
<1>4. CASE SameRuns
    BY <1>0, <1>3, <1>4 DEF SameRuns, PlanRuns
<1>5. ASSUME NEW w \in WorkItem, StartManualRun(w) PROVE PlanRuns(q)' \subseteq PlanRuns(q)
    BY <1>0, <1>5 DEF StartManualRun, PlanRuns, TypeOK
<1>6. ASSUME NEW p \in Plan, NEW cooling, NEW started \in SUBSET WorkItem, Dispatch(p, cooling, started)
      PROVE  Cardinality(PlanRuns(q)') <= MaxParallelism[q]
  <2>1. /\ run' = [w \in WorkItem |->
                        IF w \in started THEN [by |-> p, started |-> FALSE] ELSE run[w]]
        /\ started \subseteq Node[p]
        /\ Cardinality(started) <= MaxParallelism[p] - Cardinality(RunsOf(p))
    BY <1>6, Dispatching
  <2>2. CASE p # q
    <3>1. PlanRuns(q)' \subseteq PlanRuns(q)
      BY <1>0, <2>1, <2>2 DEF PlanRuns
    <3> QED BY <1>3, <3>1
  <2>3. CASE p = q
    <3>1. PlanRuns(q)' \subseteq RunsOf(q) \cup started
      BY <1>0, <2>1 DEF PlanRuns, RunsOf
    <3>2. IsFiniteSet(started)
      BY <1>0, FS_Subset
    <3>3. /\ IsFiniteSet(RunsOf(q) \cup started)
          /\ Cardinality(RunsOf(q) \cup started) = Cardinality(RunsOf(q)) + Cardinality(started)
                - Cardinality(RunsOf(q) \cap started)
      BY <1>1, <3>2, FS_Union
    <3>4. Cardinality(PlanRuns(q)') <= Cardinality(RunsOf(q) \cup started) /\ IsFiniteSet(PlanRuns(q)')
      BY <3>1, <3>3, FS_Subset
    <3>5. IsFiniteSet(RunsOf(q) \cap started)
      BY <3>2, FS_Subset
    <3>6. /\ Cardinality(RunsOf(q)) \in Nat /\ Cardinality(started) \in Nat
          /\ Cardinality(RunsOf(q) \cap started) \in Nat
          /\ Cardinality(RunsOf(q) \cup started) \in Nat
          /\ Cardinality(PlanRuns(q)') \in Nat
      BY <1>1, <3>2, <3>3, <3>4, <3>5, FS_CardinalityType
    <3> QED BY <1>0, <2>1, <2>3, <3>3, <3>4, <3>6
  <2> QED BY <2>2, <2>3
<1> QED BY <1>3, <1>4, <1>5, <1>6, RunSteps

-----------------------------------------------------------------------------
(* The attempts.                                                           *)

SameAttempts ==
    \A w \in WorkItem : item'[w].by = item[w].by /\ item'[w].active = item[w].active

NewAttemptOf(w, by) ==
    /\ \A v \in WorkItem \ {w} : item'[v].by = item[v].by /\ item'[v].active = item[v].active
    /\ item'[w].by = Append(item[w].by, by)
    /\ item'[w].active \in {Len(item[w].by) + 1, item[w].active}

LEMMA AttemptSteps ==
    ASSUME TypeOK, Next
    PROVE  \/ SameAttempts
           \/ \E w \in WorkItem :
                RunStarts(w) /\ NewAttemptOf(w, run[w].by) /\ item'[w].active = Len(item[w].by) + 1
           \/ \E w \in WorkItem : ImportAttempt(w) /\ NewAttemptOf(w, "elsewhere")
<1>1. CASE item' = item
    BY <1>1 DEF SameAttempts
<1>2. ASSUME NEW w \in WorkItem, RunEnds(w) \/ DecisionIsWritten(w) \/ ImportFacts(w)
      PROVE  SameAttempts
  <2>0. item \in [WorkItem -> Item] /\ item[w] \in Item
    BY DEF TypeOK
  <2>1. ASSUME NEW it \in Item, item' = [item EXCEPT ![w] = it],
               it.by = item[w].by, it.active = item[w].active
        PROVE  SameAttempts
    BY <2>0, <2>1 DEF SameAttempts
  <2>2. CASE RunEnds(w)
    BY <2>0, <2>2 DEF RunEnds, SameAttempts, Item
  <2>3. CASE DecisionIsWritten(w)
    BY <2>0, <2>3 DEF DecisionIsWritten, SameAttempts, Item
  <2>4. CASE ImportFacts(w)
    <3>1. PICK gate \in {"open", "passed", "failed"} \ {item[w].gate} :
            item' = [item EXCEPT ![w].gate = gate,
                                ![w].decision = IF item[w].status = "completed" THEN None ELSE @]
      BY <2>4 DEF ImportFacts
    <3> DEFINE it == [item[w] EXCEPT !.gate = gate,
                                     !.decision = IF item[w].status = "completed" THEN None ELSE @]
    <3>2. it \in Item /\ it.by = item[w].by /\ it.active = item[w].active
      BY <2>0 DEF Item
    <3>3. item' = [item EXCEPT ![w] = it]
      BY <2>0, <3>1
    <3> QED BY <2>1, <3>2, <3>3
  <2> QED BY <1>2, <2>2, <2>3, <2>4
<1>3. ASSUME NEW w \in WorkItem, RunStarts(w)
      PROVE  NewAttemptOf(w, run[w].by) /\ item'[w].active = Len(item[w].by) + 1
  <2>1. run[w].by \in Starter /\ item[w] \in Item
    BY <1>3 DEF RunStarts, TypeOK, Run, Starter
  <2> QED BY <1>3, <2>1, NewAttempt DEF RunStarts, NewAttemptOf, TypeOK
<1>4. ASSUME NEW w \in WorkItem, ImportAttempt(w) PROVE NewAttemptOf(w, "elsewhere")
  <2>1. "elsewhere" \in Starter /\ item[w] \in Item
    BY DEF TypeOK, Starter
  <2>2. ASSUME NEW status \in {"completed", "failed"},
               item' = [item EXCEPT ![w] = WithAttempt(@, "elsewhere", status)]
        PROVE  NewAttemptOf(w, "elsewhere")
    <3>1. status \in Outcome \cup {"running"}
      BY DEF Outcome
    <3> QED BY <2>1, <2>2, <3>1, NewAttempt DEF NewAttemptOf, TypeOK
  <2>3. ASSUME item' = [item EXCEPT ![w].by = Append(@, "elsewhere")]
        PROVE  NewAttemptOf(w, "elsewhere")
    BY <2>1, <2>3, OlderAttempt DEF NewAttemptOf, TypeOK
  <2> QED BY <1>4, <2>2, <2>3 DEF ImportAttempt
<1>5. ASSUME Restart PROVE SameAttempts
    BY <1>5 DEF Restart, Recovered, SameAttempts, TypeOK, Item
<1> QED BY <1>1, <1>2, <1>3, <1>4, <1>5
        DEF Next, Approve, Retire, RetireAgain, JournalReplaces, JournalAnswers, Dispatch,
            StartManualRun, RunNeverStarts, RunEndIsLost, DecideAcceptance, DecisionFails, Stop

\* The attempts after a new one.
LEMMA Attempts ==
    ASSUME TypeOK, NEW w \in WorkItem, NEW by \in Starter, NewAttemptOf(w, by)
    PROVE  /\ Len(item[w].by) \in Nat /\ Len(item'[w].by) = Len(item[w].by) + 1
           /\ DOMAIN item[w].by = 1..Len(item[w].by)
           /\ DOMAIN item'[w].by = DOMAIN item[w].by \cup {Len(item[w].by) + 1}
           /\ \A i \in DOMAIN item[w].by : item'[w].by[i] = item[w].by[i]
           /\ item'[w].by[Len(item[w].by) + 1] = by
<1> DEFINE s == item[w].by
<1>1. s \in Seq(Starter) /\ item'[w].by = Append(s, by)
    BY DEF TypeOK, Item, NewAttemptOf
<1> HIDE DEF s
<1>2. /\ Len(s) \in Nat /\ Len(Append(s, by)) = Len(s) + 1
      /\ DOMAIN s = 1..Len(s) /\ DOMAIN Append(s, by) = DOMAIN s \cup {Len(s) + 1}
      /\ \A i \in DOMAIN s : Append(s, by)[i] = s[i]
      /\ Append(s, by)[Len(s) + 1] = by
    BY <1>1
<1> QED BY <1>1, <1>2 DEF s

LEMMA AttemptCount ==
    ASSUME TypeOK, NEW w \in WorkItem
    PROVE  /\ Len(item[w].by) \in Nat /\ DOMAIN item[w].by = 1..Len(item[w].by)
           /\ IsFiniteSet(DOMAIN item[w].by) /\ item[w].active \in Nat
<1>1. item[w].by \in Seq(Starter) /\ item[w].active \in Nat
    BY DEF TypeOK, Item
<1>2. Len(item[w].by) \in Nat /\ DOMAIN item[w].by = 1..Len(item[w].by)
    BY <1>1
<1>3. IsFiniteSet(1..Len(item[w].by))
    BY <1>2, FS_Interval
<1> QED BY <1>1, <1>2, <1>3

\* The file loses no approval.
LEMMA RecordsStay ==
    ASSUME PlansAreWellFormed, TypeOK, JournalInv, Next
    PROVE  \/ disk' = disk
           \/ JournalReplaces /\ disk'.records = disk.records
           \/ /\ JournalReplaces /\ Approves(Turn) /\ SameAttempts
              /\ disk'.records = disk.records \cup {Granted}
<1>1. CASE Quiet
    BY <1>1, QuietJournal
<1>2. ASSUME NEW p \in Plan, Approve(p) \/ Retire(p) \/ RetireAgain(p) PROVE disk' = disk
    BY <1>2, Requesting DEF JournalInv
<1>3. ASSUME JournalReplaces
      PROVE  \/ disk'.records = disk.records
             \/ Approves(Turn) /\ SameAttempts /\ disk'.records = disk.records \cup {Granted}
    BY <1>3, Replacing DEF JournalReplaces, JournalInv, SameAttempts
<1>4. ASSUME JournalAnswers PROVE disk' = disk
    BY <1>4, Answering DEF JournalAnswers, JournalInv
<1>5. ASSUME Stop \/ Restart PROVE disk' = disk
    BY <1>5, Opening DEF Stop
<1> QED BY <1>1, <1>2, <1>3, <1>4, <1>5, QuietSteps

LEMMA NextAttemptInv ==
    ASSUME PlansAreWellFormed, TypeOK, JournalInv, RunInv, AttemptInv, QueueInv, Next
    PROVE  AttemptInv'
<1> USE DEF JournalInv
<1> DEFINE Owns(r, w, i) == r.plan = item[w].by[i] /\ Founds(r, w) /\ i > r.baselines[w]
<1>0. /\ \A w \in WorkItem : item[w].active <= Len(item[w].by)
      /\ \A r \in disk.records : \A w \in Node[r.plan] :
            r.baselines # None => r.baselines[w] <= Len(item[w].by)
      /\ \A w \in WorkItem : \A i \in DOMAIN item[w].by : item[w].by[i] \in Plan =>
            i <= item[w].active /\ \E r \in disk.records : Owns(r, w, i)
    BY DEF AttemptInv
<1>1. \A r \in disk.records : Node[r.plan] \subseteq WorkItem /\ Node[r.plan] \subseteq Owned(r.plan)
        /\ IsApproval(r)
    BY LiveRecords, OwnedItems
<1>2. disk.records \subseteq disk'.records
    BY RecordsStay
<1>3. ASSUME SameAttempts PROVE AttemptInv'
  <2>1. \A r \in disk'.records : \A w \in Node[r.plan] :
            r.baselines # None => r.baselines[w] <= Len(item[w].by)
    <3>1. CASE disk'.records = disk.records
      BY <1>0, <3>1
    <3>2. ASSUME JournalReplaces, Approves(Turn), disk'.records = disk.records \cup {Granted}
          PROVE  \A r \in disk'.records : \A w \in Node[r.plan] :
                    r.baselines # None => r.baselines[w] <= Len(item[w].by)
      <4>1. queue # <<>>
        BY <3>2 DEF JournalReplaces, Replace
      <4>2. Turn = queue[1] /\ 1 \in 1..Len(queue) /\ Granted.plan = Turn.plan
            /\ Granted.baselines = Turn.baselines
        BY <3>2, <4>1, HeadOfQueue, GrantedRecord DEF JournalTyped
      <4>3. \A w \in Node[Turn.plan] : Turn.baselines[w] <= Len(item[w].by)
        BY <3>2, <4>2 DEF QueueInv
      <4> QED BY <1>0, <3>2, <4>2, <4>3
    <3> QED BY <3>1, <3>2, RecordsStay
  <2>2. \A r \in disk'.records : Node[r.plan] \subseteq WorkItem
    BY NextJournalInv, OwnedItems DEF JournalTyped, IsApproval
  <2>3. \A w \in WorkItem : item'[w].active <= Len(item'[w].by)
    BY <1>0, <1>3 DEF SameAttempts
  <2>4. \A r \in disk'.records : \A w \in Node[r.plan] :
            r.baselines # None => r.baselines[w] <= Len(item'[w].by)
    BY <1>3, <2>1, <2>2 DEF SameAttempts
  <2>5. \A w \in WorkItem : \A i \in DOMAIN item'[w].by : item'[w].by[i] \in Plan =>
            i <= item'[w].active /\ \E r \in disk'.records :
                r.plan = item'[w].by[i] /\ Founds(r, w) /\ i > r.baselines[w]
    BY <1>0, <1>2, <1>3 DEF SameAttempts
  <2> QED BY <2>3, <2>4, <2>5 DEF AttemptInv, Founds
<1>4. ASSUME NEW w \in WorkItem, NEW by \in Starter, NewAttemptOf(w, by), disk' = disk,
             by \in Plan => /\ item'[w].active = Len(item[w].by) + 1
                            /\ \E r \in disk.records : r.plan = by /\ Founds(r, w)
      PROVE  AttemptInv'
  <2> DEFINE n == Len(item[w].by)
  <2>1. /\ n \in Nat /\ Len(item'[w].by) = n + 1
        /\ DOMAIN item[w].by = 1..n
        /\ DOMAIN item'[w].by = DOMAIN item[w].by \cup {n + 1}
        /\ \A i \in DOMAIN item[w].by : item'[w].by[i] = item[w].by[i]
        /\ item'[w].by[n + 1] = by
    BY <1>4, Attempts
  <2>2. /\ \A v \in WorkItem \ {w} : item'[v].by = item[v].by /\ item'[v].active = item[v].active
        /\ item'[w].active \in {n + 1, item[w].active} /\ item[w].active \in Nat
        /\ item[w].active <= n
    BY <1>0, <1>4, AttemptCount DEF NewAttemptOf
  <2>3. \A v \in WorkItem : Len(item[v].by) \in Nat /\ Len(item'[v].by) >= Len(item[v].by)
    BY <2>1, <2>2, AttemptCount
  <2>4. \A v \in WorkItem : item'[v].active <= Len(item'[v].by)
    <3>1. item[w].active <= n + 1 /\ n + 1 <= n + 1
      BY <2>1, <2>2
    <3>2. item'[w].active <= Len(item'[w].by)
      BY <2>1, <2>2, <3>1
    <3>3. \A v \in WorkItem \ {w} : item'[v].active <= Len(item'[v].by)
      BY <1>0, <2>2
    <3> QED BY <3>2, <3>3
  <2>5. \A r \in disk.records : \A v \in Node[r.plan] :
            r.baselines # None => r.baselines[v] <= Len(item'[v].by)
    <3> SUFFICES ASSUME NEW r \in disk.records, NEW v \in Node[r.plan], r.baselines # None
                 PROVE  r.baselines[v] <= Len(item'[v].by)
      OBVIOUS
    <3>1. v \in WorkItem /\ r.baselines[v] \in Nat /\ r.baselines[v] <= Len(item[v].by)
      BY <1>0, <1>1 DEF IsApproval
    <3>2. Len(item[v].by) \in Nat /\ Len(item'[v].by) >= Len(item[v].by) /\ Len(item'[v].by) \in Nat
      BY <2>1, <2>2, <2>3, <3>1
    <3> QED BY <3>1, <3>2
  <2>6. \A v \in WorkItem : \A i \in DOMAIN item'[v].by : item'[v].by[i] \in Plan =>
            i <= item'[v].active /\ \E r \in disk.records :
                r.plan = item'[v].by[i] /\ Founds(r, v) /\ i > r.baselines[v]
    <3> SUFFICES ASSUME NEW v \in WorkItem, NEW i \in DOMAIN item'[v].by, item'[v].by[i] \in Plan
                 PROVE  i <= item'[v].active /\ \E r \in disk.records :
                            r.plan = item'[v].by[i] /\ Founds(r, v) /\ i > r.baselines[v]
      OBVIOUS
    <3>1. CASE v # w
      BY <1>0, <2>2, <3>1
    <3>2. CASE v = w /\ i \in DOMAIN item[w].by
      <4>1. item'[w].by[i] = item[w].by[i] /\ i \in 1..n
        BY <2>1, <3>2
      <4>2. i <= item[w].active /\ \E r \in disk.records : Owns(r, w, i)
        BY <1>0, <3>2, <4>1
      <4>3. i <= item'[w].active
        BY <2>1, <2>2, <4>1, <4>2
      <4> QED BY <3>2, <4>1, <4>2, <4>3
    <3>3. CASE v = w /\ i = n + 1
      <4>1. by \in Plan /\ item'[w].by[i] = by
        BY <2>1, <3>3
      <4>2. item'[w].active = n + 1
        BY <1>4, <4>1
      <4>3. PICK r \in disk.records : r.plan = by /\ Founds(r, w)
        BY <1>4, <4>1
      <4>4. r.baselines[w] \in Nat /\ r.baselines[w] <= n
        BY <1>0, <1>1, <4>3 DEF Founds, IsApproval
      <4> QED BY <2>1, <3>3, <4>1, <4>2, <4>3, <4>4
    <3> QED BY <2>1, <3>1, <3>2, <3>3
  <2> QED BY <1>4, <2>4, <2>5, <2>6 DEF AttemptInv, Founds
<1>5. ASSUME NEW w \in WorkItem, RunStarts(w), NewAttemptOf(w, run[w].by),
             item'[w].active = Len(item[w].by) + 1
      PROVE  AttemptInv'
  <2>1. run[w].by \in Starter /\ run[w] # None /\ "person" \notin Plan
    BY <1>5 DEF RunStarts, TypeOK, Run, Starter, PlansAreWellFormed
  <2>2. run[w].by \in Plan => \E r \in disk.records : r.plan = run[w].by /\ Founds(r, w)
    BY <2>1, LiveRecords DEF RunInv, Live
  <2>3. disk' = disk
    BY <1>5 DEF RunStarts, journal
  <2> QED BY <1>4, <1>5, <2>1, <2>2, <2>3
<1>6. ASSUME NEW w \in WorkItem, ImportAttempt(w), NewAttemptOf(w, "elsewhere") PROVE AttemptInv'
  <2>1. "elsewhere" \in Starter /\ "elsewhere" \notin Plan
    BY DEF Starter, PlansAreWellFormed
  <2>2. disk' = disk
    BY <1>6 DEF ImportAttempt, journal
  <2> QED BY <1>4, <1>6, <2>1, <2>2
<1> QED BY <1>3, <1>5, <1>6, AttemptSteps

\* A plan may start a node of its own only while the retry policy has attempts left.
LEMMA AttemptsLeft ==
    ASSUME PlansAreWellFormed, TypeOK, JournalInv, AttemptInv, NEW r \in Active, r.baselines # None,
           NEW w \in Node[r.plan], HasPlanAttempt(r, w) => ~RetryExhausted(r, w)
    PROVE  Cardinality(AttemptsOf(w, r.plan)) < MaxAttempts[r.plan]
<1> DEFINE p == r.plan
<1>1. /\ r \in disk.records /\ p \in Plan /\ w \in WorkItem /\ MaxAttempts[p] \in Nat \ {0}
      /\ r.baselines[w] \in Nat
    BY LiveRecords, OwnedItems DEF JournalInv, Live, IsApproval, PlansAreWellFormed
<1>2. ASSUME NEW i \in AttemptsOf(w, p) PROVE HasPlanAttempt(r, w) /\ i \in Window(r, w)
  <2>1. i \in DOMAIN item[w].by /\ item[w].by[i] = p
    BY DEF AttemptsOf
  <2>2. i <= item[w].active /\ item[w].active <= Len(item[w].by)
    BY <1>1, <2>1 DEF AttemptInv
  <2>3. PICK s \in disk.records : s.plan = p /\ i > s.baselines[w]
    BY <1>1, <2>1 DEF AttemptInv
  <2>4. s = r
    BY <1>1, <2>3, LiveRecords DEF JournalInv
  <2>5. i > r.baselines[w]
    BY <2>3, <2>4
  <2>6. /\ Len(item[w].by) \in Nat /\ DOMAIN item[w].by = 1..Len(item[w].by)
        /\ item[w].active \in Nat
    BY <1>1, AttemptCount
  <2>7. item[w].active \in 1..Len(item[w].by) /\ item[w].active > r.baselines[w] /\ item[w].active # 0
    BY <1>1, <2>1, <2>2, <2>5, <2>6
  <2> QED BY <2>1, <2>5, <2>6, <2>7 DEF HasPlanAttempt, HasActive, Window
<1>3. CASE AttemptsOf(w, p) = {}
    BY <1>1, <1>3, FS_EmptySet
<1>4. CASE AttemptsOf(w, p) # {}
  <2>1. ~RetryExhausted(r, w) /\ AttemptsOf(w, p) \subseteq Window(r, w)
    BY <1>2, <1>4
  <2>2. IsFiniteSet(Window(r, w))
    BY <1>1, AttemptCount, FS_Subset DEF Window
  <2>3. /\ Cardinality(AttemptsOf(w, p)) <= Cardinality(Window(r, w))
        /\ IsFiniteSet(AttemptsOf(w, p))
    BY <2>1, <2>2, FS_Subset
  <2>4. Cardinality(AttemptsOf(w, p)) \in Nat /\ Cardinality(Window(r, w)) \in Nat
    BY <2>2, <2>3, FS_CardinalityType
  <2>5. ~(Cardinality(Window(r, w)) >= MaxAttempts[p])
    BY <2>1 DEF RetryExhausted
  <2> QED BY <1>1, <2>3, <2>4, <2>5
<1> QED BY <1>3, <1>4

LEMMA NextCountInv ==
    ASSUME PlansAreWellFormed, TypeOK, JournalInv, AttemptInv, CountInv, Next
    PROVE  CountInv'
<1> SUFFICES ASSUME NEW q \in Plan, NEW v \in Node[q]
             PROVE  /\ Cardinality(AttemptsOf(v, q)') <= MaxAttempts[q]
                    /\ (run'[v] # None /\ run'[v].by = q /\ ~run'[v].started) =>
                            Cardinality(AttemptsOf(v, q)') < MaxAttempts[q]
    BY DEF CountInv
<1>0. v \in WorkItem /\ MaxAttempts[q] \in Nat \ {0} /\ q # "person" /\ q # "elsewhere"
    BY OwnedItems DEF PlansAreWellFormed
<1>1. /\ Cardinality(AttemptsOf(v, q)) <= MaxAttempts[q]
      /\ (run[v] # None /\ run[v].by = q /\ ~run[v].started) =>
            Cardinality(AttemptsOf(v, q)) < MaxAttempts[q]
    BY DEF CountInv
<1>2. IsFiniteSet(AttemptsOf(v, q)) /\ Cardinality(AttemptsOf(v, q)) \in Nat
  <2>1. IsFiniteSet(AttemptsOf(v, q))
    BY <1>0, AttemptCount, FS_Subset DEF AttemptsOf
  <2> QED BY <2>1, FS_CardinalityType
<1>3. SameAttempts => AttemptsOf(v, q)' = AttemptsOf(v, q)
    BY <1>0 DEF SameAttempts, AttemptsOf
<1>4. CASE SameAttempts /\ SameRuns
    BY <1>0, <1>1, <1>3, <1>4 DEF SameRuns
<1>5. ASSUME NEW w \in WorkItem, StartManualRun(w)
      PROVE  /\ Cardinality(AttemptsOf(v, q)') <= MaxAttempts[q]
             /\ (run'[v] # None /\ run'[v].by = q /\ ~run'[v].started) =>
                    Cardinality(AttemptsOf(v, q)') < MaxAttempts[q]
  <2>1. AttemptsOf(v, q)' = AttemptsOf(v, q)
    BY <1>5 DEF StartManualRun, AttemptsOf
  <2>2. (run'[v] # None /\ run'[v].by = q) => run'[v] = run[v]
    BY <1>0, <1>5 DEF StartManualRun, TypeOK
  <2> QED BY <1>1, <2>1, <2>2
<1>6. ASSUME NEW p \in Plan, NEW cooling, NEW started \in SUBSET WorkItem, Dispatch(p, cooling, started)
      PROVE  /\ Cardinality(AttemptsOf(v, q)') <= MaxAttempts[q]
             /\ (run'[v] # None /\ run'[v].by = q /\ ~run'[v].started) =>
                    Cardinality(AttemptsOf(v, q)') < MaxAttempts[q]
  <2>1. /\ UNCHANGED item /\ started \subseteq Node[p]
        /\ run' = [w \in WorkItem |->
                        IF w \in started THEN [by |-> p, started |-> FALSE] ELSE run[w]]
    BY <1>6, Dispatching
  <2>2. PICK r \in Active : r.plan = p /\ r.baselines # None
                /\ \A w \in started : HasPlanAttempt(r, w) => ~RetryExhausted(r, w)
    BY <1>6, Dispatching
  <2>3. AttemptsOf(v, q)' = AttemptsOf(v, q)
    BY <2>1 DEF AttemptsOf
  <2>4. CASE v \in started /\ p = q
    BY <1>1, <2>1, <2>2, <2>3, <2>4, AttemptsLeft
  <2>5. CASE v \notin started
    BY <1>0, <1>1, <2>1, <2>3, <2>5
  <2>6. CASE v \in started /\ p # q
    BY <1>0, <1>1, <2>1, <2>3, <2>6
  <2> QED BY <2>4, <2>5, <2>6
<1>7. ASSUME NEW w \in WorkItem, NEW by \in Starter, NewAttemptOf(w, by), w # v \/ by # q
      PROVE  AttemptsOf(v, q)' = AttemptsOf(v, q)
  <2>1. CASE w # v
    BY <1>0, <1>7, <2>1 DEF NewAttemptOf, AttemptsOf
  <2>2. CASE w = v /\ by # q
    BY <1>0, <1>7, <2>2, Attempts DEF AttemptsOf
  <2> QED BY <1>7, <2>1, <2>2
<1>8. ASSUME NEW w \in WorkItem, RunStarts(w), NewAttemptOf(w, run[w].by)
      PROVE  /\ Cardinality(AttemptsOf(v, q)') <= MaxAttempts[q]
             /\ (run'[v] # None /\ run'[v].by = q /\ ~run'[v].started) =>
                    Cardinality(AttemptsOf(v, q)') < MaxAttempts[q]
  <2>1. /\ run[w] # None /\ run[w] \in Run /\ ~run[w].started /\ run[w].by \in Starter
        /\ run' = [run EXCEPT ![w].started = TRUE]
        /\ run \in [WorkItem -> Run \cup {None}]
    BY <1>8 DEF RunStarts, TypeOK, Run, Starter
  <2>2. CASE w # v \/ run[w].by # q
    <3>1. AttemptsOf(v, q)' = AttemptsOf(v, q)
      BY <1>7, <1>8, <2>1, <2>2
    <3>2. (run'[v] # None /\ run'[v].by = q /\ ~run'[v].started) =>
            (run[v] # None /\ run[v].by = q /\ ~run[v].started)
      BY <1>0, <2>1, <2>2 DEF Run
    <3> QED BY <1>1, <3>1, <3>2
  <2>3. CASE w = v /\ run[w].by = q
    <3> DEFINE n == Len(item[w].by)
    <3>1. /\ n \in Nat /\ DOMAIN item[w].by = 1..n
          /\ DOMAIN item'[w].by = DOMAIN item[w].by \cup {n + 1}
          /\ \A i \in DOMAIN item[w].by : item'[w].by[i] = item[w].by[i]
          /\ item'[w].by[n + 1] = q
      BY <1>8, <2>1, <2>3, Attempts
    <3> HIDE DEF n
    <3>2. AttemptsOf(v, q)' = AttemptsOf(v, q) \cup {n + 1}
      BY <2>3, <3>1 DEF AttemptsOf
    <3>3. Cardinality(AttemptsOf(v, q)') <= Cardinality(AttemptsOf(v, q)) + 1
      <4>1. n + 1 \notin AttemptsOf(v, q)
        BY <2>3, <3>1 DEF AttemptsOf
      <4>2. Cardinality(AttemptsOf(v, q) \cup {n + 1}) = Cardinality(AttemptsOf(v, q)) + 1
        BY <1>2, <4>1, FS_AddElement
      <4> QED BY <1>2, <3>2, <4>2
    <3>4. Cardinality(AttemptsOf(v, q)) < MaxAttempts[q]
      BY <1>1, <2>1, <2>3
    <3>5. IsFiniteSet(AttemptsOf(v, q)') /\ Cardinality(AttemptsOf(v, q)') \in Nat
      BY <1>2, <3>2, FS_AddElement, FS_CardinalityType
    <3>6. run'[v].started
      BY <1>0, <2>1, <2>3 DEF Run
    <3> QED BY <1>0, <1>2, <3>3, <3>4, <3>5, <3>6
  <2> QED BY <2>2, <2>3
<1>9. ASSUME NEW w \in WorkItem, ImportAttempt(w), NewAttemptOf(w, "elsewhere")
      PROVE  /\ Cardinality(AttemptsOf(v, q)') <= MaxAttempts[q]
             /\ (run'[v] # None /\ run'[v].by = q /\ ~run'[v].started) =>
                    Cardinality(AttemptsOf(v, q)') < MaxAttempts[q]
  <2>1. AttemptsOf(v, q)' = AttemptsOf(v, q)
    BY <1>0, <1>7, <1>9 DEF Starter
  <2>2. run' = run
    BY <1>9 DEF ImportAttempt
  <2> QED BY <1>1, <2>1, <2>2
<1> QED BY <1>4, <1>5, <1>6, <1>8, <1>9, AttemptSteps, RunSteps

-----------------------------------------------------------------------------
(* The windows.                                                            *)

LEMMA NextWindowInv ==
    ASSUME PlansAreWellFormed, TypeOK, JournalInv, RunInv, WindowInv, QueueInv, Next
    PROVE  WindowInv'
<1> USE DEF JournalInv
<1>0. \A r \in Live : Node[r.plan] \subseteq WorkItem /\ r.plan \in Plan
    BY LiveRecords, OwnedItems
<1>1. ASSUME SameAttempts, Live' \subseteq Live PROVE WindowInv'
    BY <1>0, <1>1 DEF WindowInv, SameAttempts, Window
<1>2. ASSUME NEW w \in WorkItem, NEW by \in Starter, NewAttemptOf(w, by), Live' = Live,
             \A r \in Live : (r.baselines # None /\ w \in Node[r.plan]) => by \in {r.plan, "elsewhere"}
      PROVE  WindowInv'
  <2> SUFFICES ASSUME NEW r \in Live, r.baselines # None, NEW v \in Node[r.plan],
                      NEW i \in DOMAIN item'[v].by, i > r.baselines[v]
               PROVE  item'[v].by[i] \in {r.plan, "elsewhere"}
    BY <1>2 DEF WindowInv, Window
  <2>1. CASE v # w
    <3>1. v \in WorkItem /\ item'[v].by = item[v].by
      BY <1>0, <1>2, <2>1 DEF NewAttemptOf
    <3> QED BY <3>1 DEF WindowInv, Window
  <2>2. CASE v = w /\ i \in DOMAIN item[w].by
    <3>1. item'[w].by[i] = item[w].by[i]
      BY <1>2, <2>2, Attempts
    <3> QED BY <2>2, <3>1 DEF WindowInv, Window
  <2>3. CASE v = w /\ i = Len(item[w].by) + 1
    <3>1. item'[w].by[i] = by
      BY <1>2, <2>3, Attempts
    <3> QED BY <1>2, <2>3, <3>1
  <2>4. v = w => i \in DOMAIN item[w].by \/ i = Len(item[w].by) + 1
    BY <1>2, Attempts
  <2> QED BY <2>1, <2>2, <2>3, <2>4
<1>3. ASSUME NEW w \in WorkItem, RunStarts(w), NewAttemptOf(w, run[w].by) PROVE WindowInv'
  <2>1. run[w] # None /\ run[w].by \in Starter /\ Live' = Live
    BY <1>3 DEF RunStarts, TypeOK, Run, Starter, journal, Live, Active, OnFile
  <2>2. ASSUME NEW r \in Live, w \in Node[r.plan] PROVE run[w].by = r.plan
    <3>1. run[w].by # "person"
      BY <2>1, <2>2 DEF RunInv
    <3>2. PICK s \in Active : s.plan = run[w].by /\ w \in Node[s.plan]
      BY <2>1, <3>1 DEF RunInv, Founds
    <3>3. w \in Owned(r.plan) /\ w \in Owned(s.plan) /\ s \in Live
      BY <2>2, <3>2 DEF Owned, Live
    <3>4. r = s
      BY <3>3, OneOwner
    <3> QED BY <3>2, <3>4
  <2> QED BY <1>2, <1>3, <2>1, <2>2
<1>4. ASSUME NEW w \in WorkItem, ImportAttempt(w), NewAttemptOf(w, "elsewhere") PROVE WindowInv'
  <2>1. "elsewhere" \in Starter /\ Live' = Live
    BY <1>4 DEF ImportAttempt, Starter, journal, Live, Active, OnFile
  <2> QED BY <1>2, <1>4, <2>1
<1>5. ASSUME JournalReplaces PROVE WindowInv'
  <2>0. up /\ Replace /\ UNCHANGED item /\ SameAttempts
    BY <1>5 DEF JournalReplaces, SameAttempts
  <2>1. CASE ~Approves(Turn)
    BY <1>1, <2>0, <2>1, Replacing
  <2>2. CASE Approves(Turn)
    <3>1. /\ queue # <<>> /\ Live = Active /\ Live' = Active \cup {Granted}
          /\ Granted.plan = Turn.plan /\ Granted.baselines = Turn.baselines
          /\ \A r \in Active : Owned(r.plan) \cap Owned(Turn.plan) = {}
      BY <2>0, <2>2, Replacing, GrantedRecord
    <3>2. Turn = queue[1] /\ 1 \in 1..Len(queue)
      BY <3>1, HeadOfQueue DEF JournalTyped
    <3>3. ASSUME NEW w \in Node[Turn.plan], NEW i \in DOMAIN item[w].by, i > Turn.baselines[w]
          PROVE  item[w].by[i] = "elsewhere"
      <4>1. item[w].by[i] = "elsewhere" \/ Hindered(1, w)
        BY <2>2, <3>2, <3>3 DEF QueueInv
      <4>2. ~Hindered(1, w)
        BY <3>1 DEF Hindered, Owned
      <4> QED BY <4>1, <4>2
    <3>4. \A r \in Live : r.baselines # None =>
            \A w \in Node[r.plan] : \A i \in Window(r, w) : item[w].by[i] \in {r.plan, "elsewhere"}
      BY DEF WindowInv
    <3>5. \A w \in Node[Granted.plan] : \A i \in Window(Granted, w) :
            item[w].by[i] \in {Granted.plan, "elsewhere"}
      BY <3>1, <3>3 DEF Window
    <3> QED BY <2>0, <3>1, <3>4, <3>5 DEF WindowInv, Window
  <2> QED BY <2>1, <2>2
<1>6. Live' \subseteq Live \/ JournalReplaces
  <2>1. ASSUME NEW p \in Plan, Approve(p) \/ Retire(p) \/ RetireAgain(p) PROVE Live' = Live
    BY <2>1, Requesting
  <2>2. ASSUME JournalAnswers PROVE Live' \subseteq Live
    BY <2>2, Answering DEF JournalAnswers
  <2>3. ASSUME Stop \/ Restart PROVE Live' \subseteq Live
    BY <2>3, Opening DEF Stop, Live, Active, OnFile
  <2> QED BY <2>1, <2>2, <2>3, QuietSteps, QuietJournal
<1> QED BY <1>1, <1>3, <1>4, <1>5, <1>6, AttemptSteps

LEMMA NextQueueInv ==
    ASSUME PlansAreWellFormed, TypeOK, JournalInv, ClaimInv, RunInv, QueueInv, Next
    PROVE  QueueInv'
<1> USE DEF JournalInv, ClaimInv
<1>0. \A k \in 1..Len(queue) : queue[k].plan \in Plan /\ Node[queue[k].plan] \subseteq WorkItem
  <2> SUFFICES ASSUME NEW k \in 1..Len(queue)
               PROVE  queue[k].plan \in Plan /\ Node[queue[k].plan] \subseteq WorkItem
    OBVIOUS
  <2> DEFINE S == Command
  <2>1. queue \in Seq(S)
    BY DEF JournalTyped
  <2> HIDE DEF S
  <2>2. queue[k] \in S
    BY <2>1
  <2> QED BY <2>2, CommandParts, OwnedItems DEF S
<1>1. ASSUME SameAttempts, queue' = queue, Active' = Active PROVE QueueInv'
    BY <1>0, <1>1 DEF QueueInv, SameAttempts, Hindered
<1>2. ASSUME NEW w \in WorkItem, NEW by \in Starter, NewAttemptOf(w, by), queue' = queue, Active' = Active,
             by # "elsewhere" => \A k \in 1..Len(queue) :
                (Approves(queue[k]) /\ w \in Node[queue[k].plan]) => Hindered(k, w)
      PROVE  QueueInv'
  <2> DEFINE n == Len(item[w].by)
  <2>0. /\ n \in Nat /\ Len(item'[w].by) = n + 1
        /\ DOMAIN item'[w].by = DOMAIN item[w].by \cup {n + 1}
        /\ \A i \in DOMAIN item[w].by : item'[w].by[i] = item[w].by[i]
        /\ item'[w].by[n + 1] = by
    BY <1>2, Attempts
  <2> SUFFICES ASSUME NEW k \in 1..Len(queue), Approves(queue[k]), NEW v \in Node[queue[k].plan]
               PROVE  /\ queue[k].baselines[v] <= Len(item'[v].by)
                      /\ \A i \in DOMAIN item'[v].by :
                            i > queue[k].baselines[v] => item'[v].by[i] = "elsewhere" \/ Hindered(k, v)
    BY <1>2 DEF QueueInv, Hindered
  <2>1. /\ queue[k].baselines[v] <= Len(item[v].by) /\ v \in WorkItem
        /\ \A i \in DOMAIN item[v].by :
            i > queue[k].baselines[v] => item[v].by[i] = "elsewhere" \/ Hindered(k, v)
    BY <1>0 DEF QueueInv
  <2>2. queue[k].baselines[v] \in Nat
    BY <1>0, OwnedItems DEF JournalTyped
  <2>3. CASE v # w
    BY <1>2, <2>1, <2>3 DEF NewAttemptOf
  <2>4. CASE v = w
    <3>1. queue[k].baselines[v] <= Len(item'[v].by)
      BY <2>0, <2>1, <2>2, <2>4
    <3>2. ASSUME NEW i \in DOMAIN item'[w].by, i > queue[k].baselines[w]
          PROVE  item'[w].by[i] = "elsewhere" \/ Hindered(k, w)
      <4>1. CASE i \in DOMAIN item[w].by
        BY <2>0, <2>1, <2>4, <3>2, <4>1
      <4>2. CASE i = n + 1
        BY <1>2, <2>0, <2>4, <4>2
      <4> QED BY <2>0, <4>1, <4>2
    <3> QED BY <2>4, <3>1, <3>2
  <2> QED BY <2>3, <2>4
<1>3. ASSUME NEW w \in WorkItem, RunStarts(w), NewAttemptOf(w, run[w].by) PROVE QueueInv'
  <2>1. /\ run[w] # None /\ run[w].by \in Starter /\ queue' = queue /\ Active' = Active
    BY <1>3 DEF RunStarts, TypeOK, Run, Starter, journal, Active
  <2>2. ASSUME NEW k \in 1..Len(queue), Approves(queue[k]), w \in Node[queue[k].plan]
        PROVE  Hindered(k, w)
    <3>1. ClaimedByApproval(w)
      BY <1>0, <2>2, OwnedItems DEF BackedInv, Backed, ClaimedByApproval
    <3>2. run[w].by # "person" /\ ~ClaimedByRetirement(w)
      BY <2>1, <3>1 DEF ClaimsAreExclusive
    <3>3. PICK r \in Active : r.plan = run[w].by /\ w \in Node[r.plan]
      BY <2>1, <3>2 DEF RunInv, Founds
    <3>4. w \in Owned(r.plan) /\ r.plan \notin releasing /\ r.plan \notin retired
      BY <3>2, <3>3 DEF Owned, ClaimedByRetirement, Active, ActiveOf
    <3>5. \A j \in 1..Len(queue) : ~Approves(queue[j]) => queue[j].plan # r.plan
      BY <3>4 DEF BackedInv, Backed
    <3> QED BY <3>4, <3>5 DEF Hindered
  <2> QED BY <1>2, <1>3, <2>1, <2>2
<1>4. ASSUME NEW w \in WorkItem, ImportAttempt(w), NewAttemptOf(w, "elsewhere") PROVE QueueInv'
  <2>1. "elsewhere" \in Starter /\ queue' = queue /\ Active' = Active
    BY <1>4 DEF ImportAttempt, Starter, journal, Active
  <2> QED BY <1>2, <1>4, <2>1
<1>5. ASSUME NEW p \in Plan, Approve(p) \/ Retire(p) \/ RetireAgain(p) PROVE QueueInv'
  <2>0. PICK n : n = Len(queue)
    OBVIOUS
  <2>1. /\ n \in Nat /\ Len(queue') = n + 1 /\ \A k \in 1..n : queue'[k] = queue[k]
        /\ queue'[n + 1].plan = p /\ (Approve(p) <=> Approves(queue'[n + 1]))
        /\ Approve(p) => queue'[n + 1].baselines = [w \in Owned(p) |-> Len(item[w].by)]
        /\ Active' = Active /\ item' = item
    BY <1>5, <2>0, Requesting
  <2>2. ASSUME NEW k \in 1..n, NEW w, Hindered(k, w) PROVE Hindered(k, w)'
    <3>1. PICK r \in Active :
            /\ w \in Owned(r.plan)
            /\ \A j \in 1..n : (j < k /\ ~Approves(queue[j])) => queue[j].plan # r.plan
      BY <2>0, <2>2 DEF Hindered
    <3>2. \A j \in 1..(n + 1) : j < k => j \in 1..n
      BY <2>1
    <3>3. \A j \in 1..(n + 1) : (j < k /\ ~Approves(queue'[j])) => queue'[j].plan # r.plan
      BY <2>1, <3>1, <3>2
    <3> QED BY <2>1, <3>1, <3>3 DEF Hindered
  <2>3. ASSUME NEW k \in 1..n, Approves(queue[k]), NEW w \in Node[queue[k].plan]
        PROVE  /\ queue[k].baselines[w] <= Len(item[w].by)
               /\ \A i \in DOMAIN item[w].by :
                    i > queue[k].baselines[w] => item[w].by[i] = "elsewhere" \/ Hindered(k, w)'
    BY <2>0, <2>2, <2>3 DEF QueueInv
  <2>4. ASSUME Approves(queue'[n + 1]), NEW w \in Node[p]
        PROVE  /\ queue'[n + 1].baselines[w] <= Len(item[w].by)
               /\ \A i \in DOMAIN item[w].by : ~(i > queue'[n + 1].baselines[w])
    <3>1. w \in Owned(p) /\ w \in WorkItem
      BY OwnedItems
    <3>2. queue'[n + 1].baselines[w] = Len(item[w].by)
      BY <2>1, <2>4, <3>1
    <3>3. Len(item[w].by) \in Nat /\ DOMAIN item[w].by = 1..Len(item[w].by)
      BY <3>1, AttemptCount
    <3> QED BY <3>2, <3>3
  <2>5. \A k \in 1..(n + 1) : k \in 1..n \/ k = n + 1
    BY <2>1
  <2> QED BY <2>1, <2>3, <2>4, <2>5 DEF QueueInv
<1>6. ASSUME JournalReplaces PROVE QueueInv'
  <2>1. SameAttempts /\ queue' = queue /\ Active' = Active
    BY <1>6 DEF JournalReplaces, Replace, SameAttempts, Active
  <2> QED BY <1>1, <2>1
<1>7. ASSUME JournalAnswers PROVE QueueInv'
  <2>0. Answered /\ queue # <<>> /\ LeaveQueue /\ item' = item
    BY <1>7, Answering DEF JournalAnswers
  <2>1. /\ Len(queue') + 1 = Len(queue) /\ Len(queue') \in Nat
        /\ \A k \in 1..Len(queue') : k + 1 \in 1..Len(queue) /\ queue'[k] = queue[k + 1]
        /\ Turn = queue[1] /\ 1 \in 1..Len(queue)
    BY <2>0, Leaving, HeadOfQueue DEF JournalTyped
  <2>2. ASSUME NEW k \in 1..Len(queue'), NEW w, Hindered(k + 1, w) PROVE Hindered(k, w)'
    <3>1. PICK r \in Active :
            /\ w \in Owned(r.plan)
            /\ \A j \in 1..Len(queue) : (j < k + 1 /\ ~Approves(queue[j])) => queue[j].plan # r.plan
      BY <2>2 DEF Hindered
    <3>2. ~Approves(Turn) => Turn.plan # r.plan
      BY <2>1, <3>1
    <3>3. r \in Active'
      BY <2>0, <3>2, Answering
    <3>4. \A j \in 1..Len(queue') : (j < k /\ ~Approves(queue'[j])) => queue'[j].plan # r.plan
      <4> SUFFICES ASSUME NEW j \in 1..Len(queue'), j < k, ~Approves(queue'[j])
                   PROVE  queue'[j].plan # r.plan
        OBVIOUS
      <4>1. j + 1 < k + 1 /\ j + 1 \in 1..Len(queue) /\ queue'[j] = queue[j + 1]
        BY <2>1
      <4> QED BY <3>1, <4>1
    <3> QED BY <3>1, <3>3, <3>4 DEF Hindered
  <2>3. ASSUME NEW k \in 1..Len(queue'), Approves(queue'[k]), NEW w \in Node[queue'[k].plan]
        PROVE  /\ queue'[k].baselines[w] <= Len(item[w].by)
               /\ \A i \in DOMAIN item[w].by :
                    i > queue'[k].baselines[w] => item[w].by[i] = "elsewhere" \/ Hindered(k, w)'
    <3>1. k + 1 \in 1..Len(queue) /\ queue'[k] = queue[k + 1]
      BY <2>1
    <3>2. /\ queue[k + 1].baselines[w] <= Len(item[w].by)
          /\ \A i \in DOMAIN item[w].by :
                i > queue[k + 1].baselines[w] => item[w].by[i] = "elsewhere" \/ Hindered(k + 1, w)
      BY <2>3, <3>1 DEF QueueInv
    <3>3. Hindered(k + 1, w) => Hindered(k, w)'
      BY <2>2
    <3> QED BY <3>1, <3>2, <3>3
  <2> QED BY <2>0, <2>3 DEF QueueInv
<1>8. ASSUME Stop \/ Restart PROVE QueueInv'
  <2>1. queue' = <<>>
    BY <1>8, Opening DEF Stop
  <2>2. 1..Len(queue') = {}
    BY <2>1
  <2> QED BY <2>2 DEF QueueInv
<1>9. CASE Quiet /\ SameAttempts
    BY <1>1, <1>9, QuietJournal
<1> QED BY <1>3, <1>4, <1>5, <1>6, <1>7, <1>8, <1>9, QuietSteps, AttemptSteps

-----------------------------------------------------------------------------
(* The acceptances.                                                        *)

\* While the process runs a decision is taken once, and stands.
LEMMA Decisions ==
    ASSUME PlansAreWellFormed, TypeOK, Next, NEW v \in WorkItem
    PROVE  /\ up /\ IsAccepted(v) => IsAccepted(v)'
           /\ ~IsAccepted(v) /\ IsAccepted(v)' =>
                accepting[v] # None /\ accepting[v].verdict = "accepted"
<1>0. item \in [WorkItem -> Item] /\ None # "accepted"
    BY DEF TypeOK, PlansAreWellFormed
<1>1. CASE item'[v].decision = item[v].decision
    BY <1>1 DEF IsAccepted
<1>2. ASSUME NEW w \in WorkItem, RunStarts(w)
      PROVE  \/ item'[v].decision = item[v].decision
             \/ ~IsAccepted(v) /\ ~IsAccepted(v)'
  <2>1. run[w].by \in Starter /\ item[w] \in Item
    BY <1>2 DEF RunStarts, TypeOK, Run, Starter
  <2>2. item' = [item EXCEPT ![w] = WithAttempt(@, run[w].by, "running")] /\ ~IsAccepted(w)
    BY <1>2 DEF RunStarts
  <2> QED BY <1>0, <2>1, <2>2, NewAttempt DEF IsAccepted
<1>3. ASSUME NEW w \in WorkItem, RunEnds(w) PROVE item'[v].decision = item[v].decision
    BY <1>0, <1>3 DEF RunEnds, Item
<1>4. ASSUME NEW w \in WorkItem, DecisionIsWritten(w)
      PROVE  \/ item'[v].decision = item[v].decision
             \/ v = w /\ ~IsAccepted(v) /\ accepting[v] # None /\ item'[v].decision = accepting[v].verdict
  <2>1. item' = [item EXCEPT ![w].decision = accepting[w].verdict] /\ accepting[w] # None
    BY <1>4 DEF DecisionIsWritten
  <2>2. ~IsAccepted(w)
    BY <1>0, <1>4 DEF DecisionIsWritten, Decidable, IsAccepted
  <2> QED BY <1>0, <2>1, <2>2 DEF Item
<1>5. ASSUME NEW w \in WorkItem, ImportFacts(w)
      PROVE  ~up /\ (item'[v].decision = item[v].decision \/ ~IsAccepted(v)')
  <2>1. PICK gate \in {"open", "passed", "failed"} \ {item[w].gate} :
            item' = [item EXCEPT ![w].gate = gate,
                                ![w].decision = IF item[w].status = "completed" THEN None ELSE @]
    BY <1>5 DEF ImportFacts
  <2> DEFINE it == [item[w] EXCEPT !.gate = gate,
                                   !.decision = IF item[w].status = "completed" THEN None ELSE @]
  <2>2. it.decision \in {None, item[w].decision}
    BY <1>0 DEF Item
  <2>3. item' = [item EXCEPT ![w] = it]
    BY <1>0, <2>1
  <2> HIDE DEF it
  <2> QED BY <1>0, <1>5, <2>2, <2>3 DEF ImportFacts, IsAccepted
<1>6. ASSUME NEW w \in WorkItem, ImportAttempt(w)
      PROVE  ~up /\ (item'[v].decision = item[v].decision \/ ~IsAccepted(v)')
  <2>1. "elsewhere" \in Starter /\ item[w] \in Item
    BY <1>0 DEF Starter
  <2>2. ASSUME NEW status \in {"completed", "failed"},
               item' = [item EXCEPT ![w] = WithAttempt(@, "elsewhere", status)]
        PROVE  item'[v].decision = item[v].decision \/ ~IsAccepted(v)'
    <3>1. status \in Outcome \cup {"running"}
      BY DEF Outcome
    <3>2. WithAttempt(item[w], "elsewhere", status).decision = None
      BY <2>1, <3>1, NewAttempt
    <3> QED BY <1>0, <2>2, <3>2 DEF IsAccepted
  <2>3. ASSUME item' = [item EXCEPT ![w].by = Append(@, "elsewhere")]
        PROVE  item'[v].decision = item[v].decision
    BY <1>0, <2>3 DEF Item
  <2> QED BY <1>6, <2>2, <2>3 DEF ImportAttempt
<1>7. ASSUME Restart PROVE item'[v].decision = item[v].decision
    BY <1>0, <1>7 DEF Restart, Recovered, Item
<1>8. CASE item' = item
    BY <1>1, <1>8
<1> QED BY <1>1, <1>2, <1>3, <1>4, <1>5, <1>6, <1>7, <1>8
        DEF Next, Approve, Retire, RetireAgain, JournalReplaces, JournalAnswers, Dispatch,
            StartManualRun, RunNeverStarts, RunEndIsLost, DecideAcceptance, DecisionFails, Stop,
            IsAccepted

LEMMA NextOrderInv ==
    ASSUME PlansAreWellFormed, TypeOK, JournalInv, ClaimInv, OrderInv, Next
    PROVE  OrderInv'
<1> USE DEF JournalInv, ClaimInv
<1> DEFINE Awaited(w) == accepting[w] # None /\ accepting[w].verdict = "accepted"
<1>0. ASSUME NEW r, NEW w, r.plan \in Plan, up, Ordered(r, w) PROVE Ordered(r, w)'
  <2>1. /\ Node[r.plan] \subseteq WorkItem
        /\ w \in Node[r.plan] => DependsOn[r.plan][w] \subseteq WorkItem
    BY <1>0, OwnedItems DEF PlansAreWellFormed
  <2> QED BY <1>0, <2>1, Decisions DEF Ordered
<1>1. ASSUME up, \A w \in WorkItem : accepting'[w] \in {accepting[w], None}, Active' \subseteq Active
      PROVE  OrderInv'
  <2>1. \A r \in Active : r.plan \in Plan
    BY LiveRecords DEF Live
  <2>2. ASSUME NEW w \in WorkItem, accepting'[w] # None, accepting'[w].verdict = "accepted",
               NEW r \in Active'
        PROVE  Ordered(r, w)'
    BY <1>0, <1>1, <2>1, <2>2 DEF OrderInv
  <2> QED BY <2>2 DEF OrderInv
<1>2. ASSUME \A w \in WorkItem : accepting'[w] = None PROVE OrderInv'
    BY <1>2 DEF OrderInv
<1>3. ASSUME NEW p \in Plan, Approve(p) \/ Retire(p) \/ RetireAgain(p) PROVE OrderInv'
    BY <1>1, <1>3, Requesting
<1>4. ASSUME JournalReplaces PROVE OrderInv'
    BY <1>1, <1>4 DEF JournalReplaces, Replace, Active
<1>5. ASSUME JournalAnswers PROVE OrderInv'
  <2>0. Answered /\ UNCHANGED <<item, accepting>> /\ up /\ queue # <<>>
    BY <1>5, Answering DEF JournalAnswers
  <2>1. CASE Active' \subseteq Active
    BY <1>1, <2>0, <2>1
  <2>2. CASE ~(Active' \subseteq Active)
    <3>1. Approves(Turn) /\ Active' = Active \cup {Granted} /\ Granted.plan = Turn.plan
          /\ Turn.plan \in Plan
      BY <2>0, <2>2, Answering, GrantedRecord
    <3>2. Turn.plan \in approving
      BY <2>0, <3>1, HeadOfQueue DEF JournalTyped, BackedInv, Backed
    <3>3. \A w \in Owned(Turn.plan) : accepting[w] = None
      BY <3>1, <3>2, OwnedItems DEF ClaimsAreExclusive, ClaimedByApproval
    <3>4. ASSUME NEW w \in WorkItem, accepting[w] # None, accepting[w].verdict = "accepted",
                 NEW r \in Active'
          PROVE  Ordered(r, w)
      <4>1. CASE r \in Active
        BY <3>4, <4>1 DEF OrderInv
      <4>2. CASE r = Granted
        <5>1. w \notin Owned(r.plan)
          BY <3>1, <3>3, <3>4, <4>2
        <5> QED BY <5>1 DEF Ordered, Owned
      <4> QED BY <3>1, <4>1, <4>2
    <3> QED BY <2>0, <3>4 DEF OrderInv, Ordered, IsAccepted
  <2> QED BY <2>1, <2>2
<1>6. ASSUME NEW w \in WorkItem, NEW verdict \in {"accepted", "rejected"}, DecideAcceptance(w, verdict)
      PROVE  OrderInv'
  <2>1. /\ AcceptanceAllowed(w, verdict) /\ item' = item /\ Active' = Active
        /\ accepting' = [accepting EXCEPT ![w] = [verdict |-> verdict, page |-> Page(w)]]
        /\ accepting \in [WorkItem -> Review \cup {None}]
    BY <1>6 DEF DecideAcceptance, journal, Active, TypeOK
  <2>2. \A r \in Active : Ordered(r, w)
    BY <2>1 DEF AcceptanceAllowed, DependenciesAccepted, NodeAccepted, Ordered
  <2>3. ASSUME NEW v \in WorkItem, accepting'[v] # None, accepting'[v].verdict = "accepted",
               NEW r \in Active
        PROVE  Ordered(r, v)
    <3>1. CASE v = w
      BY <2>2, <3>1
    <3>2. CASE v # w
      BY <2>1, <2>3, <3>2 DEF OrderInv
    <3> QED BY <3>1, <3>2
  <2> QED BY <2>1, <2>3 DEF OrderInv, Ordered, IsAccepted
<1>7. ASSUME NEW w \in WorkItem, DecisionIsWritten(w) \/ DecisionFails(w) PROVE OrderInv'
  <2>1. /\ up /\ \A v \in WorkItem : accepting'[v] \in {accepting[v], None}
        /\ Active' = Active
    BY <1>7 DEF DecisionIsWritten, DecisionFails, TypeOK, journal, Active
  <2> QED BY <1>1, <2>1
<1>8. ASSUME NEW w \in WorkItem,
             \/ StartManualRun(w) \/ RunStarts(w) \/ RunNeverStarts(w) \/ RunEnds(w) \/ RunEndIsLost(w)
      PROVE  OrderInv'
  <2>1. up /\ accepting' = accepting /\ Active' = Active
    BY <1>8 DEF StartManualRun, RunStarts, RunNeverStarts, RunEnds, RunEndIsLost, journal, Active, Serving
  <2> QED BY <1>1, <2>1
<1>9. ASSUME NEW p \in Plan, NEW cooling, NEW started \in SUBSET WorkItem, Dispatch(p, cooling, started)
      PROVE  OrderInv'
    BY <1>1, <1>9, Dispatching, QuietJournal DEF Serving
<1>10. ASSUME NEW w \in WorkItem, ImportFacts(w) \/ ImportAttempt(w) PROVE OrderInv'
    BY <1>2, <1>10 DEF ImportFacts, ImportAttempt, NothingWhileDown
<1>11. ASSUME Stop \/ Restart PROVE OrderInv'
    BY <1>2, <1>11 DEF Stop, Restart, NothingWhileDown
<1> QED BY <1>3, <1>4, <1>5, <1>6, <1>7, <1>8, <1>9, <1>10, <1>11 DEF Next

-----------------------------------------------------------------------------
(* The theorems.                                                           *)

LEMMA Inductive ==
    Spec => []IInv
<1>0. PlansAreWellFormed
    BY PlanAssumption
<1>1. Init => IInv
    BY <1>0, InitIInv
<1>2. IInv /\ [Next]_vars => IInv'
  <2> SUFFICES ASSUME IInv, [Next]_vars PROVE IInv'
    OBVIOUS
  <2>1. CASE Next
    BY <1>0, <2>1, NextTypeOK, NextJournalInv, NextBackedInv, NextExclusive, NextRunInv, NextSlotInv,
       NextAttemptInv, NextCountInv, NextWindowInv, NextQueueInv, NextOrderInv DEF IInv, ClaimInv
  <2>2. CASE UNCHANGED vars
    <3>1. UNCHANGED <<records, retired, disk, queue, replaced, health, item, run, accepting>>
          /\ UNCHANGED <<approving, retiring, releasing, profile, up, restarts, requests>>
      BY <2>2 DEF vars, journal, claims, process
    <3>2. TypeOK' /\ JournalInv'
      BY <3>1 DEF IInv, TypeOK, JournalInv, JournalTyped, FileIsAhead, EnvelopeParses, Live,
                  Active, OnFile, Turn, Accepts, CanApprove, CanRetire, After, NothingWhileDown
    <3>3. ClaimInv' /\ RunInv' /\ SlotInv'
      BY <3>1 DEF IInv, ClaimInv, BackedInv, Backed, ActivePlans, Active, ClaimsAreExclusive,
                  ClaimedByApproval, ClaimedByRetirement, RunInv, Founds, Live, OnFile, SlotInv,
                  PlanRuns
    <3>4. AttemptInv' /\ CountInv' /\ WindowInv'
      BY <3>1 DEF IInv, AttemptInv, Founds, CountInv, AttemptsOf, WindowInv, Window, Live, Active,
                  OnFile
    <3>5. QueueInv' /\ OrderInv'
      BY <3>1 DEF IInv, QueueInv, Hindered, OrderInv, Ordered, IsAccepted, Active
    <3> QED BY <3>2, <3>3, <3>4, <3>5 DEF IInv
  <2> QED BY <2>1, <2>2
<1> QED BY <1>1, <1>2, PTL DEF Spec

\* The parameters are what they are taken for, in every state.
THEOREM DispatcherIsTyped ==
    Spec => []TypeOK
BY Inductive, PTL DEF IInv

\* PlansStayApart, for any plans: whatever is approved and retired, whichever
\* writes fail or end unknown, and whenever the process is restarted, no two
\* active plans own a work item, the file can be opened again, and what a plan
\* reads as attempts of its nodes is its own.
THEOREM PlansNeverMeet ==
    Spec => []PlansStayApart
<1>1. IInv => PlansStayApart
    BY DEF IInv, JournalInv, FileIsAhead, WindowInv, Live, PlansStayApart
<1> QED BY <1>1, Inductive, PTL

\* ClaimsAreExclusive, for any plans and any number of commands between their
\* check and their write: nobody decides about what a waiting approval or
\* retirement claims, no person runs what is being approved, nothing runs what is
\* being retired.  (An approval and a retirement may claim one item at once.)
THEOREM ClaimsHold ==
    Spec => []ClaimsAreExclusive
<1>1. IInv => ClaimsAreExclusive
    BY DEF IInv, ClaimInv
<1> QED BY <1>1, Inductive, PTL

\* RunsFollowPlans, for any limits: a node of an active plan is run by its plan
\* alone, and no plan exceeds its parallelism or its attempts.
THEOREM RunsHavePlans ==
    Spec => []RunsFollowPlans
<1>1. ASSUME IInv PROVE RunsFollowPlans
  <2> USE <1>1, PlanAssumption DEF IInv, JournalInv
  <2>1. ASSUME NEW p \in ActivePlans, NEW w \in RunsOf(p) PROVE run[w].by = p
    <3>1. PICK r \in Active : r.plan = p
      BY LiveRecords
    <3>2. w \in Node[p] /\ run[w] # None /\ w \in WorkItem /\ r \in Live
      BY <3>1, LiveRecords, OwnedItems DEF RunsOf, Live
    <3>3. run[w].by # "person"
      BY <3>1, <3>2 DEF RunInv
    <3>4. PICK s \in Active : s.plan = run[w].by /\ w \in Node[s.plan]
      BY <3>2, <3>3 DEF RunInv, Founds
    <3>5. r = s
      BY <3>1, <3>2, <3>4, OneOwner DEF Owned, Live
    <3> QED BY <3>1, <3>4, <3>5
  <2>2. \A w \in ActiveRuns : run[w].by # "person" => run[w].by \in ActivePlans
    BY DEF ActiveRuns, RunInv, ActivePlans, PlansIn
  <2>3. ASSUME NEW p \in Plan PROVE Cardinality({w \in RunsOf(p) : run[w].by = p}) <= MaxParallelism[p]
    <3>1. {w \in RunsOf(p) : run[w].by = p} = PlanRuns(p)
      BY DEF RunsOf, PlanRuns
    <3> QED BY <3>1 DEF SlotInv
  <2>4. \A p \in Plan : \A w \in Node[p] :
            Cardinality({i \in DOMAIN item[w].by : item[w].by[i] = p}) <= MaxAttempts[p]
    BY DEF CountInv, AttemptsOf
  <2> QED BY <2>1, <2>2, <2>3, <2>4 DEF RunsFollowPlans
<1> QED BY <1>1, Inductive, PTL

\* AcceptedInOrder, for any dependencies: between the check of an acceptance and
\* its write neither the plans nor what was accepted before it change.
THEOREM AcceptanceFollowsDependencies ==
    Spec => AcceptedInOrder
<1> DEFINE Step == \A w \in WorkItem : (~IsAccepted(w) /\ IsAccepted(w)') =>
            \A r \in Active :
                /\ w \in Node[r.plan] => \A d \in DependsOn[r.plan][w] : IsAccepted(d)
                /\ w = Root[r.plan] => \A n \in Node[r.plan] : IsAccepted(n)
<1>1. IInv /\ [Next]_vars => [Step]_vars
  <2> SUFFICES ASSUME IInv, Next PROVE Step
    OBVIOUS
  <2> QED BY PlanAssumption, Decisions DEF IInv, OrderInv, Ordered
<1> QED BY <1>1, Inductive, PTL DEF Spec, AcceptedInOrder
=============================================================================
