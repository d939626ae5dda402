----------------------- MODULE LinearTransitionProofs -----------------------
(***************************************************************************)
(* However often a decision is delivered, and by whichever coordinators,   *)
(* its issue is updated at most once, and the records tell the truth.       *)
(*                                                                         *)
(* Neither is inductive.  What a request carries was computed from a record *)
(* that may have been overtaken; the invariant says what its next record   *)
(* would mean if it still fits.  A record fits only as the successor of the *)
(* one on disk, so "submitting" fits only where "approved" still stands,    *)
(* and an operation past its decision never returns (Follows, Spent).       *)
(*                                                                         *)
(* The truth of a record rests on the issue's revisions: an issue that is   *)
(* still at the planned revision is still ready (Reached), so one that is   *)
(* done has moved on.                                                      *)
(***************************************************************************)
EXTENDS LinearTransition, FiniteSetTheorems, TLAPS

\* The operation has left the statuses in which nothing was sent.
Spent(o) == disk[o] # None /\ disk[o].status \notin Undecided

\* The issue was ready at the planned revision, and revisions only grow.
Reached(o, plan) ==
    /\ Issue(o).revision >= plan
    /\ Issue(o).revision = plan => Issue(o).state = "ready"

\* A record that exists or may come to exist tells the truth.
Tells(o, record) ==
    /\ record \in Record /\ record.version >= 1
    /\ Reached(o, record.plan)
    /\ record.status = "failed" => sent[o] = "lost"
    /\ record.status \in {"transitioned", "reconciled"} => Issue(o).revision > record.plan

\* It was computed from a record of the operation, or from none: if that record
\* is still the last one, it allowed it.
Follows(o, record) ==
    /\ record.version <= VersionOf(disk[o]) + 1
    /\ (/\ record.version = VersionOf(disk[o]) + 1
        /\ record.status \in Undecided \cup {"submitting"}) => ~Spent(o)

\* What a request carries at each position.
Good(c) ==
    /\ c \in Call
    /\ c.at # "idle" => c.goal \in {"serve", "prepare", "approve", "submit", "get", "reconcile"}
    /\ c.at \in {"open", "recover"} /\ c.goal # "serve" => c.op \in Operation
    /\ c.at \in {"command", "source", "called", "readback", "query"} => c.op \in Operation
    /\ c.at \notin {"idle", "open"} => c.on \in Coordinator
    /\ c.at = "source" =>
        /\ c.next \in Record /\ c.next.version >= 1 /\ Follows(c.op, c.next)
        /\ c.next.plan = c.plan
        /\ c.next.status \in {"approval_required", "submitting"}
        /\ c.goal = "submit" => c.next.status = "submitting"
    /\ c.at = "append" =>
        /\ c.stage \in {"recover", "prepare", "approve", "begin", "result"}
        /\ c.target \in Operation
        /\ Tells(c.target, c.next) /\ Follows(c.target, c.next)
        /\ c.stage = "recover" => c.goal = "serve" \/ c.op \in Operation
        /\ c.stage # "recover" => c.op \in Operation
        /\ c.stage = "begin" =>
            /\ c.target = c.op /\ c.next.plan = c.plan
            /\ c.next.status \in Interrupted
            /\ c.goal = "submit" => c.next.status = "submitting"
    /\ c.at \in {"called", "readback", "query"} =>
        /\ Tells(c.op, c.next)
        /\ c.next.plan = c.plan
        /\ c.next.version <= VersionOf(disk[c.op])

\* What is on disk is true.
Told == \A o \in Operation : disk[o] # None => Tells(o, disk[o])

\* Nothing was sent before the record said so.
SentIsRecorded ==
    \A o \in Operation :
        /\ sent[o] = "none" \/ Spent(o)
        /\ updates[o] = 0 \/ (updates[o] = 1 /\ Spent(o))

Landed == {o \in Operation : sent[o] = "landed"}

\* Revisions stay within the plans.
Within == \A w \in WorkItem : remote[w].revision <= MaxDrift + Cardinality(Landed)

IInv ==
    /\ TypeOK
    /\ Within
    /\ Told
    /\ SentIsRecorded
    /\ \A r \in Request : Good(call[r])

-----------------------------------------------------------------------------
(* Records and calls.                                                      *)

\* What a transition makes of a record: its successor, of the same plan.
LEMMA MovedIsRecord ==
    ASSUME NEW record \in Record, NEW status \in Status
    PROVE  /\ Moved(record, status) \in Record
           /\ Moved(record, status).version = record.version + 1
           /\ Moved(record, status).status = status
           /\ Moved(record, status).plan = record.plan
    BY DEF Moved, Successor, Record

LEMMA DecidedIsRecord ==
    ASSUME NEW record \in Record, NEW plan \in Plan
    PROVE  /\ Decided(record, "approved", plan) \in Record
           /\ Decided(record, "approved", plan).version = record.version + 1
           /\ Decided(record, "approved", plan).status = "approved"
           /\ Decided(record, "approved", plan).plan = record.plan
<1>1. "approved" \in Status /\ [decision |-> "approved", plan |-> plan] \in Approval
    BY DEF Status, Undecided, Approval
<1> QED BY <1>1 DEF Decided, Successor, Record

LEMMA PreparedIsRecord ==
    ASSUME NEW plan \in Plan
    PROVE  /\ Prepared(plan) \in Record /\ Prepared(plan).version = 1
           /\ Prepared(plan).status = "approval_required" /\ Prepared(plan).plan = plan
    BY DEF Prepared, Record, Status, Undecided

LEMMA RecordsHavePlans ==
    ASSUME RevisionsArePlans, NEW record \in Record
    PROVE  /\ record.version \in Nat /\ record.plan \in Plan /\ record.plan \in Nat
           /\ record.status \in Status /\ record # None
    BY NoRecordAssumption DEF Record, RevisionsArePlans

\* The version on disk is a number.
LEMMA VersionIsNat ==
    ASSUME TypeOK, NEW o \in Operation
    PROVE  /\ VersionOf(disk[o]) \in Nat
           /\ disk[o] # None => disk[o] \in Record /\ VersionOf(disk[o]) = disk[o].version
<1>1. disk[o] \in Record \cup {None}
    BY DEF TypeOK, JournalTypeOK, File
<1> QED BY <1>1 DEF VersionOf, Record

LEMMA IdleIsGood ==
    Good(Idle)
    BY DEF Good, Idle, Call

\* A request that reaches an append.
LEMMA AppendingIsGood ==
    ASSUME NEW c \in Call, NEW stage \in {"recover", "prepare", "approve", "begin", "result"},
           NEW o \in Operation, NEW next \in Record,
           c.goal \in {"serve", "prepare", "approve", "submit", "get", "reconcile"},
           c.on \in Coordinator,
           Tells(o, next), Follows(o, next),
           stage = "recover" => c.goal = "serve" \/ c.op \in Operation,
           stage # "recover" => c.op \in Operation,
           stage = "begin" =>
               /\ o = c.op /\ next.plan = c.plan /\ next.status \in Interrupted
               /\ c.goal = "submit" => next.status = "submitting"
    PROVE  Good(Appending(c, stage, o, next))
<1> DEFINE x == Appending(c, stage, o, next)
<1>1. /\ x \in Call /\ x.at = "append" /\ x.stage = stage /\ x.target = o /\ x.next = next
      /\ x.goal = c.goal /\ x.op = c.op /\ x.plan = c.plan /\ x.on = c.on
    BY DEF Appending, Call
<1> HIDE DEF x
<1> QED BY <1>1 DEF Good, x

\* A request that goes on to another command, or to open a coordinator for it.
LEMMA TowardIsGood ==
    ASSUME NEW c \in Call, NEW goal \in {"prepare", "approve", "submit", "get", "reconcile"},
           NEW binding \in [Operation -> Coordinator \cup {None}], c.op \in Operation
    PROVE  Good(Toward(c, goal, binding))
<1> DEFINE k  == binding[c.op]
           at == IF k = None THEN "open" ELSE "command"
           x  == [c EXCEPT !.goal = goal, !.stage = None, !.target = None, !.next = None,
                           !.on = k, !.at = at]
<1>1. k \in Coordinator \cup {None} /\ (at = "open" \/ (at = "command" /\ k \in Coordinator))
    OBVIOUS
<1>2. Toward(c, goal, binding) = x
    BY Zenon DEF Toward
<1> HIDE DEF k, at
<1>3. /\ x \in Call /\ x.op = c.op /\ x.goal = goal /\ x.on = k /\ x.at = at
    BY <1>1 DEF Call
<1> HIDE DEF x
<1> QED BY <1>1, <1>2, <1>3 DEF Good

-----------------------------------------------------------------------------
(* What a request carries stays good while the others go on.               *)

\* Records follow one another, what is lost stays lost, revisions grow.
Advances ==
    /\ \A o \in Operation :
        /\ disk'[o] = disk[o] \/ VersionOf(disk'[o]) = VersionOf(disk[o]) + 1
        /\ sent[o] = "lost" => sent'[o] = "lost"
    /\ \A w \in WorkItem :
        remote'[w] = remote[w] \/ remote'[w].revision = remote[w].revision + 1

LEMMA TellsStays ==
    ASSUME RevisionsArePlans, TypeOK, Advances, NEW o \in Operation, NEW record, Tells(o, record)
    PROVE  Tells(o, record)'
<1>1. ItemOf[o] \in WorkItem /\ Issue(o).revision \in Nat
    BY DEF RevisionsArePlans, TypeOK, Issue
<1>2. Issue(o)' = Issue(o) \/ Issue(o)'.revision = Issue(o).revision + 1
    BY <1>1 DEF Advances, Issue
<1>3. record \in Record /\ record.plan \in Nat
    BY RecordsHavePlans DEF Tells
<1>4. CASE Issue(o)' = Issue(o)
    BY <1>4 DEF Tells, Reached, Advances
<1>5. CASE Issue(o)'.revision = Issue(o).revision + 1
    BY <1>1, <1>3, <1>5 DEF Tells, Reached, Advances
<1> QED BY <1>2, <1>4, <1>5

LEMMA FollowsStays ==
    ASSUME TypeOK, Advances, NEW o \in Operation, NEW record \in Record, Follows(o, record)
    PROVE  Follows(o, record)'
<1>1. VersionOf(disk[o]) \in Nat /\ record.version \in Nat
    BY VersionIsNat DEF Record
<1>2. CASE disk'[o] = disk[o]
    BY <1>2 DEF Follows, Spent, VersionOf
<1>3. CASE VersionOf(disk'[o]) = VersionOf(disk[o]) + 1
    BY <1>1, <1>3 DEF Follows, VersionOf
<1> QED BY <1>2, <1>3 DEF Advances

LEMMA GoodStays ==
    ASSUME RevisionsArePlans, TypeOK, Advances, NEW c, Good(c)
    PROVE  Good(c)'
<1>1. CASE c.at = "source"
    BY <1>1, FollowsStays DEF Good
<1>2. CASE c.at = "append"
    <2>1. Tells(c.target, c.next)' /\ Follows(c.target, c.next)'
        BY <1>2, TellsStays, FollowsStays DEF Good, Tells
    <2> QED BY <1>2, <2>1 DEF Good
<1>3. CASE c.at \in {"called", "readback", "query"}
    <2>1. c.op \in Operation /\ c.next \in Record /\ c.next.version \in Nat
        BY <1>3 DEF Good, Tells, Record
    <2>2. Tells(c.op, c.next)'
        BY <1>3, <2>1, TellsStays DEF Good
    <2>3. c.next.version <= VersionOf(disk'[c.op])
        BY <1>3, <2>1, VersionIsNat DEF Good, Advances
    <2>4. c.next.version <= VersionOf(disk[c.op])'
        BY <2>3 DEF VersionOf
    <2> QED BY <1>3, <2>1, <2>2, <2>4 DEF Good
<1>4. CASE c.at \notin {"source", "append", "called", "readback", "query"}
    BY <1>4 DEF Good
<1> QED BY <1>1, <1>2, <1>3, <1>4

\* So do the requests that do not move.
LEMMA OthersStay ==
    ASSUME RevisionsArePlans, TypeOK, Advances,
           NEW q \in Request, Good(call[q]), call'[q] = call[q]
    PROVE  Good(call[q])'
<1>1. PICK c : c = call[q]
    OBVIOUS
<1>2. Good(c)'
    BY <1>1, GoodStays
<1> QED BY <1>1, <1>2 DEF Good, Tells, Follows

\* A request goes on, and nothing else that the invariant is about changes.
LEMMA GoesKeeps ==
    ASSUME RevisionsArePlans, IInv, NEW r \in Request, NEW c, Good(c), Goes(r, c),
           UNCHANGED <<disk, remote, sent, updates>>
    PROVE  /\ call' \in [Request -> Call]
           /\ Within' /\ Told' /\ SentIsRecorded'
           /\ \A q \in Request : Good(call[q])'
<1>1. Advances
    BY DEF Advances
<1>2. c \in Call /\ call \in [Request -> Call]
    BY DEF Good, IInv, TypeOK
<1>3. call' \in [Request -> Call] /\ call'[r] = c /\ \A q \in Request \ {r} : call'[q] = call[q]
    BY <1>2 DEF Goes
<1>4. Good(call[r])'
    BY <1>1, <1>3, GoodStays DEF IInv, Good, Tells, Follows
<1>5. \A q \in Request \ {r} : Good(call[q])'
    BY <1>1, <1>3, OthersStay DEF IInv
<1>6. Within' /\ Told' /\ SentIsRecorded'
    BY DEF IInv, Within, Landed, Told, SentIsRecorded, Tells, Reached, Issue, Spent
<1> QED BY <1>3, <1>4, <1>5, <1>6

-----------------------------------------------------------------------------
(* Commands up to their first append or call.                              *)

\* The commands that append nothing and call nobody leave the rest as typed.
LEMMA KeepsTypes ==
    ASSUME IInv, Keeps, call' \in [Request -> Call],
           mode' \in {"closed", "opening", "open"},
           bound' \in [Operation -> Coordinator \cup {None}], fenced' \subseteq Coordinator
    PROVE  TypeOK'
    BY DEF IInv, TypeOK, JournalTypeOK, Keeps, journalVars, localVars, remoteVars

LEMMA CallIsGood ==
    ASSUME IInv, NEW r \in Request
    PROVE  Good(call[r]) /\ call[r] \in Call
    BY DEF IInv, Good

\* However it ends, the coordinator it used is forgotten or stays one.
LEMMA EndsKeeps ==
    ASSUME IInv, NEW r \in Request, NEW now \in SUBSET Coordinator, EndsWith(r, now)
    PROVE  /\ Goes(r, Idle) /\ Good(Idle)
           /\ mode' \in {"closed", "opening", "open"}
           /\ bound' \in [Operation -> Coordinator \cup {None}] /\ fenced' \subseteq Coordinator
<1>1. bound' \in [Operation -> Coordinator \cup {None}]
    BY DEF EndsWith, Unbound, IInv, TypeOK
<1> QED BY <1>1, IdleIsGood DEF EndsWith, IInv, TypeOK

LEMMA Fencing ==
    ASSUME IInv, NEW r \in Request, call[r].at \notin {"idle", "open"}
    PROVE  fenced \in SUBSET Coordinator /\ fenced \cup {call[r].on} \in SUBSET Coordinator
    BY CallIsGood DEF IInv, TypeOK, Good

\* A record on disk that a command may move on.
LEMMA MovesOn ==
    ASSUME RevisionsArePlans, IInv, NEW o \in Operation, disk[o] # None, NEW status \in Status,
           status \in {"submitting"} \cup Undecided => disk[o].status \in Undecided,
           status \notin {"failed", "transitioned", "reconciled"}
    PROVE  /\ Tells(o, Moved(disk[o], status)) /\ Follows(o, Moved(disk[o], status))
           /\ Moved(disk[o], status).status = status /\ Moved(disk[o], status).plan = disk[o].plan
<1> DEFINE x == Moved(disk[o], status)
<1>1. /\ disk[o] \in Record /\ VersionOf(disk[o]) = disk[o].version
      /\ disk[o].version \in Nat /\ Tells(o, disk[o])
    BY VersionIsNat DEF IInv, Told, Record
<1>2. /\ x \in Record /\ x.version = disk[o].version + 1
      /\ x.status = status /\ x.plan = disk[o].plan
    BY <1>1, MovedIsRecord
<1> HIDE DEF x
<1>3. Tells(o, x)
    BY <1>1, <1>2 DEF Tells
<1>4. Follows(o, x)
    BY <1>1, <1>2 DEF Follows, Spent
<1> QED BY <1>2, <1>3, <1>4 DEF x

LEMMA CommandKeeps ==
    ASSUME RevisionsArePlans, IInv, NEW r \in Request, NEW c, Good(c), Goes(r, c), Keeps,
           mode' \in {"closed", "opening", "open"},
           bound' \in [Operation -> Coordinator \cup {None}], fenced' \subseteq Coordinator
    PROVE  IInv'
<1>1. UNCHANGED <<disk, remote, sent, updates>>
    BY DEF Keeps, journalVars, remoteVars
<1>2. /\ call' \in [Request -> Call]
      /\ Within' /\ Told' /\ SentIsRecorded'
      /\ \A q \in Request : Good(call[q])'
    BY <1>1, GoesKeeps
<1> QED BY <1>2, KeepsTypes DEF IInv

\* Most commands bind nothing.
LEMMA PlainCommandKeeps ==
    ASSUME RevisionsArePlans, IInv, NEW r \in Request, NEW c, Good(c), Goes(r, c), Keeps,
           UNCHANGED <<mode, bound, fenced>>
    PROVE  IInv'
    BY CommandKeeps DEF IInv, TypeOK

LEMMA OpenKeeps ==
    ASSUME RevisionsArePlans, IInv, NEW r \in Request, Open(r)
    PROVE  IInv'
<1>1. PICK k \in Coordinator :
        /\ fenced' = fenced \ {k}
        /\ Goes(r, [call[r] EXCEPT !.at = "recover", !.on = k,
                                   !.todo = {o \in Operation : Interrupted3(o)}])
    BY DEF Open
<1> DEFINE todo == {o \in Operation : Interrupted3(o)}
           x == [call[r] EXCEPT !.at = "recover", !.on = k, !.todo = todo]
<1>2. todo \in SUBSET Operation
    OBVIOUS
<1> HIDE DEF todo
<1>3. /\ x \in Call /\ x.at = "recover" /\ x.on = k
      /\ x.goal = call[r].goal /\ x.op = call[r].op
    BY <1>2, CallIsGood DEF Call
<1> HIDE DEF x
<1>4. Good(x)
    BY <1>3, CallIsGood DEF Open, Good
<1> QED BY <1>1, <1>4, CommandKeeps DEF x, todo, Open, Keeps, IInv, TypeOK

LEMMA RecoverKeeps ==
    ASSUME RevisionsArePlans, IInv, NEW r \in Request, Recover(r)
    PROVE  IInv'
<1>1. Good(call[r]) /\ call[r] \in Call /\ call[r].at = "recover" /\ call[r].on \in Coordinator
    BY CallIsGood DEF Good, Recover
<1>2. PICK o \in call[r].todo :
        Goes(r, IF Interrupted3(o)
                THEN Appending(call[r], "recover", o, Recovered(disk[o]))
                ELSE [call[r] EXCEPT !.todo = @ \ {o}])
    BY DEF Recover
<1>3. o \in Operation
    BY <1>1 DEF Call
<1>4. CASE Interrupted3(o)
    <2>1. /\ disk[o] # None /\ disk[o] \in Record
          /\ "outcome_unknown" \in Status
          /\ "outcome_unknown" \notin {"submitting"} \cup Undecided
        BY <1>3, <1>4, VersionIsNat DEF IInv, Interrupted3, Status, Unresolved, Undecided
    <2>2. Tells(o, Recovered(disk[o])) /\ Follows(o, Recovered(disk[o]))
        BY <1>3, <2>1, MovesOn DEF Recovered
    <2>3. Good(Appending(call[r], "recover", o, Recovered(disk[o])))
        BY <1>1, <1>3, <2>2, AppendingIsGood DEF Good, Tells
    <2> QED BY <1>2, <1>4, <2>3, PlainCommandKeeps DEF Recover, Keeps
<1>5. CASE ~Interrupted3(o)
    <2> DEFINE x == [call[r] EXCEPT !.todo = @ \ {o}]
    <2>1. x \in Call /\ x.at = "recover" /\ x.goal = call[r].goal /\ x.op = call[r].op /\ x.on = call[r].on
        BY <1>1 DEF Call
    <2>2. Goes(r, x)
        BY <1>2, <1>5
    <2> HIDE DEF x
    <2>3. Good(x)
        BY <1>1, <2>1 DEF Good
    <2> QED BY <2>2, <2>3, PlainCommandKeeps DEF Recover, Keeps
<1> QED BY <1>4, <1>5

LEMMA OpenedKeeps ==
    ASSUME RevisionsArePlans, IInv, NEW r \in Request, Opened(r)
    PROVE  IInv'
<1>1. Good(call[r]) /\ call[r] \in Call /\ call[r].at = "recover" /\ call[r].on \in Coordinator
    BY CallIsGood DEF Good, Opened
<1>2. Keeps /\ UNCHANGED fenced
    BY DEF Opened, Keeps
<1>3. CASE call[r].goal = "serve"
    <2>1. Goes(r, Idle) /\ UNCHANGED bound /\ mode' = "open"
        BY <1>3 DEF Opened
    <2> QED BY <1>2, <2>1, IdleIsGood, CommandKeeps DEF IInv, TypeOK
<1>4. CASE call[r].goal # "serve"
    <2> DEFINE x == [call[r] EXCEPT !.at = "command", !.stage = None]
    <2>1. /\ x \in Call /\ x.at = "command" /\ x.goal = call[r].goal
          /\ x.op = call[r].op /\ x.on = call[r].on
        BY <1>1 DEF Call
    <2>2. Goes(r, x) /\ UNCHANGED mode
        BY <1>4 DEF Opened
    <2> HIDE DEF x
    <2>3. Good(x)
        BY <1>1, <1>4, <2>1 DEF Good
    <2>4. bound' \in [Operation -> Coordinator \cup {None}]
        BY <1>1, <1>4 DEF Opened, IInv, TypeOK
    <2> QED BY <1>2, <2>2, <2>3, <2>4, CommandKeeps DEF IInv, TypeOK
<1> QED BY <1>3, <1>4

LEMMA PrepareKeeps ==
    ASSUME RevisionsArePlans, IInv, NEW r \in Request, Prepare(r)
    PROVE  IInv'
<1> DEFINE plan == observed[ItemOf[call[r].op]]
           c == [call[r] EXCEPT !.plan = plan]
           o == call[r].op
<1>1. /\ Good(call[r]) /\ call[r] \in Call /\ call[r].at = "command"
      /\ call[r].goal = "prepare" /\ call[r].on \in Coordinator /\ o \in Operation
    BY CallIsGood DEF Good, Prepare, Begins
<1>2. plan \in Plan
    BY <1>1 DEF IInv, TypeOK, RevisionsArePlans
<1>3. \/ /\ disk[c.op] = None
         /\ Goes(r, [c EXCEPT !.at = "source", !.next = Prepared(c.plan)])
         /\ UNCHANGED bound
      \/ /\ Bind(r)
         /\ Goes(r, Toward(c, "approve", bound'))
    BY DEF Prepare
<1>4. Keeps /\ UNCHANGED <<mode, fenced>>
    BY DEF Prepare
<1> HIDE DEF plan
<1>5. c \in Call /\ c.op = o /\ c.plan = plan /\ c.goal = "prepare" /\ c.on = call[r].on
    BY <1>1, <1>2 DEF Call
<1> HIDE DEF c, o
<1>6. CASE /\ disk[c.op] = None
           /\ Goes(r, [c EXCEPT !.at = "source", !.next = Prepared(c.plan)])
           /\ UNCHANGED bound
    <2> DEFINE next == Prepared(plan)
               x == [c EXCEPT !.at = "source", !.next = next]
    <2>1. /\ next \in Record /\ next.version = 1
          /\ next.status = "approval_required" /\ next.plan = plan
        BY <1>2, PreparedIsRecord
    <2>2. Goes(r, x)
        BY <1>5, <1>6
    <2> HIDE DEF next
    <2>3. /\ x \in Call /\ x.at = "source" /\ x.next = next
          /\ x.op = o /\ x.plan = plan /\ x.goal = "prepare" /\ x.on = call[r].on
        BY <1>5, <2>1 DEF Call
    <2> HIDE DEF x
    <2>4. Follows(o, next)
        BY <1>5, <1>6, <2>1 DEF Follows, Spent, VersionOf
    <2>5. Good(x)
        BY <1>1, <2>1, <2>3, <2>4 DEF Good
    <2> QED BY <1>4, <1>6, <2>2, <2>5, PlainCommandKeeps
<1>7. CASE Bind(r) /\ Goes(r, Toward(c, "approve", bound'))
    <2>1. bound' \in [Operation -> Coordinator \cup {None}]
        BY <1>1, <1>7 DEF Bind, IInv, TypeOK
    <2>2. Good(Toward(c, "approve", bound'))
        BY <1>1, <1>5, <2>1, TowardIsGood
    <2> QED BY <1>4, <1>7, <2>1, <2>2, CommandKeeps DEF IInv, TypeOK
<1> QED BY <1>3, <1>6, <1>7

LEMMA ApproveKeeps ==
    ASSUME RevisionsArePlans, IInv, NEW r \in Request, Approve(r)
    PROVE  IInv'
<1> DEFINE c == call[r]
           o == c.op
           next == Decided(disk[o], "approved", c.plan)
<1>1. /\ Good(c) /\ c \in Call /\ c.at = "command" /\ c.goal = "approve"
      /\ c.on \in Coordinator /\ o \in Operation
      /\ disk[o] # None /\ disk[o].plan = c.plan
    BY CallIsGood DEF Good, Approve, Begins, HasCurrent
<1>2. /\ disk[o] \in Record /\ VersionOf(disk[o]) = disk[o].version /\ Tells(o, disk[o])
    BY <1>1, VersionIsNat DEF IInv, Told
<1>3. Keeps /\ UNCHANGED <<mode, bound, fenced>>
    BY DEF Approve
<1>4. CASE Goes(r, Toward(c, "submit", bound))
    <2>1. Good(Toward(c, "submit", bound))
        BY <1>1, TowardIsGood DEF IInv, TypeOK
    <2> QED BY <1>3, <1>4, <2>1, PlainCommandKeeps
<1>5. CASE /\ disk[o].status = "approval_required"
           /\ Goes(r, Appending(c, "approve", o, next))
    <2>1. /\ next \in Record /\ next.version = disk[o].version + 1
          /\ next.status = "approved" /\ next.plan = disk[o].plan
        BY <1>1, <1>2, RecordsHavePlans, DecidedIsRecord
    <2> HIDE DEF next
    <2>2. Tells(o, next) /\ Follows(o, next)
        BY <1>2, <1>5, <2>1, RecordsHavePlans DEF Tells, Follows, Spent, Undecided
    <2>3. Good(Appending(c, "approve", o, next))
        BY <1>1, <2>1, <2>2, AppendingIsGood
    <2> QED BY <1>3, <1>5, <2>3, PlainCommandKeeps
<1> QED BY <1>4, <1>5 DEF Approve

LEMMA SubmitKeeps ==
    ASSUME RevisionsArePlans, IInv, NEW r \in Request, Submit(r)
    PROVE  IInv'
<1> DEFINE c == call[r]
           o == c.op
           next == Moved(disk[o], "submitting")
           x == [c EXCEPT !.at = "source", !.next = next]
<1>1. /\ Good(c) /\ c \in Call /\ c.at = "command" /\ c.goal = "submit"
      /\ c.on \in Coordinator /\ o \in Operation
      /\ disk[o] # None /\ disk[o].plan = c.plan /\ disk[o].status = "approved"
    BY CallIsGood DEF Good, Submit, Begins, HasCurrent
<1>2. /\ Tells(o, next) /\ Follows(o, next)
      /\ next.status = "submitting" /\ next.plan = c.plan
    BY <1>1, MovesOn DEF Status, Interrupted, Undecided
<1>3. Goes(r, x) /\ Keeps /\ UNCHANGED <<mode, bound, fenced>>
    BY DEF Submit
<1> HIDE DEF next
<1>4. /\ x \in Call /\ x.at = "source" /\ x.next = next
      /\ x.op = o /\ x.plan = c.plan /\ x.goal = "submit" /\ x.on = c.on
    BY <1>1, <1>2 DEF Call, Tells
<1> HIDE DEF x
<1>5. Good(x)
    BY <1>1, <1>2, <1>4 DEF Good, Tells
<1> QED BY <1>3, <1>5, PlainCommandKeeps

LEMMA GetKeeps ==
    ASSUME RevisionsArePlans, IInv, NEW r \in Request, Get(r)
    PROVE  IInv'
<1> DEFINE plan == disk[call[r].op].plan
           c == [call[r] EXCEPT !.plan = plan]
<1>1. /\ Good(call[r]) /\ call[r] \in Call /\ call[r].op \in Operation
      /\ disk[call[r].op] # None
    BY CallIsGood DEF Good, Get, Begins
<1>2. plan \in Plan
    BY <1>1, VersionIsNat, RecordsHavePlans DEF IInv
<1>3. Goes(r, Toward(c, "reconcile", bound)) /\ Keeps /\ UNCHANGED <<mode, bound, fenced>>
    BY DEF Get
<1> HIDE DEF plan
<1>4. c \in Call /\ c.op = call[r].op
    BY <1>1, <1>2 DEF Call
<1> HIDE DEF c
<1>5. Good(Toward(c, "reconcile", bound))
    BY <1>1, <1>4, TowardIsGood DEF IInv, TypeOK
<1> QED BY <1>3, <1>5, PlainCommandKeeps

LEMMA ReconcileKeeps ==
    ASSUME RevisionsArePlans, IInv, NEW r \in Request, Reconcile(r)
    PROVE  IInv'
<1> DEFINE c == call[r]
           o == c.op
           next == Moved(disk[o], "reconciling")
<1>1. /\ Good(c) /\ c \in Call /\ c.at = "command" /\ c.goal = "reconcile"
      /\ c.on \in Coordinator /\ o \in Operation
      /\ disk[o] # None /\ disk[o].plan = c.plan
    BY CallIsGood DEF Good, Reconcile, Begins, HasCurrent
<1>2. /\ Tells(o, next) /\ Follows(o, next)
      /\ next.status = "reconciling" /\ next.plan = c.plan
    BY <1>1, MovesOn DEF Status, Interrupted, Undecided
<1>3. /\ Goes(r, Appending(c, "begin", o, next)) /\ Keeps /\ UNCHANGED <<mode, bound, fenced>>
    BY DEF Reconcile
<1> HIDE DEF next
<1>4. Good(Appending(c, "begin", o, next))
    BY <1>1, <1>2, AppendingIsGood DEF Tells, Interrupted
<1> QED BY <1>3, <1>4, PlainCommandKeeps

\* Only an issue that is at the plan, and ready, is planned or updated.
LEMMA SourceKeeps ==
    ASSUME RevisionsArePlans, IInv, NEW r \in Request, Source(r)
    PROVE  IInv'
<1> DEFINE c == call[r]
           stage == IF c.goal = "submit" THEN "begin" ELSE "prepare"
<1>1. /\ Good(c) /\ c \in Call /\ c.at = "source"
      /\ c.on \in Coordinator /\ c.op \in Operation
      /\ c.goal \in {"serve", "prepare", "approve", "submit", "get", "reconcile"}
      /\ c.next \in Record /\ c.next.version >= 1 /\ Follows(c.op, c.next)
      /\ c.next.plan = c.plan
      /\ c.next.status \in {"approval_required", "submitting"}
      /\ c.goal = "submit" => c.next.status = "submitting"
    BY CallIsGood DEF Good, Source
<1>2. Reached(c.op, c.next.plan)
    BY <1>1, RecordsHavePlans DEF Source, MatchesSource, Reached
<1>3. Tells(c.op, c.next)
    BY <1>1, <1>2 DEF Tells
<1>4. stage \in {"prepare", "begin"} /\ (stage = "begin" => c.goal = "submit")
    OBVIOUS
<1>5. /\ Goes(r, Appending(c, stage, c.op, c.next)) /\ Keeps /\ UNCHANGED <<mode, bound, fenced>>
    BY DEF Source
<1> HIDE DEF stage, c
<1>6. Good(Appending(c, stage, c.op, c.next))
    BY <1>1, <1>3, <1>4, AppendingIsGood DEF Interrupted
<1> QED BY <1>5, <1>6, PlainCommandKeeps

\* Everything that ends a request without an append.
LEMMA EndingKeeps ==
    ASSUME RevisionsArePlans, IInv, NEW r \in Request, NEW now \in SUBSET Coordinator,
           EndsWith(r, now), Keeps
    PROVE  IInv'
    BY EndsKeeps, CommandKeeps

LEMMA DeclinesKeeps ==
    ASSUME RevisionsArePlans, IInv, NEW r \in Request,
           Declines(r) \/ FindsInterrupted(r) \/ AppendFails(r)
    PROVE  IInv'
<1>1. fenced \in SUBSET Coordinator
    BY DEF IInv, TypeOK
<1>2. Keeps /\ (Ends(r) \/ (call[r].at \in {"command", "append"} /\ EndsFenced(r)))
    BY DEF Declines, FindsInterrupted, Begins, AppendFails
<1>3. CASE Ends(r)
    BY <1>1, <1>2, <1>3, EndingKeeps DEF Ends
<1>4. CASE call[r].at \in {"command", "append"} /\ EndsFenced(r)
    BY <1>2, <1>4, Fencing, EndingKeeps DEF EndsFenced
<1> QED BY <1>2, <1>3, <1>4

-----------------------------------------------------------------------------
(* The provider's answers.                                                 *)

\* The result of a call is the record that a request appends next.
LEMMA ResultIsGood ==
    ASSUME RevisionsArePlans, IInv, NEW r \in Request,
           call[r].at \in {"called", "readback", "query"},
           NEW status \in {"failed", "outcome_unknown", "transitioned", "reconciled",
                           "reconciliation_absent"},
           status = "failed" => sent[call[r].op] = "lost",
           status \in {"transitioned", "reconciled"} =>
               Issue(call[r].op).revision > call[r].plan
    PROVE  Good(Appending(call[r], "result", call[r].op, Moved(call[r].next, status)))
<1> DEFINE c == call[r]
           next == Moved(c.next, status)
<1>1. /\ c \in Call /\ c.op \in Operation /\ c.on \in Coordinator
      /\ c.goal \in {"serve", "prepare", "approve", "submit", "get", "reconcile"}
      /\ Tells(c.op, c.next) /\ c.next.plan = c.plan
      /\ c.next.version <= VersionOf(disk[c.op])
    BY CallIsGood DEF Good
<1>2. /\ next \in Record /\ next.version = c.next.version + 1
      /\ next.status = status /\ next.plan = c.plan
    BY <1>1, MovedIsRecord DEF Tells, Status, Settled, Unresolved
<1>3. c.next.version \in Nat /\ VersionOf(disk[c.op]) \in Nat
    BY <1>1, VersionIsNat DEF IInv, Tells, Record
<1> HIDE DEF next
<1>4. Tells(c.op, next)
    BY <1>1, <1>2, <1>3 DEF Tells
<1>5. Follows(c.op, next)
    BY <1>1, <1>2, <1>3 DEF Follows, Undecided
<1> HIDE DEF c
<1>6. Good(Appending(c, "result", c.op, next))
    BY <1>1, <1>2, <1>4, <1>5, AppendingIsGood
<1> QED BY <1>6 DEF c, next

\* An issue that is done at the planned revision or later has moved on.
LEMMA DoneHasMoved ==
    ASSUME RevisionsArePlans, IInv, NEW r \in Request,
           call[r].at \in {"called", "readback", "query"},
           MatchesTarget(call[r].op, call[r].plan)
    PROVE  Issue(call[r].op).revision > call[r].plan
<1>1. /\ call[r].op \in Operation /\ call[r].plan \in Nat
      /\ Reached(call[r].op, call[r].plan)
    BY CallIsGood, RecordsHavePlans DEF Good, Tells
<1>2. Issue(call[r].op).revision \in Nat
    BY <1>1 DEF Issue, IInv, TypeOK, RevisionsArePlans
<1> QED BY <1>1, <1>2 DEF MatchesTarget, Reached

LEMMA ReadBackKeeps ==
    ASSUME RevisionsArePlans, IInv, NEW r \in Request, ReadBack(r)
    PROVE  IInv'
<1>1. call[r].at = "readback" /\ Keeps /\ UNCHANGED <<mode, bound, fenced>>
    BY DEF ReadBack
<1>2. PICK status \in {"transitioned", "outcome_unknown"} :
        /\ status = "transitioned" => MatchesTarget(call[r].op, call[r].plan)
        /\ Goes(r, Appending(call[r], "result", call[r].op, Moved(call[r].next, status)))
    BY DEF ReadBack
<1>3. Good(Appending(call[r], "result", call[r].op, Moved(call[r].next, status)))
    BY <1>1, <1>2, DoneHasMoved, ResultIsGood
<1> QED BY <1>1, <1>2, <1>3, PlainCommandKeeps

LEMMA QueryKeeps ==
    ASSUME RevisionsArePlans, IInv, NEW r \in Request, Query(r)
    PROVE  IInv'
<1>1. call[r].at = "query" /\ Keeps /\ UNCHANGED <<mode, bound, fenced>>
    BY DEF Query
<1>2. PICK answer \in {"found", "absent", "none"} :
        /\ answer = "found" => MatchesTarget(call[r].op, call[r].plan)
        /\ Goes(r, Appending(call[r], "result", call[r].op,
                             ReconciliationResult(call[r].next, answer)))
    BY DEF Query
<1>3. \E status \in {"reconciled", "reconciliation_absent", "outcome_unknown"} :
        /\ ReconciliationResult(call[r].next, answer) = Moved(call[r].next, status)
        /\ status = "reconciled" => answer = "found"
    BY DEF ReconciliationResult
<1>4. Good(Appending(call[r], "result", call[r].op, ReconciliationResult(call[r].next, answer)))
    BY <1>1, <1>2, <1>3, DoneHasMoved, ResultIsGood
<1> QED BY <1>1, <1>2, <1>4, PlainCommandKeeps

\* So do the records.
LEMMA ToldStays ==
    ASSUME RevisionsArePlans, IInv, Advances, UNCHANGED disk
    PROVE  Told'
<1> SUFFICES ASSUME NEW o \in Operation, disk[o] # None
             PROVE  Tells(o, disk[o])'
    BY DEF Told
<1>1. PICK record : record = disk[o]
    OBVIOUS
<1>2. Tells(o, record)'
    BY <1>1, TellsStays DEF IInv, Told
<1> QED BY <1>1, <1>2 DEF Tells

\* A request goes on while the file or the provider changes.
LEMMA CallsStay ==
    ASSUME RevisionsArePlans, IInv, Advances, NEW r \in Request, NEW c, Good(c)', Goes(r, c)
    PROVE  /\ call' \in [Request -> Call]
           /\ \A q \in Request : Good(call[q])'
<1>1. c \in Call /\ call \in [Request -> Call]
    BY DEF Good, IInv, TypeOK
<1>2. call' \in [Request -> Call] /\ call'[r] = c /\ \A q \in Request \ {r} : call'[q] = call[q]
    BY <1>1 DEF Goes
<1>3. Good(call[r])'
    BY <1>2 DEF Good, Tells, Follows
<1>4. \A q \in Request \ {r} : Good(call[q])'
    BY <1>2, OthersStay DEF IInv
<1> QED BY <1>2, <1>3, <1>4

LEMMA UpdateReturnsKeeps ==
    ASSUME RevisionsArePlans, IInv, NEW r \in Request,
           NEW answer \in {"dispatched", "not_dispatched", "none"}, UpdateReturns(r, answer)
    PROVE  IInv'
<1> DEFINE c == call[r]
           o == c.op
<1>1. /\ Good(c) /\ c \in Call /\ c.at = "called" /\ o \in Operation
      /\ c.on \in Coordinator
      /\ Tells(o, c.next) /\ c.next.plan = c.plan /\ c.next.version <= VersionOf(disk[o])
    BY CallIsGood DEF Good, UpdateReturns
<1>2. sent \in [Operation -> {"none", "sent", "landed", "lost"}]
    BY DEF IInv, TypeOK
<1>3. CASE answer = "dispatched"
    <2> DEFINE x == [c EXCEPT !.at = "readback"]
    <2>1. /\ x \in Call /\ x.at = "readback" /\ x.next = c.next /\ x.goal = c.goal
          /\ x.op = o /\ x.plan = c.plan /\ x.on = c.on
        BY <1>1 DEF Call
    <2>2. Goes(r, x) /\ sent' = sent
        BY <1>2, <1>3 DEF UpdateReturns
    <2> HIDE DEF x
    <2>3. Good(x)
        BY <1>1, <2>1 DEF Good
    <2> QED BY <2>2, <2>3, PlainCommandKeeps DEF UpdateReturns, Keeps, remoteVars
<1>4. CASE answer = "none"
    <2>1. Goes(r, Appending(c, "result", o, Moved(c.next, "outcome_unknown"))) /\ sent' = sent
        BY <1>2, <1>4 DEF UpdateReturns, SubmissionResult
    <2>2. Good(Appending(c, "result", o, Moved(c.next, "outcome_unknown")))
        BY <1>1, ResultIsGood
    <2> QED BY <2>1, <2>2, PlainCommandKeeps DEF UpdateReturns, Keeps, remoteVars
<1>5. CASE answer = "not_dispatched"
    <2>1. /\ sent[o] = "sent" /\ sent' = [sent EXCEPT ![o] = "lost"]
          /\ Goes(r, Appending(c, "result", o, Moved(c.next, "failed")))
          /\ UNCHANGED <<disk, remote, updates>>
        BY <1>5 DEF UpdateReturns, SubmissionResult, journalVars
    <2>2. sent'[o] = "lost" /\ \A p \in Operation \ {o} : sent'[p] = sent[p]
        BY <1>1, <1>2, <2>1
    <2>3. Advances
        BY <2>1, <2>2 DEF Advances
    <2>4. PICK x, next : /\ next = Moved(c.next, "failed")
                         /\ x = Appending(c, "result", o, next)
        OBVIOUS
    <2>5. /\ next \in Record /\ next.version = c.next.version + 1
          /\ next.status = "failed" /\ next.plan = c.plan
        BY <1>1, <2>4, MovedIsRecord DEF Tells, Status, Settled
    <2>6. c.next.version \in Nat /\ VersionOf(disk[o]) \in Nat
        BY <1>1, VersionIsNat DEF IInv, Tells, Record
    <2>7. PICK p \in Operation : p = o
        BY <1>1
    <2>8. Tells(p, next)'
        BY <1>1, <2>1, <2>2, <2>5, <2>6, <2>7 DEF Tells, Reached, Issue
    <2>9. Follows(p, next)'
        BY <1>1, <2>1, <2>5, <2>6, <2>7 DEF Follows, Undecided, VersionOf
    <2>10. /\ x \in Call /\ x.at = "append" /\ x.stage = "result" /\ x.target = p /\ x.next = next
           /\ x.goal = c.goal /\ x.op = p /\ x.plan = c.plan /\ x.on = c.on
        BY <1>1, <2>4, <2>5, <2>7 DEF Appending, Call
    <2>11. Good(x)'
        BY <1>1, <2>8, <2>9, <2>10 DEF Good
    <2>12. call' \in [Request -> Call] /\ \A q \in Request : Good(call[q])'
        BY <2>1, <2>3, <2>4, <2>11, CallsStay
    <2>13. Told' /\ SentIsRecorded'
        <3>1. Told'
            BY <2>1, <2>3, ToldStays
        <3>2. SentIsRecorded'
            BY <1>1, <2>1, <2>2 DEF IInv, SentIsRecorded, Spent
        <3> QED BY <3>1, <3>2
    <2>14. Landed' = Landed
        BY <2>1, <2>2 DEF Landed
    <2>15. Within'
        BY <2>1, <2>14 DEF IInv, Within
    <2>16. TypeOK'
        BY <1>2, <2>1, <2>12 DEF IInv, TypeOK, JournalTypeOK, UpdateReturns, journalVars, localVars
    <2> QED BY <2>12, <2>13, <2>15, <2>16 DEF IInv
<1> QED BY <1>3, <1>4, <1>5

-----------------------------------------------------------------------------
(* Appends.                                                                *)

\* What a record becomes in the file: the latest, true, and never taken back.
LEMMA AppendedRecords ==
    ASSUME RevisionsArePlans, IInv, NEW r \in Request, call[r].at = "append",
           NEW verified \in BOOLEAN, Appended(call[r].target, call[r].next, verified),
           UNCHANGED remote, \A o \in Operation : sent[o] = "lost" => sent'[o] = "lost"
    PROVE  /\ Advances
           /\ disk' = [disk EXCEPT ![call[r].target] = call[r].next]
           /\ disk'[call[r].target] = call[r].next
           /\ call[r].next.version = VersionOf(disk[call[r].target]) + 1
           /\ JournalTypeOK' /\ Told'
           /\ \A o \in Operation : Spent(o) => disk'[o] # None /\ disk'[o].status \notin Undecided
<1> DEFINE t == call[r].target
           next == call[r].next
<1>1. /\ t \in Operation /\ Tells(t, next) /\ Follows(t, next)
    BY CallIsGood DEF Good
<1>2. /\ next \in Record /\ next # None /\ next.version \in Nat
      /\ next.version = VersionOf(disk[t]) + 1
      /\ disk' = [disk EXCEPT ![t] = next]
    BY <1>1, RecordsHavePlans DEF Tells, Appended, Fits
<1> HIDE DEF t, next
<1>3. disk \in [Operation -> Record \cup {None}]
    BY DEF IInv, TypeOK, JournalTypeOK, File
<1>4. disk' \in File /\ disk'[t] = next /\ \A o \in Operation \ {t} : disk'[o] = disk[o]
    BY <1>1, <1>2, <1>3 DEF File
<1>5. JournalTypeOK'
    BY <1>4 DEF Appended, IInv, TypeOK, JournalTypeOK
<1>6. Advances
    BY <1>1, <1>2, <1>4 DEF Advances, VersionOf
<1>7. Told'
    <2> SUFFICES ASSUME NEW o \in Operation, disk'[o] # None
                 PROVE  Tells(o, disk[o])'
        BY DEF Told
    <2>1. PICK record : record = disk'[o]
        OBVIOUS
    <2>2. Tells(o, record)
        BY <1>1, <1>4, <2>1 DEF IInv, Told
    <2>3. Tells(o, record)'
        BY <1>6, <2>2, TellsStays DEF IInv
    <2> QED BY <2>1, <2>3 DEF Tells
<1>8. ASSUME NEW o \in Operation, Spent(o)
      PROVE  disk'[o] # None /\ disk'[o].status \notin Undecided
    <2>1. CASE o = t
        BY <1>1, <1>2, <1>4, <1>8, <2>1 DEF Spent, Follows
    <2>2. CASE o # t
        BY <1>4, <1>8, <2>2 DEF Spent
    <2> QED BY <2>1, <2>2
<1> QED BY <1>2, <1>4, <1>5, <1>6, <1>7, <1>8 DEF t, next

\* How a request goes on when its record is there and it calls nobody.
LEMMA GoonIsGood ==
    ASSUME RevisionsArePlans, IInv, NEW r \in Request, call[r].at = "append",
           call[r].stage # "begin", Goon(r)
    PROVE  /\ \E c : Good(c) /\ Goes(r, c)
           /\ mode' \in {"closed", "opening", "open"}
           /\ bound' \in [Operation -> Coordinator \cup {None}] /\ fenced' \subseteq Coordinator
<1> DEFINE c == call[r]
<1>1. /\ Good(c) /\ c \in Call /\ c.at = "append" /\ c.on \in Coordinator
      /\ c.stage \in {"recover", "prepare", "approve", "result"}
      /\ c.goal \in {"serve", "prepare", "approve", "submit", "get", "reconcile"}
      /\ c.stage = "recover" => c.goal = "serve" \/ c.op \in Operation
      /\ c.stage # "recover" => c.op \in Operation
    BY CallIsGood DEF Good
<1>2. /\ mode \in {"closed", "opening", "open"}
      /\ bound \in [Operation -> Coordinator \cup {None}] /\ fenced \subseteq Coordinator
    BY DEF IInv, TypeOK
<1>3. CASE c.stage = "recover"
    <2> DEFINE todo == c.todo \ {c.target}
               x == [c EXCEPT !.at = "recover", !.todo = todo]
    <2>1. todo \in SUBSET Operation
        BY <1>1 DEF Call
    <2>2. Goes(r, x) /\ UNCHANGED <<mode, bound, fenced>>
        BY <1>3 DEF Goon
    <2> HIDE DEF todo
    <2>3. x \in Call /\ x.at = "recover" /\ x.goal = c.goal /\ x.op = c.op /\ x.on = c.on
        BY <1>1, <2>1 DEF Call
    <2> HIDE DEF x
    <2>4. Good(x)
        BY <1>1, <1>3, <2>3 DEF Good
    <2> QED BY <1>2, <2>2, <2>4
<1>4. CASE c.stage = "prepare"
    <2>1. Bind(r) /\ Goes(r, Toward(c, "approve", bound')) /\ UNCHANGED <<mode, fenced>>
        BY <1>4 DEF Goon
    <2>2. bound' \in [Operation -> Coordinator \cup {None}]
        BY <1>1, <1>2, <2>1 DEF Bind
    <2>3. Good(Toward(c, "approve", bound'))
        BY <1>1, <1>4, <2>2, TowardIsGood
    <2> QED BY <1>2, <2>1, <2>2, <2>3
<1>5. CASE c.stage = "approve"
    <2>1. Goes(r, Toward(c, "submit", bound)) /\ UNCHANGED <<mode, bound, fenced>>
        BY <1>5 DEF Goon
    <2>2. Good(Toward(c, "submit", bound))
        BY <1>1, <1>2, <1>5, TowardIsGood
    <2> QED BY <1>2, <2>1, <2>2
<1>6. CASE c.stage = "result"
    <2>1. EndsWith(r, fenced)
        BY <1>6 DEF Goon, Ends
    <2> QED BY <1>2, <2>1, EndsKeeps
<1> QED BY <1>1, <1>3, <1>4, <1>5, <1>6

LEMMA AlreadyThereKeeps ==
    ASSUME RevisionsArePlans, IInv, NEW r \in Request, AlreadyThere(r)
    PROVE  IInv'
<1>1. call[r].at = "append" /\ Keeps
    BY DEF AlreadyThere
<1>2. CASE call[r].stage = "begin"
    BY <1>1, <1>2, Fencing, EndingKeeps DEF AlreadyThere, EndsFenced
<1>3. CASE call[r].stage # "begin"
    BY <1>1, <1>3, GoonIsGood, CommandKeeps DEF AlreadyThere
<1> QED BY <1>2, <1>3

\* An append that leaves the provider alone: the request goes on, or is over.
LEMMA AppendKeeps ==
    ASSUME RevisionsArePlans, IInv, NEW r \in Request, call[r].at = "append",
           NEW verified \in BOOLEAN, Appended(call[r].target, call[r].next, verified),
           NEW c, Good(c)', Goes(r, c),
           UNCHANGED <<remoteVars, localVars, updates>>,
           mode' \in {"closed", "opening", "open"},
           bound' \in [Operation -> Coordinator \cup {None}], fenced' \subseteq Coordinator
    PROVE  IInv'
<1>1. UNCHANGED <<remote, sent, updates>>
    BY DEF remoteVars
<1>2. /\ Advances /\ JournalTypeOK' /\ Told'
      /\ \A o \in Operation : Spent(o) => disk'[o] # None /\ disk'[o].status \notin Undecided
    BY <1>1, AppendedRecords
<1>3. call' \in [Request -> Call] /\ \A q \in Request : Good(call[q])'
    BY <1>2, CallsStay
<1>4. SentIsRecorded'
    BY <1>1, <1>2 DEF IInv, SentIsRecorded, Spent
<1>5. Within'
    BY <1>1 DEF IInv, Within, Landed
<1>6. TypeOK'
    BY <1>1, <1>2, <1>3 DEF IInv, TypeOK, localVars
<1> QED BY <1>2, <1>3, <1>4, <1>5, <1>6 DEF IInv

\* The record of a call is on disk when the request goes on to the provider.
LEMMA CallsWhatIsRecorded ==
    ASSUME RevisionsArePlans, IInv, NEW r \in Request,
           call[r].at = "append", call[r].stage = "begin",
           NEW verified \in BOOLEAN, Appended(call[r].target, call[r].next, verified),
           UNCHANGED remote, \A o \in Operation : sent[o] = "lost" => sent'[o] = "lost",
           NEW at \in {"called", "query"}, NEW c, c = [call[r] EXCEPT !.at = at]
    PROVE  Good(c)'
<1>1. /\ call[r] \in Call /\ call[r].on \in Coordinator /\ call[r].op \in Operation
      /\ call[r].goal \in {"serve", "prepare", "approve", "submit", "get", "reconcile"}
      /\ call[r].target = call[r].op
      /\ Tells(call[r].op, call[r].next) /\ call[r].next.plan = call[r].plan
    BY CallIsGood DEF Good
<1>2. PICK o, next : o = call[r].op /\ next = call[r].next
    OBVIOUS
<1>3. /\ c \in Call /\ c.at = at /\ c.next = next /\ c.op = o
      /\ c.goal = call[r].goal /\ c.plan = call[r].plan /\ c.on = call[r].on
    BY <1>1, <1>2 DEF Call
<1>4. Advances /\ disk'[o] = next /\ o \in Operation
    BY <1>1, <1>2, AppendedRecords
<1>5. Tells(o, next)'
    BY <1>1, <1>2, <1>4, TellsStays DEF IInv
<1>6. next # None /\ next.version \in Nat
    BY <1>1, <1>2, RecordsHavePlans DEF Tells
<1>7. next.version <= VersionOf(disk[o])'
    BY <1>4, <1>6 DEF VersionOf
<1> QED BY <1>1, <1>2, <1>3, <1>5, <1>7 DEF Good

\* updateIssueState is called where nothing was sent yet.
LEMMA CommittedCalls ==
    ASSUME RevisionsArePlans, IInv, NEW r \in Request, Committed(r),
           call[r].stage = "begin", call[r].goal = "submit"
    PROVE  IInv'
<1>1. PICK o : o = call[r].op
    OBVIOUS
<1>2. /\ call[r].at = "append" /\ Appended(call[r].target, call[r].next, TRUE)
      /\ UNCHANGED <<localVars, remote, mode, bound, fenced>>
      /\ Goes(r, [call[r] EXCEPT !.at = "called"])
      /\ updates' = [updates EXCEPT ![o] = @ + 1]
      /\ sent' = [sent EXCEPT ![o] = IF @ = "none" THEN "sent" ELSE @]
    BY <1>1 DEF Committed
<1>3. /\ o \in Operation /\ call[r].target = o /\ Follows(o, call[r].next)
      /\ call[r].next.status = "submitting" /\ call[r].next \in Record
    BY <1>1, <1>2, CallIsGood DEF Good, Tells
<1>4. /\ sent \in [Operation -> {"none", "sent", "landed", "lost"}]
      /\ updates \in [Operation -> Nat]
    BY DEF IInv, TypeOK
<1>5. UNCHANGED remote /\ \A p \in Operation : sent[p] = "lost" => sent'[p] = "lost"
    BY <1>2, <1>3, <1>4
<1>6. /\ Advances /\ JournalTypeOK' /\ Told'
      /\ disk'[o] = call[r].next /\ call[r].next.version = VersionOf(disk[o]) + 1
      /\ \A p \in Operation : Spent(p) => disk'[p] # None /\ disk'[p].status \notin Undecided
    BY <1>2, <1>3, <1>5, AppendedRecords
<1>7. sent[o] = "none" /\ updates[o] = 0
    BY <1>3, <1>6 DEF Follows, IInv, SentIsRecorded
<1>8. SentIsRecorded'
    <2> SUFFICES ASSUME NEW p \in Operation
                 PROVE  (/\ sent[p] = "none" \/ Spent(p)
                         /\ updates[p] = 0 \/ (updates[p] = 1 /\ Spent(p)))'
        BY DEF SentIsRecorded
    <2>1. CASE p = o
        <3>1. disk'[p] # None /\ disk'[p].status \notin Undecided
            BY <1>3, <1>6, <2>1, RecordsHavePlans DEF Undecided
        <3>2. updates'[p] = 1
            BY <1>2, <1>3, <1>4, <1>7, <2>1
        <3> QED BY <3>1, <3>2 DEF Spent
    <2>2. CASE p # o
        <3>1. sent'[p] = sent[p] /\ updates'[p] = updates[p]
            BY <1>2, <1>4, <2>2
        <3> QED BY <1>6, <3>1 DEF IInv, SentIsRecorded, Spent
    <2> QED BY <2>1, <2>2
<1>9. Landed' = Landed
    BY <1>2, <1>3, <1>4 DEF Landed
<1>10. PICK c : c = [call[r] EXCEPT !.at = "called"]
    OBVIOUS
<1>11. Good(c)'
    BY <1>2, <1>5, <1>10, CallsWhatIsRecorded
<1>12. call' \in [Request -> Call] /\ \A q \in Request : Good(call[q])'
    BY <1>2, <1>6, <1>10, <1>11, CallsStay
<1>13. Within'
    BY <1>2, <1>9 DEF IInv, Within
<1>14. TypeOK'
    BY <1>2, <1>3, <1>4, <1>6, <1>12 DEF IInv, TypeOK, localVars
<1> QED BY <1>6, <1>8, <1>12, <1>13, <1>14 DEF IInv

LEMMA CommittedKeeps ==
    ASSUME RevisionsArePlans, IInv, NEW r \in Request, Committed(r)
    PROVE  IInv'
<1>1. call[r].at = "append" /\ Appended(call[r].target, call[r].next, TRUE)
    BY DEF Committed
<1>2. CASE call[r].stage # "begin"
    <2>1. Goon(r) /\ UNCHANGED <<remoteVars, localVars, updates>>
        BY <1>2 DEF Committed, remoteVars
    <2>2. PICK c : Good(c) /\ Goes(r, c)
        BY <1>1, <1>2, <2>1, GoonIsGood
    <2>3. Advances
        BY <1>1, <2>1, AppendedRecords DEF remoteVars
    <2>4. Good(c)'
        BY <2>2, <2>3, GoodStays DEF IInv
    <2> QED BY <1>1, <1>2, <2>1, <2>2, <2>4, GoonIsGood, AppendKeeps
<1>3. CASE call[r].stage = "begin" /\ call[r].goal = "submit"
    BY <1>3, CommittedCalls
<1>4. CASE call[r].stage = "begin" /\ call[r].goal # "submit"
    <2>1. /\ Goes(r, [call[r] EXCEPT !.at = "query"])
          /\ UNCHANGED <<remoteVars, localVars, updates, mode, bound, fenced>>
        BY <1>4 DEF Committed, remoteVars
    <2>2. PICK c : c = [call[r] EXCEPT !.at = "query"]
        OBVIOUS
    <2>3. Good(c)'
        BY <1>1, <1>4, <2>1, <2>2, CallsWhatIsRecorded DEF remoteVars
    <2> QED BY <1>1, <2>1, <2>2, <2>3, AppendKeeps DEF IInv, TypeOK
<1> QED BY <1>2, <1>3, <1>4

LEMMA AppendFencesKeeps ==
    ASSUME RevisionsArePlans, IInv, NEW r \in Request, AppendFences(r)
    PROVE  IInv'
<1>1. call[r].at = "append" /\ EndsFenced(r) /\ UNCHANGED <<localVars, remoteVars, updates>>
    BY DEF AppendFences
<1>2. PICK now \in SUBSET Coordinator : EndsWith(r, now)
    BY <1>1, Fencing DEF EndsFenced
<1>3. CASE UNCHANGED journalVars
    BY <1>1, <1>2, <1>3, EndingKeeps DEF Keeps
<1>4. CASE Appended(call[r].target, call[r].next, FALSE)
    <2>1. PICK c : c = Idle
        OBVIOUS
    <2>2. Good(c)'
        BY <2>1 DEF Good, Idle, Call
    <2> QED BY <1>1, <1>2, <1>4, <2>1, <2>2, EndsKeeps, AppendKeeps
<1> QED BY <1>3, <1>4 DEF AppendFences

-----------------------------------------------------------------------------
(* What happens around the requests.                                       *)

\* Revisions grow within the plans.
LEMMA RemoteMoves ==
    ASSUME RevisionsArePlans, IInv, NEW w \in WorkItem, NEW state \in {"ready", "done", "other"},
           remote' = [remote EXCEPT ![w] = [state |-> state, revision |-> remote[w].revision + 1]],
           \A o \in Operation : sent[o] = "lost" => sent'[o] = "lost",
           \A o \in Operation : sent[o] = "none" => sent'[o] = "none",
           sent' \in [Operation -> {"none", "sent", "landed", "lost"}],
           Within',
           UNCHANGED <<journalVars, mode, localVars, updates, bound, fenced, call>>
    PROVE  IInv'
<1>1. remote \in [WorkItem -> [state : {"ready", "done", "other"}, revision : Nat]]
    BY DEF IInv, TypeOK
<1>2. /\ remote' \in [WorkItem -> [state : {"ready", "done", "other"}, revision : Nat]]
      /\ remote'[w].revision = remote[w].revision + 1
      /\ \A v \in WorkItem \ {w} : remote'[v] = remote[v]
    BY <1>1
<1>3. Advances
    BY <1>2 DEF Advances, journalVars
<1>4. \A q \in Request : Good(call[q])'
    BY <1>3, OthersStay DEF IInv
<1>5. Told' /\ SentIsRecorded'
    BY <1>3, ToldStays DEF IInv, SentIsRecorded, Spent, journalVars
<1>6. TypeOK'
    BY <1>2 DEF IInv, TypeOK, JournalTypeOK, journalVars, localVars
<1> QED BY <1>4, <1>5, <1>6 DEF IInv

LEMMA LandKeeps ==
    ASSUME RevisionsArePlans, IInv, NEW o \in Operation, Land(o)
    PROVE  IInv'
<1>1. sent[o] = "sent" /\ sent \in [Operation -> {"none", "sent", "landed", "lost"}]
    BY DEF Land, IInv, TypeOK
<1>2. IsFiniteSet(Landed) /\ o \notin Landed /\ Cardinality(Landed) \in Nat
    BY <1>1, FS_Subset, FS_CardinalityType DEF Landed, RevisionsArePlans
<1>3. UNCHANGED <<journalVars, mode, localVars, updates, bound, fenced, call>>
    BY DEF Land
<1>4. CASE /\ sent' = [sent EXCEPT ![o] = "landed"]
           /\ remote' = [remote EXCEPT ![ItemOf[o]] =
                            [state |-> "done", revision |-> Issue(o).revision + 1]]
    <2>1. ItemOf[o] \in WorkItem
        BY DEF RevisionsArePlans
    <2>2. Landed' = Landed \cup {o}
        BY <1>1, <1>4 DEF Landed
    <2>3. Cardinality(Landed \cup {o}) = Cardinality(Landed) + 1
        BY <1>2, FS_AddElement
    <2>4. /\ \A w \in WorkItem : remote[w].revision \in Nat
          /\ remote'[ItemOf[o]].revision = remote[ItemOf[o]].revision + 1
          /\ \A w \in WorkItem \ {ItemOf[o]} : remote'[w] = remote[w]
        BY <1>4, <2>1 DEF Issue, IInv, TypeOK
    <2>5. \A w \in WorkItem :
            remote'[w].revision <= MaxDrift + (Cardinality(Landed) + 1)
        BY <1>2, <2>1, <2>4 DEF IInv, Within, RevisionsArePlans
    <2>6. Within'
        BY <2>2, <2>3, <2>5 DEF Within
    <2>7. /\ sent' \in [Operation -> {"none", "sent", "landed", "lost"}]
          /\ \A p \in Operation : sent[p] = "lost" => sent'[p] = "lost"
          /\ \A p \in Operation : sent[p] = "none" => sent'[p] = "none"
        BY <1>1, <1>4
    <2>8. remote' = [remote EXCEPT ![ItemOf[o]] =
                        [state |-> "done", revision |-> remote[ItemOf[o]].revision + 1]]
        BY <1>4 DEF Issue
    <2> QED BY <1>3, <2>1, <2>6, <2>7, <2>8, RemoteMoves
<1>5. CASE sent' = [sent EXCEPT ![o] = "lost"] /\ UNCHANGED remote
    <2>1. sent'[o] = "lost" /\ \A p \in Operation \ {o} : sent'[p] = sent[p]
        BY <1>1, <1>5
    <2>2. Advances
        BY <1>3, <1>5, <2>1 DEF Advances, journalVars
    <2>3. \A q \in Request : Good(call[q])'
        BY <1>3, <2>2, OthersStay DEF IInv
    <2>4. Told' /\ SentIsRecorded'
        BY <1>1, <1>3, <2>1, <2>2, ToldStays DEF IInv, SentIsRecorded, Spent, journalVars
    <2>5. Landed' = Landed
        BY <1>1, <2>1 DEF Landed
    <2>6. Within'
        BY <1>5, <2>5 DEF IInv, Within
    <2>7. TypeOK'
        BY <1>1, <1>3, <1>5 DEF IInv, TypeOK, JournalTypeOK, journalVars, localVars
    <2> QED BY <2>3, <2>4, <2>6, <2>7 DEF IInv
<1> QED BY <1>4, <1>5 DEF Land

LEMMA DriftKeeps ==
    ASSUME RevisionsArePlans, IInv, NEW w \in WorkItem, Drift(w)
    PROVE  IInv'
<1>1. IsFiniteSet(Landed) /\ Cardinality(Landed) \in Nat
    BY FS_Subset, FS_CardinalityType DEF Landed, RevisionsArePlans
<1>2. PICK state \in {"ready", "done", "other"} :
        remote' = [remote EXCEPT ![w] = [state |-> state, revision |-> remote[w].revision + 1]]
    BY DEF Drift
<1>3. UNCHANGED <<journalVars, mode, localVars, sent, updates, bound, fenced, call>>
    BY DEF Drift
<1>4. /\ \A v \in WorkItem : remote[v].revision \in Nat
      /\ remote'[w].revision = remote[w].revision + 1
      /\ \A v \in WorkItem \ {w} : remote'[v] = remote[v]
    BY <1>2 DEF IInv, TypeOK
<1>5. \A v \in WorkItem : remote'[v].revision <= MaxDrift + Cardinality(Landed)
    BY <1>1, <1>4 DEF Drift, IInv, Within, RevisionsArePlans
<1>6. Within'
    BY <1>3, <1>5 DEF Within, Landed
<1> QED BY <1>2, <1>3, <1>6, RemoteMoves DEF IInv, TypeOK

\* Revisions that are reached are plans.
LEMMA RevisionIsPlan ==
    ASSUME RevisionsArePlans, IInv, NEW w \in WorkItem
    PROVE  remote[w].revision \in Plan
<1>1. Landed \subseteq Operation /\ IsFiniteSet(Landed)
    BY FS_Subset DEF Landed, RevisionsArePlans
<1>2. Cardinality(Landed) <= Cardinality(Operation)
    BY <1>1, FS_Subset DEF RevisionsArePlans
<1>3. Cardinality(Landed) \in Nat /\ Cardinality(Operation) \in Nat
    BY <1>1, FS_CardinalityType DEF RevisionsArePlans
<1>4. remote[w].revision \in Nat /\ remote[w].revision <= MaxDrift + Cardinality(Landed)
    BY DEF IInv, TypeOK, Within
<1>5. remote[w].revision \in 0..(MaxDrift + Cardinality(Operation))
    BY <1>2, <1>3, <1>4 DEF RevisionsArePlans
<1> QED BY <1>5 DEF RevisionsArePlans

\* Imports, facts and decisions touch neither the file nor the provider.
LEMMA LocalKeeps ==
    ASSUME RevisionsArePlans, IInv, NEW w \in WorkItem, Observe(w) \/ Revoke(w)
    PROVE  IInv'
<1>1. UNCHANGED <<journalVars, mode, remoteVars, updates, bound, fenced, call>>
    BY DEF Observe, Revoke
<1>2. /\ observed' \in [WorkItem -> Plan]
      /\ accepted' \in [WorkItem -> decided \cup {None}] /\ UNCHANGED decided
    BY RevisionIsPlan DEF Observe, Revoke, IInv, TypeOK
<1>3. \A q \in Request : Good(call[q])'
    BY <1>1, OthersStay DEF IInv, Advances, journalVars, remoteVars
<1>4. Told' /\ SentIsRecorded' /\ Within'
    BY <1>1 DEF IInv, Told, SentIsRecorded, Within, Landed, Tells, Reached, Issue, Spent,
                journalVars, remoteVars
<1>5. TypeOK'
    BY <1>1, <1>2 DEF IInv, TypeOK, JournalTypeOK, journalVars, remoteVars
<1> QED BY <1>3, <1>4, <1>5 DEF IInv

LEMMA RequestKeeps ==
    ASSUME RevisionsArePlans, IInv, NEW r \in Request, NEW o \in Operation,
           Decide(r, o) \/ AskReconcile(r, o)
    PROVE  IInv'
<1>1. PICK goal \in {"prepare", "get"} : Goes(r, [Idle EXCEPT !.at = "open", !.goal = goal, !.op = o])
    BY DEF Decide, AskReconcile
<1>2. PICK c : c = [Idle EXCEPT !.at = "open", !.goal = goal, !.op = o]
    OBVIOUS
<1>3. Good(c)
    BY <1>2 DEF Good, Idle, Call
<1>4. UNCHANGED <<journalVars, mode, observed, remoteVars, updates, bound, fenced>>
    BY DEF Decide, AskReconcile, localVars
<1>5. accepted' \in [WorkItem -> decided' \cup {None}] /\ decided' \subseteq Operation
    <2>1. CASE Decide(r, o)
        <3>1. /\ decided' = decided \cup {o}
              /\ accepted' = accepted \/ accepted' = [accepted EXCEPT ![ItemOf[o]] = o]
            BY <2>1 DEF Decide
        <3> QED BY <3>1 DEF IInv, TypeOK
    <2>2. CASE AskReconcile(r, o)
        BY <2>2 DEF AskReconcile, localVars, IInv, TypeOK
    <2> QED BY <2>1, <2>2
<1>6. UNCHANGED <<disk, remote, sent, updates>>
    BY <1>4 DEF journalVars, remoteVars
<1>7. /\ call' \in [Request -> Call]
      /\ Within' /\ Told' /\ SentIsRecorded'
      /\ \A q \in Request : Good(call[q])'
    BY <1>1, <1>2, <1>3, <1>6, GoesKeeps
<1>8. TypeOK'
    BY <1>4, <1>5, <1>7 DEF IInv, TypeOK, JournalTypeOK, journalVars, remoteVars
<1> QED BY <1>7, <1>8 DEF IInv

\* The process ends, or a new one opens its first coordinator: the file and the
\* provider stay as they are.
LEMMA ProcessKeeps ==
    ASSUME RevisionsArePlans, IInv, End \/ \E r \in Request : StartUp(r)
    PROVE  IInv'
<1>1. /\ JournalClosed /\ UNCHANGED <<localVars, remoteVars, updates>>
      /\ fenced' = {} /\ mode' \in {"closed", "opening", "open"}
      /\ bound' \in [Operation -> Coordinator \cup {None}]
    BY DEF End, StartUp, IInv, TypeOK
<1>2. UNCHANGED <<disk, remote, sent, updates>> /\ JournalTypeOK'
    BY <1>1 DEF JournalClosed, JournalTypeOK, NoAppend, remoteVars, IInv, TypeOK
<1>3. call' \in [Request -> Call] /\ \A q \in Request : Good(call[q])'
    <2>1. CASE End
        <3>1. \A q \in Request : call'[q] = Idle
            BY <2>1 DEF End
        <3>2. Idle \in Call
            BY DEF Idle, Call
        <3> QED BY <2>1, <3>1, <3>2 DEF End, Good, Idle, Tells, Follows
    <2>2. CASE \E r \in Request : StartUp(r)
        <3>1. PICK r \in Request : StartUp(r)
            BY <2>2
        <3>2. PICK c :
                /\ Goes(r, c)
                /\ c = [Idle EXCEPT !.at = "open", !.goal = "serve"]
            BY <3>1 DEF StartUp
        <3>3. Good(c)
            BY <3>2 DEF Good, Idle, Call
        <3> QED BY <1>2, <3>2, <3>3, GoesKeeps
    <2> QED BY <2>1, <2>2
<1>4. Told' /\ SentIsRecorded' /\ Within'
    BY <1>2 DEF IInv, Told, SentIsRecorded, Within, Landed, Tells, Reached, Issue, Spent
<1>5. TypeOK'
    BY <1>1, <1>2, <1>3 DEF IInv, TypeOK, localVars, remoteVars
<1> QED BY <1>3, <1>4, <1>5 DEF IInv

-----------------------------------------------------------------------------
LEMMA Initially ==
    ASSUME RevisionsArePlans, Init
    PROVE  IInv
<1>1. Cardinality(Operation) \in Nat
    BY FS_CardinalityType DEF RevisionsArePlans
<1>2. 0 \in Plan
    BY <1>1 DEF RevisionsArePlans
<1>3. Idle \in Call
    BY DEF Idle, Call
<1>4. TypeOK
    BY <1>2, <1>3 DEF Init, JournalInit, TypeOK, JournalTypeOK, File, NoAppend
<1>5. Landed = {} /\ Cardinality(Landed) = 0
    BY FS_EmptySet DEF Init, Landed
<1>6. Within
    BY <1>5 DEF Init, Within, RevisionsArePlans
<1>7. Told /\ SentIsRecorded
    BY DEF Init, JournalInit, Told, SentIsRecorded
<1>8. \A r \in Request : Good(call[r])
    BY <1>3, IdleIsGood DEF Init
<1> QED BY <1>4, <1>6, <1>7, <1>8 DEF IInv

LEMMA NextKeeps ==
    ASSUME RevisionsArePlans, IInv, [Next]_vars
    PROVE  IInv'
<1>1. ASSUME NEW r \in Request, Progress(r) PROVE IInv'
    BY <1>1, OpenKeeps, RecoverKeeps, OpenedKeeps, DeclinesKeeps, PrepareKeeps, ApproveKeeps,
       SubmitKeeps, GetKeeps, ReconcileKeeps, SourceKeeps, CommittedKeeps, AlreadyThereKeeps,
       AppendFencesKeeps, UpdateReturnsKeeps, ReadBackKeeps, QueryKeeps DEF Progress
<1>2. CASE UNCHANGED vars
    <2>1. \A q \in Request : Good(call[q])'
        BY <1>2, OthersStay DEF IInv, Advances, vars, journalVars, remoteVars
    <2> QED BY <1>2, <2>1 DEF IInv, TypeOK, JournalTypeOK, Told, SentIsRecorded, Within, Landed,
                              Tells, Reached, Issue, Spent, vars, journalVars, localVars, remoteVars
<1> QED BY <1>1, <1>2, ProcessKeeps, RequestKeeps, LandKeeps, DriftKeeps, LocalKeeps DEF Next

LEMMA Invariantly ==
    ASSUME RevisionsArePlans
    PROVE  Spec => []IInv
    BY Initially, NextKeeps, PTL DEF Spec

\* Every handler keeps requests, records, coordinators and revisions well
\* formed, for any operations, work items, requests and coordinators.
THEOREM TransitionsAreTyped ==
    ASSUME RevisionsArePlans
    PROVE  Spec => []TypeOK
<1>1. IInv => TypeOK
    BY DEF IInv
<1> QED BY <1>1, Invariantly, PTL

\* However often a decision is delivered, by however many coordinators, and
\* wherever the process ends: updateIssueState is called for it at most once.
THEOREM UpdatedAtMostOnce ==
    ASSUME RevisionsArePlans
    PROVE  Spec => []OneUpdate
<1>1. IInv => OneUpdate
    BY DEF IInv, SentIsRecorded, OneUpdate
<1> QED BY <1>1, Invariantly, PTL

\* What the journal says of a transition is so: nothing was sent before
\* "submitting", what failed never arrives, what is done has moved on.
THEOREM TransitionRecordsAreTrue ==
    ASSUME RevisionsArePlans
    PROVE  Spec => []RecordsAreTrue
<1>1. IInv => RecordsAreTrue
    BY DEF IInv, Told, SentIsRecorded, Spent, Tells, RecordsAreTrue
<1> QED BY <1>1, Invariantly, PTL
=============================================================================
