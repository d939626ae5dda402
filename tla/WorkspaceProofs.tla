--------------------------- MODULE WorkspaceProofs ---------------------------
(***************************************************************************)
(* Three parts that share a workspace directory, one after the other.      *)
(*                                                                         *)
(* The lock: at most one Control Room runs, and it keeps its lock, for any  *)
(* number of processes and deaths, until two of them have reclaimed one    *)
(* stale lock.  (After that both are false: run lock_reclaim_race.)        *)
(*                                                                         *)
(* The provider observations: what is shown as ready was seen, and only    *)
(* what began later replaces it, for any operations, outcomes, failing     *)
(* writes and restarts.                                                    *)
(*                                                                         *)
(* The configuration: a stale plan writes nothing, and locks are given     *)
(* back, for any writers, workspaces, requests, edits by hand and deaths.  *)
(***************************************************************************)
EXTENDS ControlRoomLock, ProviderObservation, ConfigurationControl, TLAPS

-----------------------------------------------------------------------------
(* The Control Room lock.                                                  *)

\* p has created the lock file and not yet removed it.
Holds(p) == pc[p] \in {"write", "running", "readOwn", "unlinkOwn"}

\* p has created a lock file, so it creates no other.
HasCreated(p) == Holds(p) \/ pc[p] \in {"crashed", "released", "denied"}

\* q has read a whole owner record, that of before[q].
Knows(q) == before[q] \in Process

\* The file names its holder, and is complete once the holder wrote it.
HolderNamed ==
    \A p \in Process :
        Holds(p) =>
            /\ lockFile # Nothing
            /\ lockFile.owner = p
            /\ lockFile.written <=> pc[p] # "write"

\* A process that found its record still in the file knows its owner to be dead ...
RecheckedDead ==
    \A q \in Process :
        (pc[q] = "recheck" /\ Knows(q) /\ lockFile # Nothing /\ lockFile.owner = before[q])
            => ~Alive(before[q])

\* ... and once it is to unlink the file, it is that owner's, unless another
\* process has reclaimed the lock of the same owner.
UnlinksTheDead ==
    \A q \in Process :
        (pc[q] = "unlink" /\ Knows(q)) =>
            /\ ~Alive(before[q])
            /\ \/ lockFile # Nothing /\ lockFile.owner = before[q]
               \/ \E r \in retried : before[r] = before[q]

Good == HolderNamed /\ RecheckedDead /\ UnlinksTheDead

\* Whether or not a stale lock was reclaimed twice: who reclaimed is past its first
\* pass, and no owner whose record was read or is on disk creates another file.
Passed ==
    /\ \A q \in Process : pc[q] \in {"readBefore", "verify", "recheck", "unlink"} => q \notin retried
    /\ \A q \in Process : Knows(q) => HasCreated(before[q])
    /\ lockFile # Nothing => HasCreated(lockFile.owner)

LockInv == LockTypeOK /\ Passed /\ (ReclaimedOnce => Good)

LEMMA InitLockInv == LockInit => LockInv
<1> SUFFICES ASSUME LockInit PROVE LockInv
    OBVIOUS
<1> USE NothingAssumption DEF LockInit
<1>1. LockTypeOK
    BY DEF LockTypeOK, Pc
<1>2. Passed
    BY DEF Passed, Knows
<1>3. Good
    BY DEF Good, HolderNamed, Holds, RecheckedDead, UnlinksTheDead
<1> QED BY <1>1, <1>2, <1>3 DEF LockInv

\* What was reclaimed twice stays reclaimed twice.
LEMMA ReclaimedOnceBefore ==
    ASSUME LockTypeOK, Passed, LockNext, ReclaimedOnce'
    PROVE  ReclaimedOnce
<1>1. ASSUME NEW p \in Process, Step(p) \/ Crash(p)
      PROVE  retried \subseteq retried' /\ \A q \in retried : before'[q] = before[q]
  <2> USE DEF LockTypeOK, Passed
  <2>1. CASE ReadBefore(p)
    BY <2>1 DEF ReadBefore
  <2>2. CASE Unlink(p)
    BY <2>2 DEF Unlink
  <2>3. CASE UNCHANGED <<retried, before>>
    BY <2>3
  <2> QED
    BY <1>1, <2>1, <2>2, <2>3 DEF Step, Start, OpenExclusive, OpenExists, Verify, Recheck, Write,
        WriteFails, Release, ReadOwn, UnlinkOwn, Crash
<1>2. retried \subseteq retried' /\ \A q \in retried : before'[q] = before[q]
    BY <1>1 DEF LockNext
<1> QED BY <1>2 DEF ReclaimedOnce

\* The parts that hold in any case.
LEMMA PassedStep ==
    ASSUME LockTypeOK, Passed, NEW p \in Process, Step(p) \/ Crash(p)
    PROVE  LockTypeOK' /\ Passed'
<1> USE NothingAssumption, ProcessAssumption DEF LockTypeOK, Pc, Passed, Knows, HasCreated, Holds, Goto
<1>1. CASE Start(p)
    BY <1>1 DEF Start
<1>2. CASE OpenExclusive(p)
  <2>1. lockFile' \in [owner: Process, written: BOOLEAN] /\ lockFile'.owner = p
    BY <1>2 DEF OpenExclusive
  <2> QED BY <1>2, <2>1 DEF OpenExclusive
<1>3. CASE OpenExists(p)
    BY <1>3 DEF OpenExists
<1>4. CASE ReadBefore(p)
  <2>1. lockFile # Nothing => Content \in {lockFile.owner, "empty"}
    BY DEF Content
  <2> QED BY <1>4, <2>1 DEF ReadBefore
<1>5. CASE Verify(p)
    BY <1>5 DEF Verify
<1>6. CASE Recheck(p)
    BY <1>6 DEF Recheck
<1>7. CASE Unlink(p)
    BY <1>7 DEF Unlink
<1>8. CASE Write(p)
  <2>1. CASE lockFile # Nothing /\ lockFile.owner = p
    <3>1. lockFile' \in [owner: Process, written: BOOLEAN] /\ lockFile'.owner = p
      BY <1>8, <2>1 DEF Write
    <3> QED BY <1>8, <3>1 DEF Write
  <2>2. CASE ~(lockFile # Nothing /\ lockFile.owner = p)
    BY <1>8, <2>2 DEF Write
  <2> QED BY <2>1, <2>2
<1>9. CASE WriteFails(p)
    BY <1>9 DEF WriteFails
<1>10. CASE Release(p)
    BY <1>10 DEF Release
<1>11. CASE ReadOwn(p)
    BY <1>11 DEF ReadOwn
<1>12. CASE UnlinkOwn(p)
    BY <1>12 DEF UnlinkOwn
<1>13. CASE Crash(p)
    BY <1>13 DEF Crash
<1> QED
    BY <1>1, <1>2, <1>3, <1>4, <1>5, <1>6, <1>7, <1>8, <1>9, <1>10, <1>11, <1>12, <1>13 DEF Step

\* The rest.  The hard case is Unlink: reclaiming before[p] for the first time, p
\* removes that dead owner's file, so nobody loses one.
LEMMA GoodStep ==
    ASSUME LockTypeOK, Passed, Good, ReclaimedOnce',
           NEW p \in Process, Step(p) \/ Crash(p)
    PROVE  Good'
<1> USE NothingAssumption, ProcessAssumption
    DEF LockTypeOK, Pc, Passed, Knows, HasCreated, Holds, Alive, Goto,
        Good, HolderNamed, RecheckedDead, UnlinksTheDead
<1>1. CASE Start(p)
    BY <1>1 DEF Start
<1>2. CASE OpenExclusive(p)
  <2>1. lockFile' \in [owner: Process, written: BOOLEAN] /\ lockFile'.owner = p /\ ~lockFile'.written
    BY <1>2 DEF OpenExclusive
  <2>2. \A q \in Process : ~Holds(q)
    BY <1>2 DEF OpenExclusive
  <2>3. \A q \in Process : Knows(q) => before[q] # p
    BY <1>2 DEF OpenExclusive
  <2>4. /\ pc[p] = "open" /\ pc' = [pc EXCEPT ![p] = "write"] /\ lockFile = Nothing
        /\ retried' = retried /\ before' = before
    BY <1>2 DEF OpenExclusive
  <2>5. HolderNamed'
    <3>1. lockFile' # Nothing
      BY <2>1
    <3> QED BY <2>1, <2>2, <2>4, <3>1
  <2>6. RecheckedDead'
    BY <2>1, <2>3, <2>4
  <2>7. UnlinksTheDead'
    BY <2>4
  <2> QED BY <2>5, <2>6, <2>7
<1>3. CASE OpenExists(p)
    BY <1>3 DEF OpenExists
<1>4. CASE ReadBefore(p)
    BY <1>4 DEF ReadBefore
<1>5. CASE Verify(p)
    BY <1>5 DEF Verify, OwnerIsGone
<1>6. CASE Recheck(p)
  <2>1. lockFile # Nothing /\ Content = before[p] /\ Knows(p) => lockFile.owner = before[p]
    BY DEF Content
  <2> QED BY <1>6, <2>1 DEF Recheck
<1>7. CASE Unlink(p)
  <2>1. CASE lockFile = Nothing
    BY <1>7, <2>1 DEF Unlink
  <2>2. CASE lockFile # Nothing
    <3>1. /\ lockFile' = Nothing /\ retried' = retried \cup {p} /\ before' = before
          /\ pc' = [pc EXCEPT ![p] = "open"] /\ pc[p] = "unlink"
      BY <1>7, <2>2 DEF Unlink
    <3>2. Knows(p) /\ \A r \in retried' : before[r] = before[p] => r = p
      BY <3>1 DEF ReclaimedOnce
    <3>3. p \notin retried
      BY <3>1
    <3>4. lockFile.owner = before[p] /\ ~Alive(before[p])
      BY <3>1, <3>2, <3>3
    <3>5. \A q \in Process : ~Holds(q)
      BY <3>4
    <3>6. HolderNamed' /\ RecheckedDead'
      BY <3>1, <3>5
    <3>7. ASSUME NEW q \in Process, pc'[q] = "unlink", Knows(q)
          PROVE  ~Alive(before[q])' /\ \E r \in retried' : before[r] = before[q]
      BY <3>1, <3>4, <3>7
    <3>8. UnlinksTheDead'
      BY <3>1, <3>7
    <3> QED BY <3>6, <3>8
  <2> QED BY <2>1, <2>2
<1>8. CASE Write(p)
  <2>1. lockFile # Nothing /\ lockFile.owner = p /\ pc[p] = "write"
    BY <1>8 DEF Write
  <2>2. lockFile' = [lockFile EXCEPT !.written = TRUE] /\ pc' = [pc EXCEPT ![p] = "running"]
    BY <1>8, <2>1 DEF Write
  <2>3. \A q \in Process : Holds(q) => q = p
    BY <2>1
  <2>4. lockFile \in [owner: Process, written: BOOLEAN]
    BY <2>1
  <2>5. lockFile' \in [owner: Process, written: BOOLEAN] /\ lockFile'.owner = p /\ lockFile'.written
    BY <2>1, <2>2, <2>4
  <2>6. lockFile' # Nothing
    BY <2>5
  <2> QED BY <1>8, <2>1, <2>2, <2>3, <2>5, <2>6 DEF Write
<1>9. CASE WriteFails(p)
    BY <1>9 DEF WriteFails
<1>10. CASE Release(p)
    BY <1>10 DEF Release
<1>11. CASE ReadOwn(p)
    BY <1>11 DEF ReadOwn, Content
<1>12. CASE UnlinkOwn(p)
    BY <1>12 DEF UnlinkOwn
<1>13. CASE Crash(p)
    BY <1>13 DEF Crash
<1> QED
    BY <1>1, <1>2, <1>3, <1>4, <1>5, <1>6, <1>7, <1>8, <1>9, <1>10, <1>11, <1>12, <1>13 DEF Step

LEMMA LockInvStep == LockInv /\ [LockNext]_lockVars => LockInv'
<1>1. ASSUME LockInv, LockNext PROVE LockInv'
  <2>1. PICK p \in Process : Step(p) \/ Crash(p)
    BY <1>1 DEF LockNext
  <2>2. LockTypeOK' /\ Passed'
    BY <1>1, <2>1, PassedStep DEF LockInv
  <2>3. ReclaimedOnce' => Good'
    BY <1>1, <2>1, ReclaimedOnceBefore, GoodStep DEF LockInv
  <2> QED BY <2>2, <2>3 DEF LockInv
<1>2. ASSUME LockInv, UNCHANGED lockVars PROVE LockInv'
    BY <1>2 DEF lockVars, LockInv, LockTypeOK, Passed, Knows, HasCreated, Holds, ReclaimedOnce,
        Good, HolderNamed, RecheckedDead, UnlinksTheDead, Alive
<1> QED BY <1>1, <1>2

\* One file has one owner.
LEMMA OneHolder ==
    ASSUME HolderNamed, NEW p \in Process, NEW q \in Process, Holds(p), Holds(q)
    PROVE  p = q
<1>1. lockFile.owner = p
    BY DEF HolderNamed
<1>2. lockFile.owner = q
    BY DEF HolderNamed
<1> QED BY <1>1, <1>2

LEMMA LockInvImplies == LockInv => (ReclaimedOnce => OneControlRoom) /\ RunningOwnsLock
<1> SUFFICES ASSUME LockInv, ReclaimedOnce
             PROVE  OneControlRoom /\ RunningOwnsLock
    BY DEF RunningOwnsLock
<1>1. OneControlRoom
    BY OneHolder DEF LockInv, Good, Holds, OneControlRoom
<1>2. RunningOwnsLock
    BY NothingAssumption DEF LockInv, LockTypeOK, Good, HolderNamed, Holds, RunningOwnsLock
<1> QED BY <1>1, <1>2

\* At most one Control Room runs in a workspace, whatever the number of starts,
\* their interleaving, and those that die, as long as no stale lock was reclaimed
\* by two processes.
THEOREM SingleControlRoom == LockSpec => [](ReclaimedOnce => OneControlRoom)
<1>1. LockInit => LockInv
    BY InitLockInv
<1>2. LockInv /\ [LockNext]_lockVars => LockInv'
    BY LockInvStep
<1>3. LockInv => (ReclaimedOnce => OneControlRoom)
    BY LockInvImplies
<1> QED BY <1>1, <1>2, <1>3, PTL DEF LockSpec

\* Until then nobody removes the lock of a running Control Room, reclaiming
\* processes included.
THEOREM LockStaysOwned == LockSpec => []RunningOwnsLock
<1>1. LockInit => LockInv
    BY InitLockInv
<1>2. LockInv /\ [LockNext]_lockVars => LockInv'
    BY LockInvStep
<1>3. LockInv => RunningOwnsLock
    BY LockInvImplies
<1> QED BY <1>1, <1>2, <1>3, PTL DEF LockSpec

-----------------------------------------------------------------------------
(* The observations: the invariant.                                        *)

Claims(x) == x.status \in {"configured", "snapshot_ready"}

\* x is what operation o, now r, recorded when it was over: it names o's target and
\* the time o began, and claims success only if o had it on the configured scope.
Says(o, r, x) ==
    /\ x.target = TargetOf(o) /\ x.startedAt = r.startedAt /\ x.operation = Kind[o]
    /\ r.pc \notin {"idle", "executing"}
    /\ Claims(x) =>
        /\ Configured[o] /\ ~Failed(r.outcome) /\ r.outcome.whose = "ours"
        /\ Kind[o] \in {"snapshot", "preview"} => Required \ x.missing \subseteq r.outcome.evidence

\* What waits was said by its operation, or is the seed of a start that has more to do.
Waits(e) ==
    IF e.by = Absent
    THEN /\ e.observation.operation = "configuration"
         /\ Len(recordQueue) = 1 /\ seeding \notin {Absent, <<>>}
    ELSE Says(e.by, op[e.by], e.observation)

QueueInv == \A i \in 1..Len(recordQueue) : Waits(recordQueue[i])

\* No operation runs before the seeds are noted.
SeedInv == seeding # <<>> => \A o \in Operation : op[o].pc # "executing"

\* What the head has loaded is the file, and it still is to be written; what it has
\* renamed is in the file.
HeadInv ==
    /\ loaded # Absent => recordQueue # <<>>
    /\ loaded # Absent /\ ~renamed => loaded = file /\ RecordResolution = "write"
    /\ renamed => loaded # Absent /\ file[Due.observation.target] = Due.observation

FileInv ==
    \A t \in Targets : file[t] # Absent =>
        /\ file[t].target = t
        /\ file[t].operation # "configuration" => \E o \in Operation : Says(o, op[o], file[t])

Recorded(o, answer) ==
    answer \in {"committed", "ignored-stale", "idempotent"} =>
        /\ file[TargetOf(o)] # Absent
        /\ file[TargetOf(o)].startedAt >= op[o].startedAt

\* What an operation was told holds.
AnswerInv ==
    \A o \in Operation :
        /\ op[o].answer # Absent => op[o].pc = "over"
        /\ Recorded(o, op[o].answer)

ObsInv == ObsTypeOK /\ QueueInv /\ SeedInv /\ HeadInv /\ FileInv /\ AnswerInv

-----------------------------------------------------------------------------
(* What an operation comes to.                                             *)

LEMMA TargetsOf ==
    ASSUME NEW o \in Operation
    PROVE  TargetOf(o) \in Targets
BY DEF Targets

LEMMA ScopeFields ==
    ASSUME NEW p, NEW whose \in {"ours", "theirs"}
    PROVE  Scope(p, whose) \in Scopes /\ Scope(p, whose).key = whose
BY DEF Scope, Scopes, KindOf

LEMMA ObservationFields ==
    ASSUME NEW o \in Operation, NEW startedAt \in Nat,
           NEW status \in Errors \cup {"scope_mismatch", "configured", "snapshot_ready"},
           NEW scope \in Scopes \cup {Absent}, NEW missing \in SUBSET Required
    PROVE  LET x == Observation(o, startedAt, status, scope, missing) IN
           /\ x \in Observations
           /\ x.target = TargetOf(o) /\ x.startedAt = startedAt /\ x.operation = Kind[o]
           /\ x.status = status /\ x.missing = missing
BY TargetsOf, ObservationAssumption DEF Observation, Observations

\* A scope that stands for the target is the configured one.
LEMMA MatchingScope ==
    ASSUME NEW o \in Operation, NEW outcome \in [whose : {"ours", "theirs"}, evidence : SUBSET Required],
           outcome \in Outcomes(o), ~Failed(outcome),
           Binds(o, outcome),
           ScopeMatches(TargetOf(o), Scope(Provider[o], outcome.whose),
                        BoundScope(o, Scope(Provider[o], outcome.whose)))
    PROVE  Configured[o] /\ outcome.whose = "ours"
<1> DEFINE scope == Scope(Provider[o], outcome.whose)
<1>1. Configured[o]
  BY DEF ScopeMatches, TargetOf, Target
<1>2. TargetOf(o).key = IF Provider[o] = "linear" THEN "ref" ELSE "ours"
  BY <1>1 DEF TargetOf, Target
<1>3. scope.key = outcome.whose /\ scope \in Scopes
  BY ScopeFields
<1> HIDE DEF scope
<1>4. CASE TargetOf(o).key = scope.key
  BY <1>1, <1>2, <1>3, <1>4
<1>5. CASE TargetOf(o).key # scope.key
  <2>1. BoundScope(o, scope) = scope
    BY <1>5 DEF ScopeMatches, scope
  <2>2. CASE Kind[o] \in {"preview", "import"}
    BY <1>1, <2>2 DEF Binds
  <2>3. CASE Kind[o] \notin {"preview", "import"}
    <3>1. Kind[o] \in {"health", "snapshot"}
      BY <2>3, ObservationAssumption
    <3>2. TargetOf(o).key = "ref"
      BY <1>5 DEF ScopeMatches, scope
    <3>3. Provider[o] = "linear"
      BY <1>2, <3>2
    <3>4. ASSUME outcome \in [error : Errors] PROVE FALSE
      <4>1. "error" \in DOMAIN outcome
        BY <3>4
      <4> QED BY <4>1 DEF Failed
    <3>5. outcome \in [whose : {"ours"}, evidence : IF Kind[o] = "snapshot" THEN SUBSET Required ELSE {Required}]
      BY <3>1, <3>3, <3>4 DEF Outcomes
    <3> QED BY <1>1, <3>5
  <2> QED BY <2>2, <2>3
<1> QED BY <1>1, <1>4, <1>5

LEMMA OutcomeKinds ==
    ASSUME NEW o \in Operation, NEW outcome \in Outcomes(o)
    PROVE  \/ Failed(outcome) /\ outcome.error \in Errors /\ outcome \in [error : Errors]
           \/ ~Failed(outcome) /\ outcome \in [whose : {"ours", "theirs"}, evidence : SUBSET Required]
<1>1. CASE outcome \in [error : Errors]
  BY <1>1 DEF Failed
<1>2. CASE outcome \notin [error : Errors]
  <2>1. outcome \in [whose : {"ours", "theirs"}, evidence : SUBSET Required]
    BY <1>2 DEF Outcomes
  <2>2. DOMAIN outcome = {"whose", "evidence"}
    BY <2>1
  <2> QED BY <2>1, <2>2 DEF Failed
<1> QED BY <1>1, <1>2

\* What is projected from an outcome says what the operation came to.
LEMMA ProjectedSays ==
    ASSUME NEW o \in Operation, NEW r, r.startedAt \in Nat, r.outcome \in Outcomes(o),
           r.pc \notin {"idle", "executing"},
           NEW x, x = Projected(o, r.startedAt, r.outcome), x # Absent
    PROVE  x \in Observations /\ Says(o, r, x)
<1> DEFINE outcome == r.outcome
           scope == Scope(Provider[o], outcome.whose)
           failure(status) == Failure(o, r.startedAt, status, Absent)
<1>1. ASSUME NEW status \in Errors \cup {"scope_mismatch"}
      PROVE  failure(status) \in Observations /\ Says(o, r, failure(status))
  <2> DEFINE missing == IF Kind[o] = "snapshot" THEN Required ELSE {}
  <2>1. failure(status) = Observation(o, r.startedAt, status, Absent, missing)
    BY DEF Failure
  <2>2. missing \in SUBSET Required /\ status \notin {"configured", "snapshot_ready"}
    BY ObservationAssumption
  <2> HIDE DEF failure, missing
  <2> QED BY <2>1, <2>2, ObservationFields DEF Says, Claims
<1> HIDE DEF failure
<1>2. CASE Failed(outcome)
  <2>1. x = failure(outcome.error)
    BY <1>2 DEF Projected, failure
  <2> QED BY <1>1, <1>2, <2>1, OutcomeKinds
<1>3. CASE ~Failed(outcome)
  <2>1. outcome \in [whose : {"ours", "theirs"}, evidence : SUBSET Required]
    BY <1>3, OutcomeKinds
  <2>2. x = Success(o, r.startedAt, outcome)
    BY <1>3 DEF Projected
  <2>3. scope \in Scopes
    BY <2>1, ScopeFields
  <2>4. CASE ~Binds(o, outcome)
    <3>1. x = failure("scope_mismatch")
      BY <2>2, <2>4 DEF Success, failure
    <3> QED BY <1>1, <3>1
  <2>5. CASE Binds(o, outcome) /\ ~ScopeMatches(TargetOf(o), scope, BoundScope(o, scope))
    <3>1. x = Observation(o, r.startedAt, "scope_mismatch", scope, {})
      BY <2>2, <2>5 DEF Success
    <3> HIDE DEF scope
    <3> QED BY <2>3, <3>1, ObservationFields DEF Says, Claims
  <2>6. CASE Binds(o, outcome) /\ ScopeMatches(TargetOf(o), scope, BoundScope(o, scope))
    <3> DEFINE missing == IF Kind[o] \in {"snapshot", "preview"} THEN Required \ outcome.evidence ELSE {}
    <3>1. x = Observation(o, r.startedAt, ReadyStatus(o), scope, missing)
      BY <2>2, <2>6 DEF Success
    <3>2. Configured[o] /\ outcome.whose = "ours"
      BY <1>3, <2>1, <2>6, MatchingScope
    <3>3. missing \in SUBSET Required /\ ReadyStatus(o) \in {"configured", "snapshot_ready"}
      BY DEF ReadyStatus
    <3>4. Kind[o] \in {"snapshot", "preview"} => Required \ missing \subseteq outcome.evidence
      OBVIOUS
    <3> HIDE DEF scope, missing
    <3>5. /\ x \in Observations
          /\ x.target = TargetOf(o) /\ x.startedAt = r.startedAt /\ x.operation = Kind[o]
          /\ x.missing = missing
      BY <2>3, <3>1, <3>3, ObservationFields
    <3> QED BY <1>3, <3>2, <3>4, <3>5 DEF Says
  <2> QED BY <2>4, <2>5, <2>6
<1> QED BY <1>2, <1>3

-----------------------------------------------------------------------------
(* The steps.                                                              *)

\* What an operation that is over has done does not change.
Settled ==
    \A o \in Operation : op[o].pc \notin {"idle", "executing"} =>
        /\ op'[o].pc \notin {"idle", "executing"}
        /\ op'[o].startedAt = op[o].startedAt /\ op'[o].outcome = op[o].outcome

LEMMA SaysStays ==
    ASSUME NEW o \in Operation, NEW x, Settled, Says(o, op[o], x)
    PROVE  Says(o, op'[o], x)
BY DEF Settled, Says

LEMMA FileStands ==
    ASSUME FileInv, Settled, file' = file
    PROVE  FileInv'
<1> SUFFICES ASSUME NEW t \in Targets, file[t] # Absent
             PROVE  /\ file[t].target = t
                    /\ file[t].operation # "configuration" => \E o \in Operation : Says(o, op'[o], file[t])
  BY DEF FileInv, Says, Claims
<1>1. file[t].target = t
  BY DEF FileInv
<1>2. ASSUME file[t].operation # "configuration"
      PROVE  \E o \in Operation : Says(o, op'[o], file[t])
  <2>1. PICK o \in Operation : Says(o, op[o], file[t])
    BY <1>2 DEF FileInv
  <2> QED BY <2>1, SaysStays
<1> QED BY <1>1, <1>2

LEMMA SeedsAreTargets == Seeds \in Seq(Targets)
<1>1. {Seeds[i] : i \in DOMAIN Seeds} \subseteq Targets
  BY DEF Targets
<1> QED BY <1>1, ObservationAssumption

LEMMA InitObs == ObsInit => ObsInv
<1> SUFFICES ASSUME ObsInit PROVE ObsInv
  OBVIOUS
<1>1. ObsTypeOK
  <2>1. op \in [Operation -> Operations]
    BY DEF ObsInit, Operations
  <2>2. file \in Files
    BY DEF ObsInit, Files
  <2>3. recordQueue \in Seq([by : Operation \cup {Absent}, observation : Observations])
    BY DEF ObsInit
  <2>4. seeding \in Seq(Targets)
    BY SeedsAreTargets DEF ObsInit
  <2>5. clock \in Nat /\ loaded = Absent /\ renamed = FALSE /\ orphan = FALSE /\ reopen = FALSE
    BY DEF ObsInit
  <2> QED BY <2>1, <2>2, <2>3, <2>4, <2>5 DEF ObsTypeOK
<1>2. AnswerInv
  BY ObservationAssumption DEF ObsInit, AnswerInv, Recorded
<1> QED BY <1>1, <1>2 DEF ObsInit, ObsInv, QueueInv, SeedInv, HeadInv, FileInv

LEMMA SeqElements == ASSUME NEW S, NEW s \in Seq(S), NEW i \in 1..Len(s) PROVE s[i] \in S
OBVIOUS

LEMMA HeadOfQueue ==
    ASSUME ObsTypeOK, QueueInv, recordQueue # <<>>
    PROVE  /\ recordQueue \in Seq([by : Operation \cup {Absent}, observation : Observations])
           /\ Len(recordQueue) \in Nat /\ Len(recordQueue) > 0
           /\ Due \in [by : Operation \cup {Absent}, observation : Observations]
           /\ Waits(Due)
<1>1. recordQueue \in Seq([by : Operation \cup {Absent}, observation : Observations])
  BY DEF ObsTypeOK
<1>2. Len(recordQueue) \in Nat /\ Len(recordQueue) > 0
  BY <1>1
<1>3. 1 \in 1..Len(recordQueue)
  BY <1>2
<1>4. Waits(recordQueue[1])
  BY <1>3 DEF QueueInv
<1>5. recordQueue[1] \in [by : Operation \cup {Absent}, observation : Observations]
  <2> DEFINE E == [by : Operation \cup {Absent}, observation : Observations]
  <2>1. recordQueue \in Seq(E)
    BY <1>1
  <2> HIDE DEF E
  <2>2. recordQueue[1] \in E
    BY <1>3, <2>1, SeqElements
  <2> QED BY <2>2 DEF E
<1> QED BY <1>1, <1>2, <1>4, <1>5 DEF Due

\* An answer: the head of the queue is done, and its operation hears of it.
LEMMA AnswerStep ==
    ASSUME ObsInv, recordQueue # <<>>,
           NEW answer \in {"committed", "ignored-stale", "idempotent", "conflict", "failed"},
           Answer(answer), UNCHANGED <<clock, file>>, orphan' \in BOOLEAN, reopen' \in BOOLEAN,
           (Due.by # Absent /\ answer \in {"committed", "ignored-stale", "idempotent"}) =>
                Existing # Absent /\ Existing.startedAt >= Due.observation.startedAt
    PROVE  ObsInv' /\ \A o \in Operation : op'[o].startedAt = op[o].startedAt
<1> USE DEF ObsInv
<1>1. /\ recordQueue \in Seq([by : Operation \cup {Absent}, observation : Observations])
      /\ Len(recordQueue) \in Nat /\ Len(recordQueue) > 0
      /\ Due \in [by : Operation \cup {Absent}, observation : Observations]
      /\ Waits(Due)
  BY HeadOfQueue
<1>2. /\ Len(recordQueue') = Len(recordQueue) - 1
      /\ \A i \in 1..Len(recordQueue') : recordQueue'[i] = recordQueue[i + 1] /\ i + 1 \in 1..Len(recordQueue)
  BY <1>1 DEF Answer
<1>3. \A o \in Operation :
        /\ op'[o].startedAt = op[o].startedAt /\ op'[o].outcome = op[o].outcome
        /\ (op'[o] = op[o] \/ (Due.by = o /\ op'[o].pc = "over" /\ op'[o].answer = answer))
  <2> SUFFICES ASSUME NEW o \in Operation
               PROVE  /\ op'[o].startedAt = op[o].startedAt /\ op'[o].outcome = op[o].outcome
                      /\ (op'[o] = op[o] \/ (Due.by = o /\ op'[o].pc = "over" /\ op'[o].answer = answer))
    OBVIOUS
  <2>1. CASE Due.by = Absent
    <3>1. op' = op
      BY <2>1 DEF Answer
    <3> QED BY <3>1
  <2>2. CASE Due.by # Absent
    <3>1. op' = [op EXCEPT ![Due.by] = [@ EXCEPT !.pc = "over", !.answer = answer]]
      BY <2>2 DEF Answer
    <3>2. op \in [Operation -> Operations]
      BY DEF ObsTypeOK
    <3>3. Due.by # o => op'[o] = op[o]
      BY <3>1, <3>2
    <3>4. Due.by = o => op'[o] = [op[o] EXCEPT !.pc = "over", !.answer = answer]
      BY <3>1, <3>2
    <3>5. op[o] \in Operations
      BY <3>2
    <3>6. ASSUME Due.by = o
          PROVE  /\ op'[o].startedAt = op[o].startedAt /\ op'[o].outcome = op[o].outcome
                 /\ op'[o].pc = "over" /\ op'[o].answer = answer
      <4> DEFINE v == op[o]
      <4>1. v \in Operations
        BY <3>5
      <4> HIDE DEF v
      <4>2. /\ [v EXCEPT !.pc = "over", !.answer = answer].startedAt = v.startedAt
            /\ [v EXCEPT !.pc = "over", !.answer = answer].outcome = v.outcome
            /\ [v EXCEPT !.pc = "over", !.answer = answer].pc = "over"
            /\ [v EXCEPT !.pc = "over", !.answer = answer].answer = answer
        BY <4>1 DEF Operations
      <4> QED BY <3>4, <3>6, <4>2 DEF v
    <3> QED BY <3>3, <3>6
  <2> QED BY <2>1, <2>2
<1>4. Settled
  BY <1>3 DEF Settled
<1>5. ObsTypeOK'
  <2>1. op' \in [Operation -> Operations]
    <3>1. CASE Due.by = Absent
      BY <3>1 DEF Answer, ObsTypeOK
    <3>2. CASE Due.by # Absent
      <4>1. [op[Due.by] EXCEPT !.pc = "over", !.answer = answer] \in Operations
        BY <1>1, <3>2 DEF ObsTypeOK, Operations
      <4> QED BY <1>1, <3>2, <4>1 DEF Answer, ObsTypeOK
    <3> QED BY <3>1, <3>2
  <2>2. recordQueue' \in Seq([by : Operation \cup {Absent}, observation : Observations])
    BY <1>1 DEF Answer
  <2>3. seeding' \in Seq(Targets) \cup {Absent}
    <3>1. Due.by = Absent => seeding \in Seq(Targets) /\ seeding # <<>>
      BY <1>1 DEF Waits, ObsTypeOK
    <3>2. Due.by = Absent => Tail(seeding) \in Seq(Targets)
      BY <3>1
    <3> QED BY <3>2 DEF Answer, ObsTypeOK
  <2>4. loaded' \in Files \cup {Absent} /\ renamed' \in BOOLEAN
    BY DEF Answer
  <2> QED BY <2>1, <2>2, <2>3, <2>4 DEF ObsTypeOK
<1>6. QueueInv'
  <2> SUFFICES ASSUME NEW i \in 1..Len(recordQueue') PROVE Waits(recordQueue[i])'
    BY DEF QueueInv
  <2> DEFINE e == recordQueue[i + 1]
  <2>1. Waits(e) /\ recordQueue'[i] = e
    BY <1>2 DEF QueueInv
  <2>2. e.by # Absent /\ e.by \in Operation
    <3>1. Len(recordQueue) # 1
      BY <1>1, <1>2
    <3>2. e.by \in Operation \cup {Absent}
      <4>1. e \in [by : Operation \cup {Absent}, observation : Observations]
        <5> DEFINE E == [by : Operation \cup {Absent}, observation : Observations]
        <5>1. recordQueue \in Seq(E) /\ i + 1 \in 1..Len(recordQueue)
          BY <1>1, <1>2
        <5>2. ASSUME NEW k, k = i + 1 PROVE recordQueue[k] \in E
          <6> HIDE DEF E
          <6> QED BY <5>1, <5>2, SeqElements
        <5> QED BY <5>2
      <4> HIDE DEF e
      <4> QED BY <4>1
    <3> QED BY <2>1, <3>1, <3>2 DEF Waits
  <2> HIDE DEF e
  <2>3. Says(e.by, op'[e.by], e.observation)
    BY <1>4, <2>1, <2>2, SaysStays DEF Waits
  <2> QED BY <2>1, <2>2, <2>3 DEF Waits, Says, Claims
<1>7. SeedInv'
  BY <1>1, <1>3 DEF SeedInv, Answer, Waits
<1>8. HeadInv'
  BY DEF HeadInv, Answer
<1>9. FileInv'
  BY <1>4, FileStands
<1>10. AnswerInv'
  <2> SUFFICES ASSUME NEW o \in Operation
               PROVE  /\ op'[o].answer # Absent => op'[o].pc = "over"
                      /\ op'[o].answer \in {"committed", "ignored-stale", "idempotent"} =>
                            /\ file[TargetOf(o)] # Absent
                            /\ file[TargetOf(o)].startedAt >= op'[o].startedAt
    BY DEF AnswerInv, Recorded
  <2>1. CASE op'[o] = op[o]
    BY <2>1 DEF AnswerInv, Recorded
  <2>2. CASE Due.by = o /\ op'[o].pc = "over" /\ op'[o].answer = answer
    <3>1. Due.by # Absent
      BY <2>2, ObservationAssumption
    <3>2. Due.observation.target = TargetOf(o) /\ Due.observation.startedAt = op[o].startedAt
      BY <1>1, <2>2, <3>1 DEF Waits, Says
    <3> QED BY <1>3, <2>2, <3>1, <3>2 DEF Existing
  <2> QED BY <1>3, <2>1, <2>2
<1> QED BY <1>3, <1>5, <1>6, <1>7, <1>8, <1>9, <1>10

\* What is not in the queue's, the file's or an operation's hands does not count.
LEMMA StillStep ==
    ASSUME ObsInv, UNCHANGED <<op, recordQueue, loaded, renamed, file, seeding>>, ObsTypeOK'
    PROVE  ObsInv'
<1>1. QueueInv' /\ SeedInv'
  BY DEF ObsInv, QueueInv, SeedInv, Waits, Says, Claims
<1>2. HeadInv'
  BY DEF ObsInv, HeadInv, Due, RecordResolution, Existing
<1>3. FileInv' /\ AnswerInv'
  BY DEF ObsInv, FileInv, AnswerInv, Recorded, Says, Claims
<1> QED BY <1>1, <1>2, <1>3 DEF ObsInv

LEMMA TickStep == ASSUME ObsInv, Tick PROVE ObsInv'
<1>1. clock' \in Nat
  BY ObservationAssumption DEF Tick
<1>2. ObsTypeOK'
  BY <1>1 DEF Tick, ObsInv, ObsTypeOK
<1> QED BY <1>2, StillStep DEF Tick

LEMMA EnsureStep == ASSUME ObsInv, Ensure PROVE ObsInv'
<1> DEFINE x == Seed(Head(seeding))
<1>1. loaded = Absent /\ renamed = FALSE
  BY DEF Ensure, ObsInv, HeadInv, ObsTypeOK
<1>2. x \in Observations /\ x.operation = "configuration"
  <2>1. seeding \in Seq(Targets) /\ seeding # <<>>
    BY DEF Ensure, ObsInv, ObsTypeOK
  <2>2. Head(seeding) \in Targets
    BY <2>1
  <2>3. clock \in Nat
    BY DEF ObsInv, ObsTypeOK
  <2> QED BY <2>2, <2>3 DEF Seed, Observations
<1>3. recordQueue' = <<[by |-> Absent, observation |-> x]>>
  BY DEF Ensure
<1> HIDE DEF x
<1>4. ObsTypeOK'
  <2> DEFINE E == [by : Operation \cup {Absent}, observation : Observations]
  <2>1. [by |-> Absent, observation |-> x] \in E
    BY <1>2
  <2> HIDE DEF E
  <2>2. recordQueue' \in Seq(E)
    BY <1>3, <2>1
  <2> QED BY <2>2 DEF E, Ensure, ObsInv, ObsTypeOK
<1>5. QueueInv'
  <2>1. Len(recordQueue') = 1 /\ recordQueue'[1].by = Absent /\ recordQueue'[1].observation = x
    BY <1>3
  <2>2. Waits(recordQueue[1])'
    BY <1>2, <2>1 DEF Waits, Ensure
  <2> QED BY <2>1, <2>2 DEF QueueInv
<1>6. SeedInv' /\ HeadInv'
  BY <1>1 DEF Ensure, ObsInv, SeedInv, HeadInv
<1>7. FileInv' /\ AnswerInv'
  BY DEF Ensure, ObsInv, FileInv, AnswerInv, Recorded, Says, Claims
<1> QED BY <1>4, <1>5, <1>6, <1>7 DEF ObsInv

\* A step of one operation that was not over: what others did stands.
LEMMA QueueStands ==
    ASSUME ObsInv, Settled, UNCHANGED <<recordQueue, seeding>>
    PROVE  QueueInv'
<1> SUFFICES ASSUME NEW i \in 1..Len(recordQueue) PROVE Waits(recordQueue[i])'
  BY DEF QueueInv
<1> DEFINE E == [by : Operation \cup {Absent}, observation : Observations]
<1>1. recordQueue \in Seq(E)
  BY DEF ObsInv, ObsTypeOK
<1>2. recordQueue[i] \in E
  <2> HIDE DEF E
  <2> QED BY <1>1, SeqElements
<1> DEFINE e == recordQueue[i]
<1>3. Waits(e) /\ e.by \in Operation \cup {Absent}
  BY <1>2 DEF ObsInv, QueueInv
<1>4. CASE e.by = Absent
  BY <1>3, <1>4 DEF Waits
<1>5. CASE e.by # Absent
  <2> HIDE DEF e
  <2>1. Says(e.by, op[e.by], e.observation) /\ e.by \in Operation
    BY <1>3, <1>5 DEF Waits
  <2>2. Says(e.by, op'[e.by], e.observation)
    BY <2>1, SaysStays
  <2> QED BY <1>5, <2>2 DEF Waits, Says, Claims, e
<1> QED BY <1>4, <1>5

LEMMA BeginStep ==
    ASSUME ObsInv, NEW o \in Operation, Begin(o)
    PROVE  ObsInv' /\ \A q \in Operation : op'[q].answer # Absent => op'[q].startedAt = op[q].startedAt
<1> DEFINE v == op[o]
           w == [v EXCEPT !.pc = "executing", !.startedAt = clock]
<1>1. v \in Operations /\ v.pc = "idle" /\ clock \in Nat /\ op \in [Operation -> Operations]
  BY DEF Begin, ObsInv, ObsTypeOK
<1>2. op' = [op EXCEPT ![o] = w]
  BY DEF Begin
<1>3. v.answer = Absent
  BY <1>1 DEF ObsInv, AnswerInv
<1> HIDE DEF v
<1>4. w \in Operations /\ w.pc = "executing" /\ w.answer = v.answer
  BY <1>1 DEF Operations
<1> HIDE DEF w
<1>5. \A q \in Operation : op'[q] = IF q = o THEN w ELSE op[q]
  BY <1>1, <1>2
<1>6. Settled
  BY <1>1, <1>5 DEF Settled, v
<1>7. ObsTypeOK'
  BY <1>1, <1>2, <1>4 DEF Begin, ObsInv, ObsTypeOK
<1>8. QueueInv'
  BY <1>6, QueueStands DEF Begin
<1>9. SeedInv' /\ HeadInv'
  BY DEF Begin, ObsInv, SeedInv, HeadInv, RecordResolution, Existing, Due
<1>10. FileInv'
  BY <1>6, FileStands DEF Begin, ObsInv
<1>11. AnswerInv'
  <2> SUFFICES ASSUME NEW q \in Operation
               PROVE  (op'[q].answer # Absent => op'[q].pc = "over") /\ Recorded(q, op[q].answer)'
    BY DEF AnswerInv
  <2>1. CASE q = o
    BY <1>3, <1>4, <1>5, <2>1, ObservationAssumption DEF Recorded
  <2>2. CASE q # o
    BY <1>5, <2>2 DEF ObsInv, AnswerInv, Recorded, Begin
  <2> QED BY <2>1, <2>2
<1> QED BY <1>3, <1>4, <1>5, <1>7, <1>8, <1>9, <1>10, <1>11 DEF ObsInv

LEMMA FinishStep ==
    ASSUME ObsInv, NEW o \in Operation, Finish(o)
    PROVE  ObsInv' /\ \A q \in Operation : op'[q].startedAt = op[q].startedAt
<1> DEFINE v == op[o]
           E == [by : Operation \cup {Absent}, observation : Observations]
<1>1. v \in Operations /\ v.pc = "executing" /\ op \in [Operation -> Operations] /\ recordQueue \in Seq(E)
  BY DEF Finish, ObsInv, ObsTypeOK
<1>2. PICK outcome \in Outcomes(o) :
        LET observation == Projected(o, op[o].startedAt, outcome)
            next == IF observation = Absent THEN "over" ELSE "recording"
        IN  /\ op' = [op EXCEPT ![o] = [@ EXCEPT !.pc = next, !.outcome = outcome]]
            /\ recordQueue' = IF observation = Absent THEN recordQueue
                        ELSE Append(recordQueue, [by |-> o, observation |-> observation])
  BY DEF Finish
<1> DEFINE x == Projected(o, v.startedAt, outcome)
           step == IF x = Absent THEN "over" ELSE "recording"
           w == [v EXCEPT !.pc = step, !.outcome = outcome]
<1>3. /\ op' = [op EXCEPT ![o] = w]
      /\ recordQueue' = IF x = Absent THEN recordQueue ELSE Append(recordQueue, [by |-> o, observation |-> x])
  BY <1>2
<1>4. v.answer = Absent /\ v.startedAt \in Nat
  BY <1>1 DEF ObsInv, AnswerInv, Operations
<1> HIDE DEF x
<1>5. step \in {"over", "recording"}
  OBVIOUS
<1>6. outcome \in [error : Errors] \cup [whose : {"ours", "theirs"}, evidence : SUBSET Required]
  BY OutcomeKinds
<1> HIDE DEF v, step
<1>7. /\ w \in Operations /\ w.pc = step /\ w.answer = v.answer /\ w.outcome = outcome
      /\ w.startedAt = v.startedAt
  BY <1>1, <1>5, <1>6 DEF Operations
<1> HIDE DEF w
<1>8. \A q \in Operation : op'[q] = IF q = o THEN w ELSE op[q]
  BY <1>1, <1>3
<1>9. Settled
  BY <1>1, <1>8 DEF Settled, v
<1>10. x # Absent => x \in Observations /\ Says(o, w, x)
  BY <1>4, <1>5, <1>7, ProjectedSays DEF x
<1>11. seeding = <<>>
  BY <1>1 DEF ObsInv, SeedInv, v
<1>12. ObsTypeOK'
  <2>1. op' \in [Operation -> Operations]
    BY <1>1, <1>3, <1>7
  <2>2. recordQueue' \in Seq(E)
    <3>1. x # Absent => [by |-> o, observation |-> x] \in E
      BY <1>10
    <3> HIDE DEF E
    <3> QED BY <1>1, <1>3, <3>1
  <2> QED BY <2>1, <2>2 DEF Finish, ObsInv, ObsTypeOK
<1>13. QueueInv'
  <2> SUFFICES ASSUME NEW i \in 1..Len(recordQueue') PROVE Waits(recordQueue[i])'
    BY DEF QueueInv
  <2>1. ASSUME i \in 1..Len(recordQueue), recordQueue'[i] = recordQueue[i]
        PROVE  Waits(recordQueue[i])'
    <3> DEFINE e == recordQueue[i]
    <3>1. Waits(e) /\ e \in E
      <4>1. Waits(e)
        BY <2>1 DEF ObsInv, QueueInv
      <4> HIDE DEF E
      <4> QED BY <1>1, <2>1, <4>1, SeqElements
    <3> HIDE DEF e
    <3>2. e.by # Absent /\ e.by \in Operation /\ Says(e.by, op[e.by], e.observation)
      BY <1>11, <3>1 DEF Waits
    <3>3. Says(e.by, op'[e.by], e.observation)
      BY <1>9, <3>2, SaysStays
    <3>4. recordQueue'[i] = e
      BY <2>1 DEF e
    <3> QED BY <3>2, <3>3, <3>4 DEF Waits, Says, Claims
  <2>2. CASE x = Absent
    BY <1>3, <2>1, <2>2
  <2>3. CASE x # Absent
    <3> HIDE DEF E
    <3>1. /\ i \in 1..Len(recordQueue) /\ recordQueue'[i] = recordQueue[i]
          \/ recordQueue'[i] = [by |-> o, observation |-> x]
      BY <1>1, <1>3, <2>3
    <3>2. ASSUME recordQueue'[i] = [by |-> o, observation |-> x] PROVE Waits(recordQueue[i])'
      <4>1. Says(o, op'[o], x)
        BY <1>8, <1>10, <2>3
      <4> QED BY <3>2, <4>1, ObservationAssumption DEF Waits, Says, Claims
    <3> QED BY <2>1, <3>1, <3>2
  <2> QED BY <2>2, <2>3
<1>14. SeedInv'
  BY <1>11 DEF SeedInv, Finish
<1>15. HeadInv'
  <2>1. recordQueue # <<>> => recordQueue' # <<>> /\ recordQueue'[1] = recordQueue[1]
    <3> HIDE DEF E
    <3> QED BY <1>1, <1>3
  <2> QED BY <2>1 DEF ObsInv, HeadInv, RecordResolution, Existing, Due, Finish
<1>16. FileInv'
  BY <1>9, FileStands DEF Finish, ObsInv
<1>17. AnswerInv'
  <2> SUFFICES ASSUME NEW q \in Operation
               PROVE  (op'[q].answer # Absent => op'[q].pc = "over") /\ Recorded(q, op[q].answer)'
    BY DEF AnswerInv
  <2>1. CASE q = o
    BY <1>4, <1>7, <1>8, <2>1, ObservationAssumption DEF Recorded
  <2>2. CASE q # o
    BY <1>8, <2>2 DEF ObsInv, AnswerInv, Recorded, Finish
  <2> QED BY <2>1, <2>2
<1>18. \A q \in Operation : op'[q].startedAt = op[q].startedAt
  BY <1>7, <1>8 DEF v
<1> QED BY <1>12, <1>13, <1>14, <1>15, <1>16, <1>17, <1>18 DEF ObsInv

LEMMA LoadStep == ASSUME ObsInv, Load PROVE ObsInv'
<1>1. ObsTypeOK'
  BY DEF Load, ObsInv, ObsTypeOK
<1>2. Settled
  BY DEF Settled, Load
<1>3. QueueInv'
  BY <1>2, QueueStands DEF Load
<1>4. SeedInv' /\ AnswerInv'
  BY DEF Load, ObsInv, SeedInv, AnswerInv, Recorded
<1>5. HeadInv'
  BY DEF Load, AtTurn, ObsInv, HeadInv, RecordResolution, Existing, Due
<1>6. FileInv'
  BY <1>2, FileStands DEF Load, ObsInv
<1> QED BY <1>1, <1>3, <1>4, <1>5, <1>6 DEF ObsInv

\* What replaces an observation began later.
LEMMA RenameStep ==
    ASSUME ObsInv, Rename
    PROVE  /\ ObsInv'
           /\ \A t \in Targets : file[t] # Absent /\ file'[t] # file[t] =>
                file'[t] # Absent /\ file'[t].startedAt > file[t].startedAt
<1> DEFINE x == Due.observation
           t == Due.observation.target
<1>1. loaded # Absent /\ loaded = file /\ RecordResolution = "write" /\ recordQueue # <<>>
  BY DEF Rename, ObsInv, HeadInv
<1>2. Due \in [by : Operation \cup {Absent}, observation : Observations] /\ Waits(Due)
  BY <1>1, HeadOfQueue DEF ObsInv
<1>3. x \in Observations /\ x # Absent /\ t \in Targets /\ x.startedAt \in Nat /\ x.target = t
  BY <1>2, ObservationAssumption DEF Observations
<1>4. Due.by # Absent =>
        Due.by \in Operation /\ Says(Due.by, op[Due.by], x)
  BY <1>2 DEF Waits
<1>5. Due.by = Absent => x.operation = "configuration"
  BY <1>2 DEF Waits
<1>6. file[t] = Absent \/ x.startedAt > file[t].startedAt
  BY <1>1 DEF RecordResolution, Existing
<1>7. file' = [file EXCEPT ![t] = x] /\ file \in Files
  BY <1>1 DEF Rename, ObsInv, ObsTypeOK
<1>8. UNCHANGED <<op, recordQueue, loaded, seeding>> /\ renamed' = TRUE
  BY DEF Rename
<1> HIDE DEF x, t
<1>9. \A u \in Targets : file'[u] = IF u = t THEN x ELSE file[u]
  BY <1>7 DEF Files
<1>10. ObsTypeOK'
  <2>1. file' \in Files
    BY <1>3, <1>7 DEF Files
  <2> QED BY <2>1 DEF Rename, ObsInv, ObsTypeOK
<1>11. Settled
  BY <1>8 DEF Settled
<1>12. QueueInv'
  BY <1>8, <1>11, QueueStands
<1>13. SeedInv'
  BY <1>8 DEF ObsInv, SeedInv
<1>14. HeadInv'
  BY <1>1, <1>3, <1>8, <1>9 DEF HeadInv, Due, x, t
<1>15. FileInv'
  <2> SUFFICES ASSUME NEW u \in Targets, file'[u] # Absent
               PROVE  /\ file'[u].target = u
                      /\ file'[u].operation # "configuration" =>
                            \E o \in Operation : Says(o, op[o], file'[u])
    BY <1>8 DEF FileInv, Says, Claims
  <2>1. CASE u = t
    <3>1. file'[u] = x
      BY <1>9, <2>1
    <3> QED BY <1>3, <1>4, <1>5, <2>1, <3>1
  <2>2. CASE u # t
    <3>1. file'[u] = file[u]
      BY <1>9, <2>2
    <3> QED BY <3>1 DEF ObsInv, FileInv
  <2> QED BY <2>1, <2>2
<1>16. AnswerInv'
  <2> SUFFICES ASSUME NEW o \in Operation
               PROVE  /\ op[o].answer # Absent => op[o].pc = "over"
                      /\ op[o].answer \in {"committed", "ignored-stale", "idempotent"} =>
                            /\ file'[TargetOf(o)] # Absent
                            /\ file'[TargetOf(o)].startedAt >= op[o].startedAt
    BY <1>8 DEF AnswerInv, Recorded
  <2>1. op[o].answer # Absent => op[o].pc = "over"
    BY DEF ObsInv, AnswerInv
  <2>2. ASSUME op[o].answer \in {"committed", "ignored-stale", "idempotent"}
        PROVE  file'[TargetOf(o)] # Absent /\ file'[TargetOf(o)].startedAt >= op[o].startedAt
    <3>1. file[TargetOf(o)] # Absent /\ file[TargetOf(o)].startedAt >= op[o].startedAt
      BY <2>2 DEF ObsInv, AnswerInv, Recorded
    <3>2. TargetOf(o) \in Targets
      BY TargetsOf
    <3>3. CASE TargetOf(o) # t
      BY <1>9, <3>1, <3>2, <3>3
    <3>4. CASE TargetOf(o) = t
      <4>1. op[o].startedAt \in Nat /\ file[t].startedAt \in Nat
        <5>1. op[o] \in Operations /\ file[t] \in Observations
          BY <1>7, <3>1, <3>2, <3>4 DEF ObsInv, ObsTypeOK, Files
        <5> QED BY <5>1 DEF Operations, Observations
      <4>2. file'[TargetOf(o)] = x
        BY <1>9, <3>2, <3>4
      <4> QED BY <1>3, <1>6, <3>1, <3>4, <4>1, <4>2
    <3> QED BY <3>3, <3>4
  <2> QED BY <2>1, <2>2
<1> QED BY <1>3, <1>6, <1>9, <1>10, <1>12, <1>13, <1>14, <1>15, <1>16 DEF ObsInv

\* What an answered step keeps: the file, and when each operation began.
Answered == file' = file /\ \A o \in Operation : op'[o].startedAt = op[o].startedAt

LEMMA RefuseStep ==
    ASSUME ObsInv, Refuse \/ LoadFails
    PROVE  ObsInv' /\ Answered
<1>1. recordQueue # <<>> /\ UNCHANGED <<clock, file, orphan, reopen>>
  BY DEF Refuse, LoadFails, AtTurn
<1>2. orphan' \in BOOLEAN /\ reopen' \in BOOLEAN
  BY <1>1 DEF ObsInv, ObsTypeOK
<1>3. CASE Answer("failed")
  BY <1>1, <1>2, <1>3, AnswerStep DEF Answered
<1>4. CASE Answer("conflict")
  BY <1>1, <1>2, <1>4, AnswerStep DEF Answered
<1>5. CASE RecordResolution # "write" /\ Answer(RecordResolution)
  <2> DEFINE answer == RecordResolution
  <2>1. answer \in {"ignored-stale", "idempotent", "conflict"}
    BY <1>5 DEF RecordResolution
  <2>2. Due \in [by : Operation \cup {Absent}, observation : Observations] /\ Waits(Due)
    BY <1>1, HeadOfQueue DEF ObsInv
  <2>3. Due.observation \in Observations /\ Due.observation.startedAt \in Nat
    BY <2>2 DEF Observations
  <2>4. (Due.by # Absent /\ answer \in {"committed", "ignored-stale", "idempotent"}) =>
            Existing # Absent /\ Existing.startedAt >= Due.observation.startedAt
    <3> SUFFICES ASSUME Due.by # Absent, answer \in {"ignored-stale", "idempotent"}
                 PROVE  Existing # Absent /\ Existing.startedAt >= Due.observation.startedAt
      BY <2>1
    <3>1. Existing # Absent
      BY DEF RecordResolution
    <3>2. Existing.startedAt \in Nat
      <4>1. Due.observation.target \in Targets
        BY <2>3 DEF Observations
      <4>2. Existing \in Observations
        BY <3>1, <4>1 DEF Existing, ObsInv, ObsTypeOK, Files
      <4> QED BY <4>2 DEF Observations
    <3>3. Due.observation.startedAt < Existing.startedAt \/ Due.observation = Existing
      BY DEF RecordResolution
    <3> QED BY <2>3, <3>1, <3>2, <3>3
  <2>5. Answer(answer)
    BY <1>5
  <2> HIDE DEF answer
  <2> QED BY <1>1, <1>2, <2>1, <2>4, <2>5, AnswerStep DEF Answered
<1> QED BY <1>3, <1>4, <1>5 DEF Refuse, LoadFails

LEMMA WriteEnds ==
    ASSUME ObsInv, RecordFails \/ ConfirmRecord \/ RecordUnknown
    PROVE  ObsInv' /\ Answered
<1>1. recordQueue # <<>> /\ UNCHANGED <<clock, file>>
  BY DEF RecordFails, ConfirmRecord, RecordUnknown, ObsInv, HeadInv
<1>2. orphan' \in BOOLEAN /\ reopen' \in BOOLEAN
  BY DEF RecordFails, ConfirmRecord, RecordUnknown, ObsInv, ObsTypeOK
<1>3. CASE Answer("failed")
  BY <1>1, <1>2, <1>3, AnswerStep DEF Answered
<1>4. CASE ConfirmRecord
  <2>1. Due \in [by : Operation \cup {Absent}, observation : Observations]
    BY <1>1, HeadOfQueue DEF ObsInv
  <2>2. Due.observation.startedAt \in Nat /\ Due.observation # Absent
    BY <2>1, ObservationAssumption DEF Observations
  <2>3. Existing = Due.observation
    BY <1>4 DEF ConfirmRecord, ObsInv, HeadInv, Existing
  <2>4. Existing # Absent /\ Existing.startedAt >= Due.observation.startedAt
    BY <2>2, <2>3
  <2> QED BY <1>1, <1>2, <1>4, <2>4, AnswerStep DEF ConfirmRecord, Answered
<1> QED BY <1>3, <1>4 DEF RecordFails, RecordUnknown

LEMMA RestartStep ==
    ASSUME ObsInv, ObserverRestarts
    PROVE  ObsInv' /\ Answered
<1>1. \A o \in Operation :
        op[o] \in Operations /\ op'[o] = IF op[o].pc \in {"executing", "recording"}
                                         THEN [op[o] EXCEPT !.pc = "over"] ELSE op[o]
  BY DEF ObserverRestarts, ObsInv, ObsTypeOK
<1>2. ASSUME NEW v \in Operations
      PROVE  LET w == [v EXCEPT !.pc = "over"] IN
             /\ w \in Operations /\ w.pc = "over" /\ w.startedAt = v.startedAt
             /\ w.outcome = v.outcome /\ w.answer = v.answer
  BY DEF Operations
<1>3. \A o \in Operation :
        /\ op'[o] \in Operations /\ op'[o].startedAt = op[o].startedAt /\ op'[o].outcome = op[o].outcome
        /\ op'[o].answer = op[o].answer
        /\ op'[o].pc = IF op[o].pc \in {"executing", "recording"} THEN "over" ELSE op[o].pc
  BY <1>1, <1>2
<1>4. Settled
  BY <1>3 DEF Settled
<1>5. ObsTypeOK'
  <2>1. op' \in [Operation -> Operations]
    BY <1>3 DEF ObserverRestarts
  <2>2. recordQueue' \in Seq([by : Operation \cup {Absent}, observation : Observations])
    BY DEF ObserverRestarts
  <2> QED BY <2>1, <2>2, SeedsAreTargets DEF ObserverRestarts, ObsInv, ObsTypeOK
<1>6. QueueInv' /\ HeadInv'
  BY DEF ObserverRestarts, QueueInv, HeadInv
<1>7. SeedInv'
  BY <1>3 DEF SeedInv
<1>8. FileInv'
  BY <1>4, FileStands DEF ObserverRestarts, ObsInv
<1>9. AnswerInv'
  BY <1>3 DEF ObsInv, AnswerInv, Recorded, ObserverRestarts
<1>10. Answered
  BY <1>3 DEF Answered, ObserverRestarts
<1> QED BY <1>5, <1>6, <1>7, <1>8, <1>9, <1>10 DEF ObsInv

-----------------------------------------------------------------------------
(* The theorems.                                                           *)

LEMMA ObsInvStep == ObsInv /\ [ObsNext]_obsVars => ObsInv'
<1> SUFFICES ASSUME ObsInv, [ObsNext]_obsVars PROVE ObsInv'
  OBVIOUS
<1>1. CASE Tick
  BY <1>1, TickStep
<1>2. CASE Ensure
  BY <1>2, EnsureStep
<1>3. ASSUME NEW o \in Operation, Begin(o) PROVE ObsInv'
  BY <1>3, BeginStep
<1>4. ASSUME NEW o \in Operation, Finish(o) PROVE ObsInv'
  BY <1>4, FinishStep
<1>5. CASE Refuse \/ LoadFails
  BY <1>5, RefuseStep
<1>6. CASE Load
  BY <1>6, LoadStep
<1>7. CASE Rename
  BY <1>7, RenameStep
<1>8. CASE RecordFails \/ ConfirmRecord \/ RecordUnknown
  BY <1>8, WriteEnds
<1>9. CASE ObserverRestarts
  BY <1>9, RestartStep
<1>10. CASE UNCHANGED obsVars
  <2>1. ObsTypeOK'
    BY <1>10 DEF obsVars, ObsInv, ObsTypeOK
  <2> QED BY <1>10, <2>1, StillStep DEF obsVars
<1> QED BY <1>1, <1>2, <1>3, <1>4, <1>5, <1>6, <1>7, <1>8, <1>9, <1>10 DEF ObsNext

LEMMA ObsInvAlways == ObsSpec => []ObsInv
BY InitObs, ObsInvStep, PTL DEF ObsSpec

\* Every observation the file ever holds names its target, an operation and a time.
THEOREM ObserverIsTyped == ObsSpec => []ObsTypeOK
BY ObsInvAlways, PTL DEF ObsInv

\* provider-observation.ts: whatever is lost, refused or overtaken, what is shown as
\* ready was seen by an operation of that target that began when the observation says.
THEOREM ReadyWasSeen == ObsSpec => []ObservationsAreTrue
<1>1. ObsInv => ObservationsAreTrue
  BY DEF ObsInv, FileInv, ObservationsAreTrue, Says, Claims
<1> QED BY <1>1, ObsInvAlways, PTL

\* provider-observation-coordinator.ts: only what began later replaces what is stored,
\* and an operation that is told so is in the file, or what began no earlier is.
THEOREM NewestIsKept == ObsSpec => NewestWins
<1>1. ASSUME ObsInv, ObsInv', [ObsNext]_obsVars
      PROVE  [\A t \in Targets :
                /\ file[t] # Absent /\ file'[t] # file[t] =>
                        file'[t] # Absent /\ file'[t].startedAt > file[t].startedAt
                /\ \A o \in Operation :
                    (TargetOf(o) = t /\ op'[o].answer \in {"committed", "ignored-stale", "idempotent"})
                        => file'[t] # Absent /\ file'[t].startedAt >= op[o].startedAt]_obsVars
  <2> DEFINE Replaced(t) == file[t] # Absent /\ file'[t] # file[t] =>
                    file'[t] # Absent /\ file'[t].startedAt > file[t].startedAt
             Told(t) == \A o \in Operation :
                (TargetOf(o) = t /\ op'[o].answer \in {"committed", "ignored-stale", "idempotent"})
                    => file'[t] # Absent /\ file'[t].startedAt >= op[o].startedAt
  <2> SUFFICES ASSUME ObsNext PROVE \A t \in Targets : Replaced(t) /\ Told(t)
    BY <1>1
  <2>1. \A t \in Targets : Replaced(t)
    <3>1. CASE Rename
      BY <1>1, <3>1, RenameStep
    <3>2. CASE file' = file
      BY <3>2
    <3> QED BY <3>1, <3>2 DEF ObsNext, Tick, Ensure, Begin, Finish, Refuse, LoadFails, Load, RecordFails,
            ConfirmRecord, RecordUnknown, ObserverRestarts
  <2>2. \A o \in Operation : op'[o].answer # Absent => op'[o].startedAt = op[o].startedAt
    <3>1. ASSUME NEW o \in Operation, Begin(o)
          PROVE  \A q \in Operation : op'[q].answer # Absent => op'[q].startedAt = op[q].startedAt
      BY <1>1, <3>1, BeginStep
    <3>2. ASSUME NEW o \in Operation, Finish(o)
          PROVE  \A q \in Operation : op'[q].startedAt = op[q].startedAt
      BY <1>1, <3>2, FinishStep
    <3>3. CASE Refuse \/ LoadFails \/ RecordFails \/ ConfirmRecord \/ RecordUnknown \/ ObserverRestarts
      BY <1>1, <3>3, RefuseStep, WriteEnds, RestartStep DEF Answered
    <3>4. CASE Tick \/ Ensure \/ Load \/ Rename
      BY <3>4 DEF Tick, Ensure, Load, Rename
    <3> QED BY <3>1, <3>2, <3>3, <3>4 DEF ObsNext
  <2>3. \A t \in Targets : Told(t)
    <3> SUFFICES ASSUME NEW o \in Operation, op'[o].answer \in {"committed", "ignored-stale", "idempotent"}
                 PROVE  /\ file'[TargetOf(o)] # Absent
                        /\ file'[TargetOf(o)].startedAt >= op[o].startedAt
      OBVIOUS
    <3>1. op'[o].answer # Absent
      BY ObservationAssumption
    <3>2. Recorded(o, op[o].answer)'
      BY <1>1 DEF ObsInv, AnswerInv
    <3> QED BY <2>2, <3>1, <3>2 DEF Recorded
  <2> QED BY <2>1, <2>3
<1> QED BY <1>1, ObsInvAlways, PTL DEF ObsSpec, NewestWins

-----------------------------------------------------------------------------
(* The configuration: the invariant.                                       *)

\* A writer takes no other locks than these.
OwnLocks == \A w \in Writer : Held(w) \subseteq {WorkspaceLock(w), UserLock}

\* A writer about to write has found what its plan was made from, and since then
\* only a person has changed it.
Compared(w) == content[TargetFile(w)] = writer[w].plan.base \/ TargetFile(w) \in edited
BaseStands == \A w \in Writer : writer[w].pc = "renaming" => Compared(w)

ConfInv == ConfTypeOK /\ OwnLocks /\ LocksAreReleased /\ BaseStands

\* What is in a writer's hands does not change by a step of another one.
Same(w) == writer'[w] = writer[w]

\* A step that puts r for the record of w.
LEMMA RecordOfWriter ==
    ASSUME ConfTypeOK, NEW w \in Writer, NEW r, DOMAIN r = DOMAIN Idle, writer' = [writer EXCEPT ![w] = r]
    PROVE  /\ DOMAIN writer' = Writer /\ \A v \in Writer : DOMAIN writer'[v] = DOMAIN Idle
           /\ writer'[w] = r /\ \A v \in Writer : v # w => Same(v)
BY DEF ConfTypeOK, Same

LEMMA Fields ==
    DOMAIN Idle = {"pc", "request", "expected", "view", "plan", "result"}
BY DEF Idle

\* Two writers that hold their locks do not have the same target.
LEMMA LocksExclude ==
    ASSUME ConfTypeOK, NEW v \in Writer, NEW w \in Writer, v # w,
           LocksFor(v) \subseteq Held(v), LocksFor(w) \subseteq Held(w)
    PROVE  TargetFile(v) # TargetFile(w)
<1> SUFFICES ASSUME TargetFile(v) = TargetFile(w) PROVE FALSE
  OBVIOUS
<1>1. \A l \in LockFiles : ~(l \in Held(v) /\ l \in Held(w))
  BY DEF Held
<1>2. TargetScope(writer[v].request) = TargetScope(writer[w].request)
  BY DEF TargetFile, FileOf
<1>3. CASE TargetScope(writer[w].request) = "user"
  <2>1. UserLock \in LocksFor(v) /\ UserLock \in LocksFor(w) /\ UserLock \in LockFiles
    BY <1>2, <1>3 DEF LocksFor, LockFiles, UserLock
  <2> QED BY <1>1, <2>1
<1>4. CASE TargetScope(writer[w].request) # "user"
  <2>1. WorkspaceOf[v] = WorkspaceOf[w]
    BY <1>2, <1>4 DEF TargetFile, FileOf
  <2>2. WorkspaceLock(v) = WorkspaceLock(w) /\ WorkspaceLock(w) \in LockFiles
    BY <2>1 DEF WorkspaceLock, LockFiles, Workspaces
  <2>3. WorkspaceLock(v) \in Held(v) /\ WorkspaceLock(w) \in Held(w)
    BY DEF LocksFor
  <2> QED BY <1>1, <2>2, <2>3
<1> QED BY <1>3, <1>4

LEMMA InitConf == ConfInit => ConfInv
<1> SUFFICES ASSUME ConfInit PROVE ConfInv
  OBVIOUS
<1>1. \A w \in Writer : writer[w] = Idle /\ writer[w].pc = "idle" /\ Held(w) = {}
  BY ConfigurationAssumption DEF ConfInit, Idle, Held
<1>2. ConfTypeOK
  BY ConfigurationAssumption DEF ConfInit, ConfTypeOK
<1> QED BY <1>1, <1>2 DEF ConfInv, OwnLocks, LocksAreReleased, BaseStands

Unlocked == {"idle", "previewing", "reading", "over"}
Locked == {"checked", "rereading", "verified", "renaming", "confirming"}

\* A writer moves on and leaves files and locks alone.
LEMMA WriterMoves ==
    ASSUME ConfInv, NEW w \in Writer, NEW r, DOMAIN r = DOMAIN Idle, writer' = [writer EXCEPT ![w] = r],
           UNCHANGED <<content, lock, edited>>,
           r.pc \in Unlocked => Held(w) = {},
           r.pc \in Locked => r.request = writer[w].request /\ LocksFor(w) \subseteq Held(w),
           r.pc # "renaming"
    PROVE  ConfInv'
<1>1. /\ DOMAIN writer' = Writer /\ \A v \in Writer : DOMAIN writer'[v] = DOMAIN Idle
      /\ writer'[w] = r /\ \A v \in Writer : v # w => writer'[v] = writer[v]
  BY RecordOfWriter DEF ConfInv, Same
<1>2. ConfTypeOK' /\ OwnLocks'
  BY <1>1 DEF ConfInv, ConfTypeOK, OwnLocks, Held, WorkspaceLock
<1>3. LocksAreReleased'
  <2> SUFFICES ASSUME NEW v \in Writer
               PROVE  /\ writer'[v].pc \in Unlocked => Held(v) = {}
                      /\ writer'[v].pc \in Locked => LocksFor(v)' \subseteq Held(v)
    BY DEF LocksAreReleased, Held, Unlocked, Locked
  <2>1. CASE v = w
    BY <1>1, <2>1 DEF LocksFor
  <2>2. CASE v # w
    BY <1>1, <2>2 DEF ConfInv, LocksAreReleased, LocksFor, Unlocked, Locked
  <2> QED BY <2>1, <2>2
<1>4. BaseStands'
  BY <1>1 DEF ConfInv, BaseStands, Compared, TargetFile
<1> QED BY <1>2, <1>3, <1>4 DEF ConfInv

LEMMA Concludes ==
    ASSUME ConfInv, NEW w \in Writer, NEW result, Conclude(w, result), UNCHANGED <<content, lock, edited>>
    PROVE  ConfInv'
<1> DEFINE r == [writer[w] EXCEPT !.pc = "releasing", !.result = result]
<1>1. DOMAIN r = DOMAIN Idle /\ r.pc = "releasing"
  BY Fields DEF ConfInv, ConfTypeOK
<1>2. writer' = [writer EXCEPT ![w] = r]
  BY DEF Conclude
<1> HIDE DEF r
<1> QED BY <1>1, <1>2, WriterMoves DEF Unlocked, Locked

LEMMA Goes ==
    ASSUME ConfInv, NEW w \in Writer, NEW to, to \notin Unlocked \cup {"renaming"}, WriterGoto(w, to),
           UNCHANGED <<content, lock, edited>>,
           to \in Locked => LocksFor(w) \subseteq Held(w)
    PROVE  ConfInv'
<1> DEFINE r == [writer[w] EXCEPT !.pc = to]
<1>1. DOMAIN r = DOMAIN Idle /\ r.pc = to /\ r.request = writer[w].request
  BY Fields DEF ConfInv, ConfTypeOK
<1>2. writer' = [writer EXCEPT ![w] = r]
  BY DEF WriterGoto
<1> HIDE DEF r
<1> QED BY <1>1, <1>2, WriterMoves

LEMMA InspectStep == ASSUME ConfInv, NEW w \in Writer, Inspect(w) PROVE ConfInv'
<1>1. PICK request \in Requests[w] :
        writer' = [writer EXCEPT ![w] = [@ EXCEPT !.pc = "previewing", !.request = request,
                                                  !.expected = View(WorkspaceOf[w])]]
  BY DEF Inspect
<1> DEFINE r == [writer[w] EXCEPT !.pc = "previewing", !.request = request, !.expected = View(WorkspaceOf[w])]
<1>2. DOMAIN r = DOMAIN Idle /\ r.pc = "previewing"
  BY Fields DEF ConfInv, ConfTypeOK
<1>3. writer' = [writer EXCEPT ![w] = r]
  BY <1>1
<1> HIDE DEF r
<1>4. Held(w) = {} /\ UNCHANGED <<content, lock, edited>>
  BY DEF Inspect, ConfInv, LocksAreReleased
<1> QED BY <1>2, <1>3, <1>4, WriterMoves DEF Unlocked, Locked

LEMMA PrepareStep == ASSUME ConfInv, NEW w \in Writer, Prepare(w) PROVE ConfInv'
<1> DEFINE view == View(WorkspaceOf[w])
           to == IF writer[w].pc = "previewing" THEN "reading" ELSE "rereading"
           r == [writer[w] EXCEPT !.pc = to, !.view = view]
<1>1. UNCHANGED <<content, lock, edited>> /\ writer[w].pc \in {"previewing", "checked"}
  BY DEF Prepare
<1>2. CASE Conclude(w, "conflict")
  BY <1>1, <1>2, Concludes
<1>3. CASE writer' = [writer EXCEPT ![w] = r]
  <2>1. DOMAIN r = DOMAIN Idle /\ r.pc = to /\ r.request = writer[w].request
    <3> HIDE DEF to, view
    <3> QED BY Fields DEF ConfInv, ConfTypeOK
  <2>2. to \in Unlocked => Held(w) = {}
    BY <1>1 DEF ConfInv, LocksAreReleased, Unlocked
  <2>3. to \in Locked => LocksFor(w) \subseteq Held(w)
    BY <1>1 DEF ConfInv, LocksAreReleased, Locked
  <2>4. to # "renaming"
    OBVIOUS
  <2> HIDE DEF r, to
  <2> QED BY <1>1, <1>3, <2>1, <2>2, <2>3, <2>4, WriterMoves
<1>4. Conclude(w, "conflict") \/ writer' = [writer EXCEPT ![w] = r]
  <2>1. CASE view # writer[w].expected
    BY <2>1 DEF Prepare
  <2>2. CASE view = writer[w].expected
    <3>1. writer' = [writer EXCEPT ![w] =
                            [@ EXCEPT !.pc = IF writer[w].pc = "previewing" THEN "reading" ELSE "rereading",
                                      !.view = view]]
      BY <2>2 DEF Prepare
    <3> QED BY <3>1
  <2> QED BY <2>1, <2>2
<1> QED BY <1>2, <1>3, <1>4

LEMMA MakePlanStep == ASSUME ConfInv, NEW w \in Writer, MakePlan(w) PROVE ConfInv'
<1> DEFINE plan == PlanFor(writer[w].request, writer[w].view, content[TargetFile(w)])
           r == [writer[w] EXCEPT !.pc = "planned", !.plan = plan]
<1>1. UNCHANGED <<content, lock, edited>>
  BY DEF MakePlan
<1>2. CASE Conclude(w, "refused")
  BY <1>1, <1>2, Concludes
<1>3. CASE writer' = [writer EXCEPT ![w] = r]
  <2>1. DOMAIN r = DOMAIN Idle /\ r.pc = "planned"
    <3> HIDE DEF plan
    <3> QED BY Fields DEF ConfInv, ConfTypeOK
  <2> HIDE DEF r
  <2> QED BY <1>1, <1>3, <2>1, WriterMoves DEF Unlocked, Locked
<1>4. CASE writer[w].pc = "rereading" /\ WriterGoto(w, "verified")
  <2>1. LocksFor(w) \subseteq Held(w)
    BY <1>4 DEF ConfInv, LocksAreReleased
  <2> QED BY <1>1, <1>4, <2>1, Goes DEF Unlocked
<1>5. \/ Conclude(w, "refused") \/ writer' = [writer EXCEPT ![w] = r]
      \/ writer[w].pc = "rereading" /\ WriterGoto(w, "verified")
  BY DEF MakePlan
<1> QED BY <1>2, <1>3, <1>4, <1>5

LEMMA LockStep == ASSUME ConfInv, NEW w \in Writer, Lock(w) PROVE ConfInv'
<1>1. PICK l \in LocksFor(w) \ Held(w) :
        IF lock[l] = Missing THEN lock' = [lock EXCEPT ![l] = w] /\ UNCHANGED writer
        ELSE UNCHANGED lock /\ Conclude(w, "locked")
  BY DEF Lock
<1>2. UNCHANGED <<content, edited>> /\ writer[w].pc = "planned"
  BY DEF Lock
<1>3. CASE lock[l] # Missing
  BY <1>1, <1>2, <1>3, Concludes
<1>4. CASE lock[l] = Missing
  <2>1. lock' = [lock EXCEPT ![l] = w] /\ writer' = writer
    BY <1>1, <1>4
  <2>2. l \in {WorkspaceLock(w), UserLock} /\ l \in LockFiles
    BY DEF LocksFor, LockFiles, WorkspaceLock, UserLock, Workspaces
  <2>3. lock' \in [LockFiles -> Writer \cup {Missing}]
    BY <2>1, <2>2 DEF ConfInv, ConfTypeOK
  <2>4. Held(w)' = Held(w) \cup {l}
    BY <2>1, <2>2 DEF ConfInv, ConfTypeOK, Held
  <2>5. \A v \in Writer : v # w => Held(v)' = Held(v)
    BY <1>4, <2>1, <2>2, ConfigurationAssumption DEF ConfInv, ConfTypeOK, Held
  <2>6. ConfTypeOK' /\ BaseStands'
    BY <1>2, <2>1, <2>3 DEF ConfInv, ConfTypeOK, BaseStands, Compared, TargetFile
  <2>7. OwnLocks'
    BY <2>2, <2>4, <2>5 DEF ConfInv, OwnLocks, WorkspaceLock
  <2>8. LocksAreReleased'
    BY <1>2, <2>1, <2>5 DEF ConfInv, LocksAreReleased, LocksFor
  <2> QED BY <2>6, <2>7, <2>8 DEF ConfInv
<1> QED BY <1>3, <1>4

LEMMA CheckStep == ASSUME ConfInv, NEW w \in Writer, Check(w) PROVE ConfInv'
<1>1. UNCHANGED <<content, lock, edited>> /\ LocksFor(w) \subseteq Held(w)
  BY DEF Check
<1>2. Conclude(w, "replayed") \/ Conclude(w, "conflict") \/ WriterGoto(w, "checked")
  BY DEF Check
<1> QED BY <1>1, <1>2, Concludes, Goes DEF Unlocked

\* No other writer that is about to write has the same target, so that an edit this
\* one has seen is none that another one overlooks.
LEMMA CompareStep == ASSUME ConfInv, NEW w \in Writer, Compare(w) PROVE ConfInv'
<1>1. UNCHANGED <<content, lock>> /\ writer[w].pc = "verified"
  BY DEF Compare
<1>2. CASE content[TargetFile(w)] # writer[w].plan.base
  BY <1>1, <1>2, Concludes DEF Compare
<1>3. CASE content[TargetFile(w)] = writer[w].plan.base
  <2> DEFINE r == [writer[w] EXCEPT !.pc = "renaming"]
  <2>1. writer' = [writer EXCEPT ![w] = r] /\ edited' = edited \ {TargetFile(w)}
    BY <1>3 DEF Compare, WriterGoto
  <2>2. /\ DOMAIN r = DOMAIN Idle /\ r.pc = "renaming"
        /\ r.request = writer[w].request /\ r.plan = writer[w].plan
    BY Fields DEF ConfInv, ConfTypeOK
  <2> HIDE DEF r
  <2>3. /\ DOMAIN writer' = Writer /\ \A v \in Writer : DOMAIN writer'[v] = DOMAIN Idle
        /\ writer'[w] = r /\ \A v \in Writer : v # w => writer'[v] = writer[v]
    BY <2>1, <2>2, RecordOfWriter DEF ConfInv, Same
  <2>4. \A v \in Writer : TargetFile(v)' = TargetFile(v)
    BY <2>2, <2>3 DEF TargetFile
  <2>5. ConfTypeOK' /\ OwnLocks'
    BY <1>1, <2>1, <2>3 DEF ConfInv, ConfTypeOK, OwnLocks, Held, WorkspaceLock
  <2>6. LocksFor(w) \subseteq Held(w)
    BY <1>1 DEF ConfInv, LocksAreReleased
  <2>7. LocksAreReleased'
    <3> SUFFICES ASSUME NEW v \in Writer
                 PROVE  /\ writer'[v].pc \in Unlocked => Held(v) = {}
                        /\ writer'[v].pc \in Locked => LocksFor(v)' \subseteq Held(v)
      BY <1>1 DEF LocksAreReleased, Held, Unlocked, Locked
    <3>1. CASE v = w
      BY <2>2, <2>3, <2>6, <3>1 DEF LocksFor, Unlocked
    <3>2. CASE v # w
      BY <2>3, <3>2 DEF ConfInv, LocksAreReleased, LocksFor, Unlocked, Locked
    <3> QED BY <3>1, <3>2
  <2>8. BaseStands'
    <3> SUFFICES ASSUME NEW v \in Writer, writer'[v].pc = "renaming"
                 PROVE  content[TargetFile(v)] = writer'[v].plan.base \/ TargetFile(v) \in edited'
      BY <1>1, <2>4 DEF BaseStands, Compared
    <3>1. CASE v = w
      BY <1>3, <2>2, <2>3, <3>1
    <3>2. CASE v # w
      <4>1. writer'[v] = writer[v] /\ Compared(v) /\ LocksFor(v) \subseteq Held(v)
        BY <2>3, <3>2 DEF ConfInv, BaseStands, LocksAreReleased
      <4>2. TargetFile(v) # TargetFile(w)
        BY <2>6, <3>2, <4>1, LocksExclude DEF ConfInv
      <4> QED BY <2>1, <4>1, <4>2 DEF Compared
    <3> QED BY <3>1, <3>2
  <2> QED BY <2>5, <2>7, <2>8 DEF ConfInv
<1> QED BY <1>2, <1>3

LEMMA ReplaceStep == ASSUME ConfInv, NEW w \in Writer, ReplaceFile(w) PROVE ConfInv'
<1> DEFINE r == [writer[w] EXCEPT !.pc = "confirming"]
           desired == writer[w].plan.desired
<1>1. UNCHANGED <<lock, edited>> /\ writer[w].pc = "renaming" /\ writer' = [writer EXCEPT ![w] = r]
  BY DEF ReplaceFile, WriterGoto
<1>2. content' = [content EXCEPT ![TargetFile(w)] = desired]
  BY DEF ReplaceFile
<1>3. DOMAIN r = DOMAIN Idle /\ r.pc = "confirming" /\ r.request = writer[w].request
  BY Fields DEF ConfInv, ConfTypeOK
<1> HIDE DEF r, desired
<1>4. /\ DOMAIN writer' = Writer /\ \A v \in Writer : DOMAIN writer'[v] = DOMAIN Idle
      /\ writer'[w] = r /\ \A v \in Writer : v # w => writer'[v] = writer[v]
  BY <1>1, <1>3, RecordOfWriter DEF ConfInv, Same
<1>5. LocksFor(w) \subseteq Held(w)
  BY <1>1 DEF ConfInv, LocksAreReleased
<1>6. ConfTypeOK' /\ OwnLocks'
  BY <1>1, <1>2, <1>4 DEF ConfInv, ConfTypeOK, OwnLocks, Held, WorkspaceLock
<1>7. LocksAreReleased'
  <2> SUFFICES ASSUME NEW v \in Writer
               PROVE  /\ writer'[v].pc \in Unlocked => Held(v) = {}
                      /\ writer'[v].pc \in Locked => LocksFor(v)' \subseteq Held(v)
    BY <1>1 DEF LocksAreReleased, Held, Unlocked, Locked
  <2>1. CASE v = w
    BY <1>3, <1>4, <1>5, <2>1 DEF LocksFor, Unlocked
  <2>2. CASE v # w
    BY <1>4, <2>2 DEF ConfInv, LocksAreReleased, LocksFor, Unlocked, Locked
  <2> QED BY <2>1, <2>2
<1>8. BaseStands'
  <2> SUFFICES ASSUME NEW v \in Writer, writer'[v].pc = "renaming" PROVE Compared(v)'
    BY DEF BaseStands
  <2>1. v # w
    BY <1>3, <1>4
  <2>2. writer'[v] = writer[v] /\ Compared(v) /\ LocksFor(v) \subseteq Held(v)
    BY <1>4, <2>1 DEF ConfInv, BaseStands, LocksAreReleased
  <2>3. TargetFile(v) # TargetFile(w) /\ TargetFile(v)' = TargetFile(v)
    BY <1>5, <2>1, <2>2, LocksExclude DEF ConfInv, TargetFile
  <2>4. content'[TargetFile(v)] = content[TargetFile(v)]
    BY <1>2, <2>3
  <2> QED BY <1>1, <2>2, <2>3, <2>4 DEF Compared
<1> QED BY <1>6, <1>7, <1>8 DEF ConfInv

LEMMA ReleaseStep == ASSUME ConfInv, NEW w \in Writer, ReleaseLocks(w) PROVE ConfInv'
<1>1. UNCHANGED <<content, edited>> /\ writer[w].pc = "releasing"
  BY DEF ReleaseLocks
<1>2. CASE Held(w) = {}
  <2> DEFINE r == [Idle EXCEPT !.pc = "over", !.result = writer[w].result]
  <2>1. writer' = [writer EXCEPT ![w] = r] /\ lock' = lock
    BY <1>2 DEF ReleaseLocks
  <2>2. DOMAIN r = DOMAIN Idle /\ r.pc = "over"
    BY DEF Idle
  <2> HIDE DEF r
  <2> QED BY <1>1, <1>2, <2>1, <2>2, WriterMoves DEF Unlocked, Locked
<1>3. CASE Held(w) # {}
  <2> DEFINE l == IF UserLock \in Held(w) THEN UserLock ELSE WorkspaceLock(w)
  <2>1. lock' = [lock EXCEPT ![l] = Missing] /\ writer' = writer
    BY <1>3 DEF ReleaseLocks
  <2>2. l \in Held(w) /\ l \in LockFiles /\ lock[l] = w
    BY <1>3 DEF ConfInv, OwnLocks, Held
  <2> HIDE DEF l
  <2>3. lock' \in [LockFiles -> Writer \cup {Missing}]
    BY <2>1 DEF ConfInv, ConfTypeOK
  <2>4. Held(w)' \subseteq Held(w)
    BY <2>1, <2>2, ConfigurationAssumption DEF ConfInv, ConfTypeOK, Held
  <2>5. \A v \in Writer : v # w => Held(v)' = Held(v)
    BY <2>1, <2>2, ConfigurationAssumption DEF ConfInv, ConfTypeOK, Held
  <2>6. ConfTypeOK' /\ BaseStands'
    BY <1>1, <2>1, <2>3 DEF ConfInv, ConfTypeOK, BaseStands, Compared, TargetFile
  <2>7. OwnLocks'
    BY <2>4, <2>5 DEF ConfInv, OwnLocks, WorkspaceLock
  <2>8. LocksAreReleased'
    BY <1>1, <2>1, <2>5 DEF ConfInv, LocksAreReleased, LocksFor
  <2> QED BY <2>6, <2>7, <2>8 DEF ConfInv
<1> QED BY <1>2, <1>3

LEMMA EditStep == ASSUME ConfInv, EditByHand PROVE ConfInv'
<1>1. PICK e \in HandEdits : content' = [content EXCEPT ![e[1]] = e[2]] /\ edited' = edited \cup {e[1]}
  BY DEF EditByHand
<1>2. UNCHANGED <<lock, writer>> /\ e[1] \in ConfigurationFiles
  BY ConfigurationAssumption DEF EditByHand
<1>3. ConfTypeOK' /\ OwnLocks' /\ LocksAreReleased'
  BY <1>1, <1>2 DEF ConfInv, ConfTypeOK, OwnLocks, LocksAreReleased, LocksFor, Held, WorkspaceLock
<1>4. BaseStands'
  <2> SUFFICES ASSUME NEW v \in Writer, writer[v].pc = "renaming"
               PROVE  content'[TargetFile(v)] = writer[v].plan.base \/ TargetFile(v) \in edited'
    BY <1>2 DEF BaseStands, Compared, TargetFile
  <2>1. Compared(v)
    BY DEF ConfInv, BaseStands
  <2>2. TargetFile(v) # e[1] => content'[TargetFile(v)] = content[TargetFile(v)]
    BY <1>1
  <2> QED BY <1>1, <2>1, <2>2 DEF Compared
<1> QED BY <1>3, <1>4 DEF ConfInv

LEMMA ConfInvStep == ConfInv /\ [ConfNext]_confVars => ConfInv'
<1> SUFFICES ASSUME ConfInv, [ConfNext]_confVars PROVE ConfInv'
  OBVIOUS
<1>1. ASSUME NEW w \in Writer, Inspect(w) \/ Prepare(w) \/ MakePlan(w) PROVE ConfInv'
  BY <1>1, InspectStep, PrepareStep, MakePlanStep
<1>2. ASSUME NEW w \in Writer, Lock(w) \/ Check(w) \/ Compare(w) PROVE ConfInv'
  BY <1>2, LockStep, CheckStep, CompareStep
<1>3. ASSUME NEW w \in Writer, ReplaceFile(w) \/ ReleaseLocks(w) PROVE ConfInv'
  BY <1>3, ReplaceStep, ReleaseStep
<1>4. ASSUME NEW w \in Writer, ReplaceFails(w) PROVE ConfInv'
  BY <1>4, Concludes DEF ReplaceFails
<1>5. ASSUME NEW w \in Writer, ConfirmFile(w) PROVE ConfInv'
  BY <1>5, Concludes DEF ConfirmFile
<1>6. ASSUME NEW w \in Writer, WriterCrashes(w) PROVE ConfInv'
  BY <1>6, Goes DEF WriterCrashes, Unlocked, Locked
<1>7. CASE EditByHand
  BY <1>7, EditStep
<1>8. CASE UNCHANGED confVars
  BY <1>8 DEF confVars, ConfInv, ConfTypeOK, OwnLocks, LocksAreReleased, BaseStands, Compared, TargetFile,
     LocksFor, Held, WorkspaceLock
<1> QED BY <1>1, <1>2, <1>3, <1>4, <1>5, <1>6, <1>7, <1>8 DEF ConfNext, WriterStep

LEMMA ConfInvAlways == ConfSpec => []ConfInv
BY InitConf, ConfInvStep, PTL DEF ConfSpec

\* Locks have owners, writers are whole, and only configuration files are edited.
THEOREM WritersAreTyped == ConfSpec => []ConfTypeOK
BY ConfInvAlways, PTL DEF ConfInv

\* configuration-control.ts, withFileLock: a writer that writes holds the locks of its
\* target, and one that is done, refused or not yet planning holds none.
THEOREM LocksAreGivenBack == ConfSpec => []LocksAreReleased
BY ConfInvAlways, PTL DEF ConfInv

\* configuration-control.ts, applyConfigurationPlan and applyConfigurationDraftPlan: what
\* a writer replaces is what its plan was made from, or what a person has put there
\* after the last comparison.
THEOREM StalePlansWriteNothing == ConfSpec => NothingIsOverwritten
<1>1. ASSUME ConfInv
      PROVE  [\A w \in Writer :
                (writer[w].pc = "renaming" /\ writer'[w].pc = "confirming")
                    => content[TargetFile(w)] = writer[w].plan.base \/ TargetFile(w) \in edited]_confVars
  BY <1>1 DEF ConfInv, BaseStands, Compared
<1> QED BY <1>1, ConfInvAlways, PTL DEF NothingIsOverwritten
=============================================================================
