--------------------------- MODULE ControlRoomLock ---------------------------
(***************************************************************************)
(* The single-instance lock of a workspace:                                *)
(* src/application/control-room-lock.ts.                                   *)
(*                                                                         *)
(* Processes start a Control Room in the same directory, crash, and stop.  *)
(* One step is one file system call; between two of them every other       *)
(* process may run.  The lock file is named by the process that created    *)
(* it: its owner record holds that process's id and nonce.                 *)
(***************************************************************************)
EXTENDS FiniteSets

CONSTANTS
    Process,     \* starts of a Control Room; each has its own nonce
    Crashable,   \* those that may die without releasing
    Nothing      \* no lock file, or nothing read

ASSUME CrashableAssumption == Crashable \subseteq Process
ASSUME NothingAssumption == Nothing \notin Process \cup [owner: Process, written: BOOLEAN]
ASSUME ProcessAssumption == "empty" \notin Process

VARIABLES
    lockFile,  \* Nothing, or [owner |-> creator, written |-> whether its record is in it]
    pc,        \* what each process does next
    retried,   \* processes in the second pass of the acquire loop
    before     \* the content each reclaiming process read first

lockVars == <<lockFile, pc, retried, before>>

Pc == {"stopped", "open", "readBefore", "verify", "recheck", "unlink", "write",
       "running", "readOwn", "unlinkOwn", "released", "denied", "crashed"}
Alive(p) == pc[p] \notin {"crashed", "released", "denied"}

\* What readFile returns: the owner record, or "" between open and writeFile.
Content == IF lockFile.written THEN lockFile.owner ELSE "empty"

Goto(p, l) == pc' = [pc EXCEPT ![p] = l]

LockInit ==
    /\ lockFile = Nothing
    /\ pc = [p \in Process |-> "stopped"]
    /\ retried = {}
    /\ before = [p \in Process |-> Nothing]

Start(p) ==
    /\ pc[p] = "stopped"
    /\ Goto(p, "open")
    /\ UNCHANGED <<lockFile, retried, before>>

\* open(filePath, "wx") on a free path
OpenExclusive(p) ==
    /\ pc[p] = "open"
    /\ lockFile = Nothing
    /\ lockFile' = [owner |-> p, written |-> FALSE]
    /\ Goto(p, "write")
    /\ UNCHANGED <<retried, before>>

\* EEXIST: the first time the lock may be stale, the second time start is refused.
OpenExists(p) ==
    /\ pc[p] = "open"
    /\ lockFile # Nothing
    /\ Goto(p, IF p \in retried THEN "denied" ELSE "readBefore")
    /\ UNCHANGED <<lockFile, retried, before>>

\* Any failed read inside reclaimStaleLock is "not reclaimed".
ReadBefore(p) ==
    /\ pc[p] = "readBefore"
    /\ IF lockFile = Nothing
       THEN Goto(p, "denied") /\ UNCHANGED before
       ELSE Goto(p, "verify") /\ before' = [before EXCEPT ![p] = Content]
    /\ UNCHANGED <<lockFile, retried>>

\* Mutant: a running owner is not asked for.
OwnerIsAlive(p) == lockFile # Nothing /\ lockFile.written

\* readControlRoomInstance and isProcessRunning: the record parses and its
\* process is gone.
OwnerIsGone(p) == lockFile # Nothing /\ lockFile.written /\ ~Alive(lockFile.owner)

Verify(p) ==
    /\ pc[p] = "verify"
    /\ Goto(p, IF OwnerIsGone(p) THEN "recheck" ELSE "denied")
    /\ UNCHANGED <<lockFile, retried, before>>

Recheck(p) ==
    /\ pc[p] = "recheck"
    /\ Goto(p, IF lockFile # Nothing /\ Content = before[p] THEN "unlink" ELSE "denied")
    /\ UNCHANGED <<lockFile, retried, before>>

\* unlink(filePath) removes whatever file has the name by now.
Unlink(p) ==
    /\ pc[p] = "unlink"
    /\ IF lockFile = Nothing
       THEN Goto(p, "denied") /\ UNCHANGED <<lockFile, retried>>
       ELSE Goto(p, "open") /\ lockFile' = Nothing /\ retried' = retried \cup {p}
    /\ UNCHANGED before

\* The record goes to the file this process opened, linked or not.
Write(p) ==
    /\ pc[p] = "write"
    /\ lockFile' = IF lockFile # Nothing /\ lockFile.owner = p
                   THEN [lockFile EXCEPT !.written = TRUE] ELSE lockFile
    /\ Goto(p, "running")
    /\ UNCHANGED <<retried, before>>

\* A failed write removes the path and refuses the start.
WriteFails(p) ==
    /\ pc[p] = "write"
    /\ lockFile' = Nothing
    /\ Goto(p, "denied")
    /\ UNCHANGED <<retried, before>>

Release(p) ==
    /\ pc[p] = "running"
    /\ Goto(p, "readOwn")
    /\ UNCHANGED <<lockFile, retried, before>>

\* releaseOwnedLock: a lock that is gone or another's is left alone.
ReadOwn(p) ==
    /\ pc[p] = "readOwn"
    /\ Goto(p, IF lockFile # Nothing /\ Content = p THEN "unlinkOwn" ELSE "released")
    /\ UNCHANGED <<lockFile, retried, before>>

UnlinkOwn(p) ==
    /\ pc[p] = "unlinkOwn"
    /\ lockFile' = Nothing
    /\ Goto(p, "released")
    /\ UNCHANGED <<retried, before>>

Crash(p) ==
    /\ p \in Crashable
    /\ Alive(p) /\ pc[p] # "stopped"
    /\ Goto(p, "crashed")
    /\ UNCHANGED <<lockFile, retried, before>>

Step(p) ==
    \/ Start(p) \/ OpenExclusive(p) \/ OpenExists(p)
    \/ ReadBefore(p) \/ Verify(p) \/ Recheck(p) \/ Unlink(p)
    \/ Write(p) \/ WriteFails(p) \/ Release(p) \/ ReadOwn(p) \/ UnlinkOwn(p)

LockNext == \E p \in Process : Step(p) \/ Crash(p)

LockSpec == LockInit /\ [][LockNext]_lockVars

-----------------------------------------------------------------------------
LockTypeOK ==
    /\ lockFile \in [owner: Process, written: BOOLEAN] \cup {Nothing}
    /\ pc \in [Process -> Pc]
    /\ retried \subseteq Process
    /\ before \in [Process -> Process \cup {"empty", Nothing}]

\* README.md:46: a second instance in the same workspace is refused.  At most
\* one process has returned from acquireControlRoomLock and not yet stopped.
OneControlRoom ==
    \A p, q \in Process :
        (pc[p] \in {"running", "readOwn", "unlinkOwn"} /\ pc[q] \in {"running", "readOwn", "unlinkOwn"})
            => p = q

\* Every lock that was reclaimed was reclaimed by one process only, and that
\* process had read the owner's record before it looked whether the owner runs.
ReclaimedOnce ==
    \A p \in retried :
        before[p] \in Process /\ \A q \in retried : before[q] = before[p] => q = p

\* A running Control Room keeps its lock file: nobody who stops, starts, fails to
\* write its record or reclaims a dead owner's lock removes it, whoever dies in
\* between, until two processes have reclaimed one stale lock.  Then it may lose
\* the file: that is the race of run lock_reclaim_race.
RunningOwnsLock ==
    ReclaimedOnce =>
        \A p \in Process :
            pc[p] \in {"running", "unlinkOwn"} => lockFile = [owner |-> p, written |-> TRUE]
=============================================================================
