-------------------------- MODULE OperationJournal --------------------------
(***************************************************************************)
(* The journal of provider operations: ProviderOperationJournal (a queue of *)
(* compare-and-append writes and a fence) over one file that every write   *)
(* replaces as a whole.                                                    *)
(*                                                                         *)
(* An append loads the file, compares versions, and renames a new file     *)
(* over it; between the two everything else may run.  Of the records of an *)
(* operation the latest is kept: its version counts those before it.       *)
(* Two records that agree in everything but their timestamps are one here. *)
(***************************************************************************)
EXTENDS ProviderOperation, FiniteSetsExt

CONSTANTS
    Operation,
    RecordLimit  \* records the file may hold (512 in the code)

ASSUME LimitAssumption == RecordLimit \in Nat

VARIABLES
    disk,          \* the file: the latest record of each operation, or None
    loaded,        \* for each operation the file as its running append loaded it, or None
    journalFenced  \* #reopenRequired

journalVars == <<disk, loaded, journalFenced>>

File == [Operation -> Record \cup {None}]

ASSUME NoFileAssumption == None \notin File

VersionOf(record) == IF record = None THEN 0 ELSE record.version

HasRoom(file) == MapThenSumSet(LAMBDA o : VersionOf(file[o]), Operation) < RecordLimit

NoAppend == [o \in Operation |-> None]

JournalInit ==
    /\ disk = [o \in Operation |-> None]
    /\ loaded = NoAppend
    /\ journalFenced = FALSE

\* Mutant: an append starts while another one runs.
TurnAtOnce == TRUE

\* enqueueWrite: appends run one at a time.
Turn == loaded = NoAppend

\* The next record of the operation, and room for it.
Fits(o, next) ==
    /\ next.version = VersionOf(disk[o]) + 1
    /\ disk[o] # None => next.plan = disk[o].plan
    /\ HasRoom(disk)

\* compareAndAppendNow up to the replacement of the file
Load(o, next) ==
    /\ Turn
    /\ ~journalFenced
    /\ Fits(o, next)
    /\ loaded' = [loaded EXCEPT ![o] = disk]
    /\ UNCHANGED <<disk, journalFenced>>

\* The rename put the new file in place; replace returns, or fails after it
\* and leaves the outcome of the commit unknown.
Replace(o, next, verified) ==
    /\ loaded[o] # None
    /\ disk' = [loaded[o] EXCEPT ![o] = next]
    /\ loaded' = [loaded EXCEPT ![o] = None]
    /\ journalFenced' = (journalFenced \/ ~verified)

\* A whole append in one step, for callers that do not look in between: only
\* the running append has a loaded file, and it is the file on disk
\* (LoadedIsCurrent in ProviderWritesProofs).
Appended(o, next, verified) ==
    /\ ~journalFenced
    /\ Fits(o, next)
    /\ disk' = [disk EXCEPT ![o] = next]
    /\ journalFenced' = ~verified
    /\ UNCHANGED loaded

\* replace failed before the rename.
NotReplaced(o) ==
    /\ loaded[o] # None
    /\ loaded' = [loaded EXCEPT ![o] = None]
    /\ UNCHANGED <<disk, journalFenced>>

\* The process ends; the file stays as the last rename left it.
JournalClosed ==
    /\ loaded' = NoAppend
    /\ journalFenced' = FALSE
    /\ UNCHANGED disk

JournalTypeOK ==
    /\ disk \in File
    /\ loaded \in [Operation -> File \cup {None}]
    /\ journalFenced \in BOOLEAN
=============================================================================
