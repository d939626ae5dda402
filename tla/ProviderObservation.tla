------------------------ MODULE ProviderObservation ------------------------
(***************************************************************************)
(* What TaskSeal last saw of its providers:                                *)
(* application/provider-observation-coordinator.ts,                        *)
(* provider-observation.ts, observed-snapshot-import.ts and                *)
(* storage/provider-observation-store.ts.                                  *)
(*                                                                         *)
(* Inspections, previews and imports run side by side.  Each notes when it *)
(* began, and when it is done it records, best effort, what it saw of its  *)
(* target: the read model keeps, per target, what began last.  The records *)
(* wait in one queue; a record reads the file, decides, writes a temporary *)
(* file and renames it.                                                    *)
(*                                                                         *)
(* Abstracted: digests, source revisions, byte limits and the exact shape  *)
(* of the file; diagnostic codes are reduced to the three statuses they    *)
(* stand for.  One process writes at a time (docs/specs/0007).             *)
(***************************************************************************)
EXTENDS Naturals, Sequences, FiniteSets

CONSTANTS
    Operation,         \* the operations that ever run
    Kind,              \* "health", "snapshot", "preview" or "import" of each
    Provider,          \* the provider of each
    Configured,        \* FALSE where the configuration could not be read
    Required,          \* evidence keys asked for
    Errors,            \* what a failing operation can come to
    Seeds,             \* the targets of the configured providers, in their order
    MAX_OBSERVATIONS,  \* targets the file holds
    MaxClock,          \* bound: instants
    MaxObsRestarts,    \* bound: restarts
    Absent

VARIABLES
    clock,
    op,           \* per operation: [pc, startedAt, outcome, answer]
    recordQueue,  \* #writeQueue: [by, observation], by Absent for the seed
    loaded,       \* what the record at the head read, or Absent
    renamed,      \* the head has replaced the file and awaits the confirmation
    file,         \* provider-observations.json: one observation per target, or Absent
    orphan,       \* the temporary file of a write that did not get to its rename
    reopen,       \* #reopenRequired
    seeding,      \* the seeds a start has still to note, Absent if noting one failed
    obsRestarts

obsVars == <<clock, op, recordQueue, loaded, renamed, file, orphan, reopen, seeding, obsRestarts>>

-----------------------------------------------------------------------------
(* Targets and scopes: a target is what the configuration names, a scope   *)
(* what the provider says it answered about.                               *)

KindOf(p) == CASE p = "linear" -> "team" [] p = "feishu" -> "table" [] OTHER -> "repository"

\* configuredTargetForProvider, fallbackConfiguredTarget; "ref" is a Linear
\* team by name, which its scope, an id, cannot equal.
Target(p, configured) ==
    IF configured THEN [provider |-> p, kind |-> KindOf(p), key |-> IF p = "linear" THEN "ref" ELSE "ours"]
    ELSE [provider |-> p, kind |-> "provider", key |-> "configuration"]

TargetOf(o) == Target(Provider[o], Configured[o])
Targets == {TargetOf(o) : o \in Operation} \cup {Seeds[i] : i \in DOMAIN Seeds}

Scope(p, whose) ==
    [kind |-> KindOf(p), key |-> whose, parent |-> IF p = "linear" THEN "organization" ELSE Absent]

\* Mutant: a verified binding stands for any scope.
ScopeMatchesAnyKind(target, scope, bound) ==
    target.kind # "provider" /\ (target.key = scope.key \/ bound = Absent \/ bound = scope)

\* providerObservationScopeMatchesTarget
ScopeMatches(target, scope, bound) ==
    /\ target.kind # "provider" /\ target.kind = scope.kind
    /\ \/ target.key = scope.key
       \/ target.key = "ref" /\ scope.parent # Absent /\ bound = scope

Scopes ==
    [kind : {"team", "table", "repository"}, key : {"ours", "theirs"},
     parent : {"organization", Absent}]
Observations ==
    [operation : {"health", "snapshot", "preview", "import", "configuration"}, target : Targets,
     startedAt : Nat, status : Errors \cup {"scope_mismatch", "configured", "snapshot_ready"},
     scope : Scopes \cup {Absent}, missing : SUBSET Required]
Files == [Targets -> Observations \cup {Absent}]

ASSUME ObservationAssumption ==
    /\ Kind \in [Operation -> {"health", "snapshot", "preview", "import"}]
    /\ Errors \cap {"configured", "snapshot_ready"} = {}
    /\ Seeds \in Seq({Seeds[i] : i \in DOMAIN Seeds})
    /\ MaxClock \in Nat
    /\ Absent \notin Operation /\ Absent \notin {"committed", "ignored-stale", "idempotent"}
    /\ Absent \notin Scopes /\ Absent \notin Observations /\ Absent \notin Files

-----------------------------------------------------------------------------
(* What an operation comes to, and the observation it records.             *)

\* A thrown error, or the scope and the evidence keys of the answer.  The
\* Linear clients refuse answers about another team themselves.
Outcomes(o) ==
    [error : Errors]
        \cup [whose : IF Provider[o] = "linear" /\ Kind[o] \in {"health", "snapshot"}
                      THEN {"ours"} ELSE {"ours", "theirs"},
              evidence : IF Kind[o] = "snapshot" THEN SUBSET Required ELSE {Required}]

Failed(outcome) == "error" \in DOMAIN outcome

Observation(o, startedAt, status, scope, missing) ==
    [operation |-> Kind[o], target |-> TargetOf(o), startedAt |-> startedAt, status |-> status,
     scope |-> scope, missing |-> missing]

\* projectProviderFailure; only an inspection knows what evidence is missing.
Failure(o, startedAt, status, scope) ==
    Observation(o, startedAt, status, scope, IF Kind[o] = "snapshot" THEN Required ELSE {})

\* readScope knows repositories and teams and throws for a table.
ReadsScope(scope) == scope.kind \in {"repository", "team"}

\* assertSnapshotBinding, assertPlanBinding: the facade binds previews and
\* imports to the scope it was built for.
Binds(o, outcome) == Kind[o] \in {"preview", "import"} => outcome.whose = "ours"

\* The scope that stands in for the target: the facade's, or for Linear
\* inspections with a configuration the answer's own.
BoundScope(o, scope) ==
    CASE Kind[o] \in {"preview", "import"} -> Scope(Provider[o], "ours")
      [] Kind[o] = "snapshot" /\ Provider[o] = "linear" /\ Configured[o] -> scope
      [] OTHER -> Absent

ReadyStatus(o) == IF Kind[o] = "health" THEN "configured" ELSE "snapshot_ready"

\* projectProviderHealth, projectProviderSnapshot, projectProviderApply
Success(o, startedAt, outcome) ==
    LET scope == Scope(Provider[o], outcome.whose)
    IN  IF ~Binds(o, outcome) THEN Failure(o, startedAt, "scope_mismatch", Absent)
        ELSE IF Kind[o] \in {"health", "import"} /\ ~ReadsScope(scope) THEN Absent
        ELSE IF ~ScopeMatches(TargetOf(o), scope, BoundScope(o, scope))
             THEN Observation(o, startedAt, "scope_mismatch", scope, {})
             ELSE Observation(o, startedAt, ReadyStatus(o), scope,
                              IF Kind[o] \in {"snapshot", "preview"} THEN Required \ outcome.evidence ELSE {})

\* normalizeObservationFields: seen no earlier than begun, a status that claims
\* success has no failure behind it, evidence was asked for.
IsNormal(observation, observedAt) ==
    /\ observation.startedAt <= observedAt
    /\ observation.status = "snapshot_ready" => observation.operation # "health"
    /\ observation.missing \subseteq Required

\* Absent where the projection throws: recordBestEffort records nothing.
Projected(o, startedAt, outcome) ==
    LET observation == IF Failed(outcome) THEN Failure(o, startedAt, outcome.error, Absent)
                       ELSE Success(o, startedAt, outcome)
    IN  IF observation # Absent /\ IsNormal(observation, clock) THEN observation ELSE Absent

\* projectProviderConfiguration: what a start notes about its configuration.
Seed(target) ==
    [operation |-> "configuration", target |-> target, startedAt |-> clock, status |-> "configured",
     scope |-> Absent, missing |-> {}]

-----------------------------------------------------------------------------
ObsInit ==
    /\ clock = 0
    /\ op = [o \in Operation |-> [pc |-> "idle", startedAt |-> 0, outcome |-> Absent, answer |-> Absent]]
    /\ recordQueue = <<>> /\ loaded = Absent /\ renamed = FALSE
    /\ file = [t \in Targets |-> Absent]
    /\ orphan = FALSE /\ reopen = FALSE /\ seeding = Seeds /\ obsRestarts = 0

\* The wall clock may be set back.
Tick ==
    /\ clock' \in (0..MaxClock) \ {clock}
    /\ UNCHANGED <<op, recordQueue, loaded, renamed, file, orphan, reopen, seeding, obsRestarts>>

\* A start notes the configured providers, one after the other.
Ensure ==
    /\ seeding \notin {Absent, <<>>} /\ recordQueue = <<>>
    /\ recordQueue' = <<[by |-> Absent, observation |-> Seed(Head(seeding))]>>
    /\ UNCHANGED <<clock, op, loaded, renamed, file, orphan, reopen, seeding, obsRestarts>>

\* inspect, preview and apply take the time before they execute.  Without its
\* seeds a process observes nothing.
Begin(o) ==
    /\ seeding = <<>>
    /\ op[o].pc = "idle"
    /\ op' = [op EXCEPT ![o] = [@ EXCEPT !.pc = "executing", !.startedAt = clock]]
    /\ UNCHANGED <<clock, recordQueue, loaded, renamed, file, orphan, reopen, seeding, obsRestarts>>

\* The operation is over; its observation waits for its turn.
Finish(o) ==
    /\ op[o].pc = "executing"
    /\ \E outcome \in Outcomes(o) :
        LET observation == Projected(o, op[o].startedAt, outcome)
            pc == IF observation = Absent THEN "over" ELSE "recording"
        IN  /\ op' = [op EXCEPT ![o] = [@ EXCEPT !.pc = pc, !.outcome = outcome]]
            /\ recordQueue' = IF observation = Absent THEN recordQueue
                        ELSE Append(recordQueue, [by |-> o, observation |-> observation])
    /\ UNCHANGED <<clock, loaded, renamed, file, orphan, reopen, seeding, obsRestarts>>

-----------------------------------------------------------------------------
(* recordNow, at the head of the queue.                                    *)

Due == recordQueue[1]
Existing == file[Due.observation.target]

\* Mutant: what was recorded last counts as newest.
RecordResolutionByArrival ==
    IF Due.by = Absent /\ Existing # Absent THEN "idempotent" ELSE "write"

RecordResolution ==
    IF Existing = Absent THEN "write"
    ELSE IF Due.by = Absent THEN "idempotent"
    ELSE IF Due.observation.startedAt < Existing.startedAt THEN "ignored-stale"
    ELSE IF Due.observation.startedAt > Existing.startedAt THEN "write"
    ELSE IF Due.observation = Existing THEN "idempotent"
    ELSE "conflict"

Stored(contents) == {t \in DOMAIN contents : contents[t] # Absent}

WithinLimit == Existing # Absent \/ Cardinality(Stored(file)) < MAX_OBSERVATIONS

Answer(answer) ==
    /\ recordQueue' = Tail(recordQueue)
    /\ loaded' = Absent
    /\ renamed' = FALSE
    /\ op' = IF Due.by = Absent THEN op
             ELSE [op EXCEPT ![Due.by] = [@ EXCEPT !.pc = "over", !.answer = answer]]
    /\ seeding' = IF Due.by # Absent THEN seeding
                  ELSE IF answer = "failed" THEN Absent ELSE Tail(seeding)

AtTurn == recordQueue # <<>> /\ loaded = Absent

Refuse ==
    /\ AtTurn
    /\ \/ reopen /\ Answer("failed")
       \/ ~reopen /\ RecordResolution # "write" /\ Answer(RecordResolution)
       \* The id of an observation also digests what is abstracted here: when it was
       \* made and the digests of what was seen.  Those of two operations may differ.
       \/ ~reopen /\ Due.by # Absent /\ RecordResolution = "idempotent" /\ Answer("conflict")
       \/ ~reopen /\ RecordResolution = "write" /\ ~WithinLimit /\ Answer("failed")
    /\ UNCHANGED <<clock, file, orphan, reopen, obsRestarts>>

\* loadCurrent: the file cannot be read or does not parse.
LoadFails ==
    /\ AtTurn /\ ~reopen
    /\ Answer("failed")
    /\ UNCHANGED <<clock, file, orphan, reopen, obsRestarts>>

Load ==
    /\ AtTurn /\ ~reopen
    /\ RecordResolution = "write" /\ WithinLimit
    /\ loaded' = file
    /\ UNCHANGED <<clock, op, recordQueue, renamed, file, orphan, reopen, seeding, obsRestarts>>

\* The temporary file is written and renamed over the file; an orphan of an
\* earlier write makes its exclusive creation fail.
Rename ==
    /\ loaded # Absent /\ ~renamed /\ ~orphan
    /\ file' = [loaded EXCEPT ![Due.observation.target] = Due.observation]
    /\ renamed' = TRUE
    /\ UNCHANGED <<clock, op, recordQueue, loaded, orphan, reopen, seeding, obsRestarts>>

\* A write that fails before its rename may leave its temporary file.
RecordFails ==
    /\ loaded # Absent /\ ~renamed
    /\ orphan' \in {orphan, TRUE}
    /\ Answer("failed")
    /\ UNCHANGED <<clock, file, reopen, obsRestarts>>

ConfirmRecord ==
    /\ renamed
    /\ Answer("committed")
    /\ UNCHANGED <<clock, file, orphan, reopen, obsRestarts>>

RecordUnknown ==
    /\ renamed
    /\ reopen' = TRUE
    /\ Answer("failed")
    /\ UNCHANGED <<clock, file, orphan, obsRestarts>>

ObserverRestarts ==
    /\ obsRestarts < MaxObsRestarts
    /\ obsRestarts' = obsRestarts + 1
    /\ op' = [o \in Operation |-> IF op[o].pc \in {"executing", "recording"}
                                  THEN [op[o] EXCEPT !.pc = "over"] ELSE op[o]]
    /\ recordQueue' = <<>> /\ loaded' = Absent /\ renamed' = FALSE
    /\ orphan' \in {orphan, orphan \/ (loaded # Absent /\ ~renamed)}
    /\ reopen' = FALSE /\ seeding' = Seeds
    /\ UNCHANGED <<clock, file>>

ObsNext ==
    \/ Tick
    \/ Ensure
    \/ \E o \in Operation : Begin(o) \/ Finish(o)
    \/ Refuse \/ LoadFails \/ Load \/ Rename \/ RecordFails \/ ConfirmRecord \/ RecordUnknown
    \/ ObserverRestarts

ObsSpec == ObsInit /\ [][ObsNext]_obsVars

-----------------------------------------------------------------------------
Operations ==
    [pc : {"idle", "executing", "recording", "over"}, startedAt : Nat,
     outcome : [error : Errors]
                    \cup [whose : {"ours", "theirs"}, evidence : SUBSET Required] \cup {Absent},
     answer : {"committed", "ignored-stale", "idempotent", "conflict", "failed", Absent}]

\* What was begun, what is waiting, and the file.
ObsTypeOK ==
    /\ clock \in Nat /\ renamed \in BOOLEAN /\ orphan \in BOOLEAN /\ reopen \in BOOLEAN
    /\ op \in [Operation -> Operations]
    /\ recordQueue \in Seq([by : Operation \cup {Absent}, observation : Observations])
    /\ loaded \in Files \cup {Absent} /\ file \in Files
    /\ seeding \in Seq(Targets) \cup {Absent}

\* docs/specs/0007: freshness is the time an operation began.  What is stored
\* about a target is only replaced by what began later, in whatever order the
\* operations end and the writes fail; and what an operation was told is
\* recorded, or too old to be, is not lost to a record that began before it.
NewestWins ==
    [][\A t \in Targets :
        /\ file[t] # Absent /\ file'[t] # file[t] =>
                file'[t] # Absent /\ file'[t].startedAt > file[t].startedAt
        /\ \A o \in Operation :
            (TargetOf(o) = t /\ op'[o].answer \in {"committed", "ignored-stale", "idempotent"})
                => file'[t] # Absent /\ file'[t].startedAt >= op[o].startedAt]_obsVars

\* docs/specs/0007: what is shown as ready was seen, on the configured scope, by
\* an operation that succeeded and began when the observation says; the evidence
\* it does not list as missing was in the answer.
ObservationsAreTrue ==
    \A t \in Targets :
        (file[t] # Absent /\ file[t].operation # "configuration"
            /\ file[t].status \in {"configured", "snapshot_ready"}) =>
        \E o \in Operation :
            /\ TargetOf(o) = t /\ Configured[o]
            /\ op[o].startedAt = file[t].startedAt /\ Kind[o] = file[t].operation
            /\ ~Failed(op[o].outcome)
            /\ op[o].outcome.whose = "ours"
            /\ Kind[o] \in {"snapshot", "preview"} => Required \ file[t].missing \subseteq op[o].outcome.evidence
=============================================================================
