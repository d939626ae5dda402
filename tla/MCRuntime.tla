----------------------------- MODULE MCRuntime ------------------------------
(* What runs inside one process, for TLC: the coordinator of attempt runs    *)
(* over its host (MCAttemptRun), one turn of the Codex adapter the host      *)
(* drives (CodexAppServer), the journal they all write to (JournalService),  *)
(* and calls to Linear (LinearTransport); and the page an operator has open  *)
(* (ControlRoomPage), for what must come to an end there.  A behaviour runs  *)
(* one of them.                                                              *)
EXTENDS MCAttemptRun, CodexAppServer, LinearTransport, JournalService

CONSTANTS c1, c2, e1, e2, i1, b1, u1, p1, p2

VARIABLES
    part,  \* which of them runs
    item, decisions, operations, requests, requestGate, providerRequestGate, truthFence,
    latestSnapshot, selectedWorkItemId, panel, drafts, owner, reason, command, polling,
    told, asked, commands, polls, failures

pageVars ==
    <<item, decisions, operations, requests, requestGate, providerRequestGate, truthFence,
      latestSnapshot, selectedWorkItemId, panel, drafts, owner, reason, command, polling,
      told, asked, commands, polls, failures>>
runVars == vars

\* Nothing was said, or the last thing said is empty or only white space.
MCTranscript == {<<>>, <<"words", "empty">>, <<"words", "blank">>}

\* e1 and e2 are appended directly by both clients, one of them imports the
\* snapshot b1, which brings i1, and e2 applies once i1 is there.
MCBatchEvents == b1 :> <<i1>>
MCNeeds == e1 :> {} @@ e2 :> {i1} @@ i1 :> {}

\* Two calls about one issue: it is to be created, looked for, moved or read.
MCRequest ==
    [kind : {"create", "query", "read"}, id : {u1}, place : {p1}]
        \cup [kind : {"update"}, id : {u1}, place : {p2}]

\* One work item, two commands, and two requests that fail.
Page == INSTANCE ControlRoomPage WITH
    WorkItem <- {w1},
    First <- w1,
    MaxChanges <- 0,
    MaxCommands <- 2,
    MaxPolls <- 0,
    MaxFailures <- 2

RuntimeInit ==
    /\ Init /\ TurnInit /\ JournalInit /\ TransportInit /\ Page!PageInit
    /\ part \in {"runs", "codex", "journal", "linear", "page"}
    /\ part # "runs" => maxConcurrentRuns = 1
    /\ part # "linear" => linear[u1] = Nothing
    /\ part # "codex" => client.abort = "no"

RuntimeNext ==
    \/ part = "runs" /\ Next
        /\ UNCHANGED <<part, turnVars, journalVars, transportVars, pageVars>>
    \/ part = "codex" /\ TurnNext
        /\ UNCHANGED <<part, runVars, journalVars, transportVars, pageVars>>
    \/ part = "journal" /\ JournalNext
        /\ UNCHANGED <<part, runVars, turnVars, transportVars, pageVars>>
    \/ part = "linear" /\ TransportNext
        /\ UNCHANGED <<part, runVars, turnVars, journalVars, pageVars>>
    \/ part = "page" /\ Page!PageNext
        /\ UNCHANGED <<part, runVars, turnVars, journalVars, transportVars>>

\* The fairness of each part, while it is the one that runs.
RuntimeFairness ==
    /\ \A w \in WorkItem : WF_vars(part = "runs" /\ Progress(w))
    /\ WF_vars(part = "runs" /\ ShutdownDone)
    /\ \A c \in Caller : WF_journalVars(part = "journal" /\ Operation(c))
    /\ WF_turnVars(part = "codex" /\ Continue)
    /\ WF_turnVars(part = "codex" /\ Expires)
    /\ WF_turnVars(part = "codex" /\ (Spawned \/ SpawnFails))
    /\ \A c \in Call : WF_transportVars(part = "linear" /\ Timer(c))
    /\ WF_pageVars(part = "page" /\ Page!Served)
    /\ WF_pageVars(part = "page" /\ Page!Taken)
    /\ WF_pageVars(part = "page" /\ Page!PollDashboard)
    /\ WF_pageVars(part = "page" /\ Page!PollProviders)

RuntimeSpec ==
    /\ RuntimeInit
    /\ [][RuntimeNext]_<<part, runVars, turnVars, journalVars, transportVars, pageVars>>
    /\ RuntimeFairness

\* What is under way, by two numbers: the run of a work item, a client's operation in
\* the queue of the journal, the turn, a call to Linear, a command of the page and a
\* decision it holds back; and by a third, a shutdown and a reconciliation held back.
UnderWay(n) ==
    CASE part = "runs"    -> IF n = 3 THEN mode = "stopping" ELSE run[<<w1, w2>>[n]] # None
      [] part = "journal" -> n # 3 /\ pc[<<c1, c2>>[n]] # "idle"
      [] part = "codex"   -> n = 1 /\ ~IsDone
      [] part = "linear"  -> n # 3 /\ Runs(n)
      [] part = "page"    ->
            IF n = 1 THEN Page!busy ELSE truthFence[<<"", "dashboard", "provider">>[n]][w1] # 0

\* Whatever adapters, files and servers do: an admitted run settles and frees its slot,
\* and a shutdown ends also when an adapter never stops; every operation in the queue
\* is answered, whatever happens to those before it; a turn ends (docs/specs/0002,
\* "cleanup"); a call to Linear ends when fetch never settles or the body never does
\* (docs/specs/0016:78); and the page is not busy for ever, and opens again what it holds
\* back after a command, when its requests are answered and only so many are lost.
EverythingSettles == \A n \in 1..3 : UnderWay(n) ~> ~UnderWay(n)
=============================================================================
