--------------------------- MODULE CodexAppServer ---------------------------
(***************************************************************************)
(* One turn of Codex: the client that starts an App Server process, speaks *)
(* JSON-RPC over its stdio and stops it (codex-app-server-client.ts), and  *)
(* the adapter that presents the end of the turn to the host               *)
(* (codex-runner.ts).                                                      *)
(*                                                                         *)
(* A step is one event (lines of a chunk, a timer, an abort, the end of    *)
(* the process) or the continuation of runTurn that the event wakes; only  *)
(* further lines of the same chunk come between the two.  The server sends *)
(* anything, in any order, or nothing, and its process may end at any time.*)
(***************************************************************************)
EXTENDS RunnerContract

CONSTANTS
    Transcript,  \* the agent messages a turn may end with: sequences of Text
    MaxStrays    \* bound: lines that answer nothing the client asked

ASSUME StraysAssumption == MaxStrays \in Nat

VARIABLES
    client,  \* the CodexAppServerClient and its runTurn
    server   \* its child process, and what it was asked

turnVars == <<client, server>>

Handshake == {"initialize", "thread/start", "turn/start"}

Error == {"unavailable", "exited", "protocol", "response", "timeout", "aborted", "cleanup"}

\* The process has ended, and node knows an exit code; one that a signal ended
\* has none.
HasExitCode(s) == s.proc \in {"failed", "exited"}
IsDead(s) == s.proc \in {"failed", "exited", "signalled"}

\* A signal aborted before the run refuses it as soon as it waits.
TurnInit ==
    /\ \E aborted \in BOOLEAN :
        client = [pc |-> "start", wake |-> IF aborted THEN "aborted" ELSE "none",
                  chunk |-> FALSE, pending |-> {}, waiter |-> "none", known |-> "none",
                  failure |-> "none", abort |-> IF aborted THEN "rejected" ELSE "no",
                  stopping |-> FALSE, result |-> "none"]
    /\ server = [proc |-> "spawning", closed |-> FALSE, asked |-> {}, ended |-> "none",
                 items |-> <<>>, strays |-> 0]

InTurn == client.pc \in Handshake \cup {"start", "turn/completed"}

\* Nothing runs between an event and the continuation it wakes.
IsIdle == client.wake = "none"

-----------------------------------------------------------------------------
(* The client's own operations.                                            *)

Woken(c, how) == IF c.wake = "none" THEN [c EXCEPT !.wake = how] ELSE c

\* rejectOutstanding
Rejected(c, code) ==
    LET waits == c.pc \in c.pending \/ (c.pc = "turn/completed" /\ c.waiter = "waiting") IN
    [(IF waits THEN Woken(c, code) ELSE c) EXCEPT
        !.pending = {}, !.waiter = IF @ = "waiting" THEN "rejected" ELSE @]

\* fail: the first failure stays; the signal it sends is one of those a process
\* may die of at any time.
ClientFailed(c, code) ==
    IF c.failure # "none" THEN c ELSE Rejected([c EXCEPT !.failure = code], code)

\* writeMessage: a process that has ended may have closed its stdin.
CanWrite == IF IsDead(server) THEN BOOLEAN ELSE {TRUE}

\* request
Asked(c, method, written) ==
    IF c.failure = "none" /\ written THEN [c EXCEPT !.pending = @ \cup {method}]
    ELSE IF method # c.pc THEN c
    ELSE Woken(c, IF c.failure # "none" THEN c.failure ELSE "exited")

Ask(c, method) ==
    \E written \in CanWrite :
        /\ client' = Asked(c, method, written)
        /\ server' = IF method \in client'.pending
                     THEN [server EXCEPT !.asked = @ \cup {method}] ELSE server

\* Mutant: a process that has no exit code is not stopped.
StopIfExited(c, result) ==
    LET r == Rejected([c EXCEPT !.result = result, !.wake = "none", !.chunk = FALSE], "stopped") IN
    [r EXCEPT !.pc = "done", !.wake = "none"]

\* The finally block, and stop up to its first wait.
Stop(c, result) ==
    LET r == Rejected([c EXCEPT !.result = result, !.wake = "none", !.chunk = FALSE], "stopped") IN
    [r EXCEPT !.pc = IF HasExitCode(server) THEN "done" ELSE "closing",
              !.wake = "none", !.stopping = ~HasExitCode(server)]

-----------------------------------------------------------------------------
(* The continuations of runTurn.                                           *)

Advanced(c, pc) == [c EXCEPT !.pc = pc, !.wake = "none", !.chunk = FALSE]

\* An awaited promise was rejected, or its result does not decode.
GiveUp ==
    /\ InTurn /\ client.wake \in Error \cup {"malformed"}
    /\ client' = Stop(client, IF client.wake = "malformed" THEN "protocol" ELSE client.wake)
    /\ UNCHANGED server

Initialize ==
    /\ client.pc = "start" /\ client.wake = "ok"
    /\ Ask(Advanced(client, "initialize"), "initialize")

\* notify("initialized") is written before the request, and fails with it.
StartThread ==
    /\ client.pc = "initialize" /\ client.wake = "ok"
    /\ Ask(Advanced(client, "thread/start"), "thread/start")

\* The end of the turn is waited for before the turn is asked for.
StartTurn ==
    /\ client.pc = "thread/start" /\ client.wake = "ok"
    /\ Ask([Advanced(client, "turn/start") EXCEPT !.known = "thread", !.waiter = "waiting"],
           "turn/start")

\* Mutant: a completion that came before its turn was known is not kept.
CompletionLost(waiter) ==
    CASE waiter = "expired" -> "timeout"
      [] waiter = "rejected" -> client.failure
      [] OTHER -> "none"

\* How the completion's promise stands.
Completion(waiter) ==
    CASE waiter \in {"none", "waiting"} -> "none"
      [] waiter = "expired" -> "timeout"
      [] waiter = "rejected" -> client.failure
      [] OTHER -> "ok"

AwaitCompletion ==
    /\ client.pc = "turn/start" /\ client.wake = "ok"
    /\ client' = [Advanced(client, "turn/completed") EXCEPT
                    !.known = "turn", !.wake = Completion(client.waiter)]
    /\ UNCHANGED server

\* Mutant: the end of any turn is taken for the end of this one.
CompleteUnchecked ==
    /\ client.pc = "turn/completed" /\ client.wake = "ok"
    /\ client' = Stop(client, IF client.waiter = "other" THEN "completed" ELSE client.waiter)
    /\ UNCHANGED server

\* createRunResult
Complete ==
    /\ client.pc = "turn/completed" /\ client.wake = "ok"
    /\ client' = Stop(client, IF client.waiter = "other" THEN "protocol" ELSE client.waiter)
    /\ UNCHANGED server

-----------------------------------------------------------------------------
(* Events.                                                                 *)

Spawned ==
    /\ server.proc = "spawning" /\ (client.pc = "start" => IsIdle)
    /\ server' = [server EXCEPT !.proc = "up"]
    /\ client' = IF client.pc = "start" THEN Woken(client, "ok") ELSE client

SpawnFails ==
    /\ server.proc = "spawning" /\ (client.pc = "start" => IsIdle)
    /\ server' = [server EXCEPT !.proc = "failed"]
    /\ client' = IF client.pc = "start" THEN Woken(ClientFailed(client, "unavailable"), "unavailable")
                 ELSE ClientFailed(client, "unavailable")

\* A timer or an abort, outside any chunk.
Timed(c) == client' = [c EXCEPT !.chunk = FALSE]

\* The lines of a chunk, up to one that fails the client.
CanRead == server.proc # "spawning" /\ ~server.closed /\ (IsIdle \/ (client.chunk /\ client.failure = "none"))

Read(c) == client' = [c EXCEPT !.chunk = TRUE]

\* handleResponse, to a request that is still waited for or no longer
Responds ==
    /\ CanRead
    /\ \E method \in server.asked, answer \in {"ok", "malformed", "response"} :
        /\ server' = [server EXCEPT !.asked = @ \ {method}]
        /\ IF method \notin client.pending THEN Read(ClientFailed(client, "protocol"))
           ELSE LET c == [client EXCEPT !.pending = @ \ {method}] IN
                Read(IF method = client.pc THEN Woken(c, answer) ELSE c)

\* handleNotification: the first turn/completed settles the waiter.
Notified(c, turn) ==
    IF c.waiter # "waiting" THEN c
    ELSE LET n == [c EXCEPT !.waiter = turn] IN
         IF c.pc = "turn/completed" THEN Woken(n, "ok") ELSE n

\* The turn ends, maybe before its start is answered.
TurnEnds ==
    /\ CanRead /\ InTurn
    /\ server.ended = "none"
    /\ client.known # "none" /\ client.pc \in {"turn/start", "turn/completed"}
    /\ \E outcome \in RunOutcome, items \in Transcript :
        /\ server' = [server EXCEPT !.ended = outcome, !.items = items]
        /\ Read(Notified(client, outcome))

\* An unknown response id, a line that is no message or too long, a malformed
\* turn/completed; or the end of some other turn.
Stray ==
    /\ CanRead
    /\ server.strays < MaxStrays
    /\ server' = [server EXCEPT !.strays = @ + 1]
    /\ Read(ClientFailed(client, "protocol")) \/ Read(Notified(client, "other"))

\* handleServerRequest: any approval is declined, anything else refused; an
\* answer that cannot be written fails the client.
Declines ==
    /\ CanRead /\ FALSE \in CanWrite
    /\ Read(ClientFailed(client, "exited"))
    /\ UNCHANGED server

\* The timer of a request
RequestExpires ==
    /\ IsIdle
    /\ \E method \in client.pending :
        LET c == [client EXCEPT !.pending = @ \ {method}] IN
        Timed(IF method = client.pc THEN Woken(c, "timeout") ELSE c)
    /\ UNCHANGED server

TurnExpires ==
    /\ IsIdle /\ client.waiter = "waiting"
    /\ LET c == [client EXCEPT !.waiter = "expired"] IN
       Timed(IF c.pc = "turn/completed" THEN Woken(c, "timeout") ELSE c)
    /\ UNCHANGED server

\* abortHandler: without a turn there is nothing to interrupt.
Abort ==
    /\ InTurn /\ IsIdle /\ client.abort = "no"
    /\ \/ /\ client.known # "turn"
          /\ Timed(Woken([client EXCEPT !.abort = "rejected"], "aborted"))
          /\ UNCHANGED server
       \/ /\ client.known = "turn"
          /\ Ask([client EXCEPT !.abort = "asked", !.chunk = FALSE], "turn/interrupt")

AbortExpires ==
    /\ InTurn /\ IsIdle /\ client.abort = "asked"
    /\ Timed(Woken([client EXCEPT !.abort = "rejected"], "aborted"))
    /\ UNCHANGED server

\* handleStreamError
StreamFails ==
    /\ server.proc # "spawning" /\ ~server.closed /\ IsIdle
    /\ ~client.stopping
    /\ Timed(ClientFailed(client, "exited"))
    /\ UNCHANGED server

\* The process exits, or a signal ends it: one of the client's, a crash, or one
\* from outside.
Dies ==
    /\ server.proc = "up" /\ IsIdle
    /\ \E proc \in {"exited", "signalled"} : server' = [server EXCEPT !.proc = proc]
    /\ UNCHANGED client

\* The close event.
Closes ==
    /\ IsDead(server) /\ ~server.closed /\ IsIdle
    /\ server' = [server EXCEPT !.closed = TRUE]
    /\ client' = IF client.pc \in {"closing", "killing"} THEN [client EXCEPT !.pc = "done"]
                 ELSE IF client.stopping THEN client
                 ELSE [ClientFailed(client, "exited") EXCEPT !.chunk = FALSE]

\* waitForClose runs out: SIGKILL at first, then the cleanup has failed.
GraceExpires ==
    /\ \/ /\ client.pc = "closing"
          /\ client' = [client EXCEPT !.pc = IF HasExitCode(server) THEN "done" ELSE "killing"]
       \/ /\ client.pc = "killing"
          /\ client' = [client EXCEPT !.pc = "done",
                                      !.result = IF HasExitCode(server) THEN @ ELSE "cleanup"]
    /\ UNCHANGED server

-----------------------------------------------------------------------------
Continue ==
    \/ GiveUp \/ Initialize \/ StartThread \/ StartTurn \/ AwaitCompletion \/ Complete

Expires == RequestExpires \/ TurnExpires \/ AbortExpires \/ GraceExpires

TurnNext ==
    \/ Continue \/ Expires \/ Spawned \/ SpawnFails
    \/ Responds \/ TurnEnds \/ Stray \/ Declines
    \/ Abort \/ StreamFails \/ Dies \/ Closes

\* Node reports whether a process was spawned, runs continuations and fires
\* timers; nothing is assumed of the server, its process or the operator.
TurnFairness == WF_turnVars(Continue) /\ WF_turnVars(Expires) /\ WF_turnVars(Spawned \/ SpawnFails)

TurnSpec == TurnInit /\ [][TurnNext]_turnVars /\ TurnFairness

-----------------------------------------------------------------------------
(* The adapter.                                                            *)

\* parseRunnerManifest refuses what is no manifest.
CODEX_APP_SERVER_RUNNER_MANIFEST ==
    CHOOSE m \in {[shape |-> "plain", runnerId |-> "words", displayName |-> "words",
                   access |-> <<"read-only", "workspace-write">>, kinds |-> <<>>,
                   cancellation |-> TRUE, timeout |-> TRUE]} :
        IsManifest(m)

\* extractTurnSummary: the last agent message that is not empty
Summary(items) ==
    LET spoken == SelectSeq(items, LAMBDA text : text # "empty") IN
    IF spoken = <<>> THEN "absent" ELSE spoken[Len(spoken)]

\* CodexAppServerRunnerAdapter.execute
Envelope(outcome, items, attempt) ==
    [shape |-> "plain", attemptId |-> attempt, outcome |-> outcome, summary |-> Summary(items),
     sessionId |-> "words", executionId |-> "words", claims |-> <<>>]

\* How the adapter's promise settles for the host, as in AttemptRun.
Settles ==
    IF client.result = "cleanup" THEN "cleanupFailed"
    ELSE IF client.result \notin RunOutcome THEN "rejected"
    ELSE IF IsOutput(Envelope(client.result, server.items, 1), CODEX_APP_SERVER_RUNNER_MANIFEST, 1)
    THEN client.result ELSE "invalid"

-----------------------------------------------------------------------------
Method == Handshake \cup {"turn/interrupt"}

Client ==
    [pc: Handshake \cup {"start", "turn/completed", "closing", "killing", "done"},
     wake: Error \cup {"none", "ok", "malformed"}, chunk: BOOLEAN, pending: SUBSET Method,
     waiter: RunOutcome \cup {"none", "waiting", "rejected", "expired", "other"},
     known: {"none", "thread", "turn"}, failure: Error \cup {"none"},
     abort: {"no", "asked", "rejected"}, stopping: BOOLEAN,
     result: RunOutcome \cup Error \cup {"none"}]

Server ==
    [proc: {"spawning", "up", "failed", "exited", "signalled"}, closed: BOOLEAN,
     asked: SUBSET Method, ended: RunOutcome \cup {"none"}, items: Transcript \cup {<<>>},
     strays: 0..MaxStrays]

TurnTypeOK == client \in Client /\ server \in Server

IsDone == client.pc = "done"

\* AttemptRun takes a settled adapter for one that has stopped: when the run
\* ends with anything but an unconfirmed cleanup, no process is left.
NoProcessIsLeft == IsDone /\ Settles # "cleanupFailed" => IsDead(server)

\* docs/specs/0002 "Run Codex": the host sees the outcome the server reported
\* for this turn, also one that ended before its start was answered; only a
\* deadline, a failed cleanup or a broken protocol keeps it from the host.
TurnDecides ==
    IsDone => /\ client.result \in RunOutcome => client.result = server.ended
              /\ (client.known = "turn" /\ server.ended # "none" /\ client.waiter # "expired")
                    => client.result \in {server.ended, "cleanup", "protocol"}

\* docs/architecture/codex-runner.md:73: stopping fails when the process has not
\* exited after it was forced to.
CleanupFailsForTheLiving ==
    [][IsDone' /\ ~IsDone /\ client'.result = "cleanup" => ~server.closed]_turnVars

\* docs/specs/0002:53: an attempt whose turn is completed is shown as completed.
CompletedTurnCompletes == IsDone /\ client.result = "completed" => Settles = "completed"
=============================================================================
