--------------------------- MODULE RuntimeProofs ----------------------------
(***************************************************************************)
(* What holds inside one process: of a turn of the Codex adapter           *)
(* (CodexAppServer), of calls to Linear (LinearTransport), of the journal  *)
(* everything is written to (JournalService), and of the attempts it runs  *)
(* (AttemptRun): types, the adapters at work, the cleanup fence at capacity *)
(* one, accepted cancellations, and the ledger of attempts they implement.  *)
(*                                                                         *)
(* The journal is replayed by a recursive function.  What such a function  *)
(* computes is proved here from the well-foundedness of the naturals, by   *)
(* first-order lemmas about the runs of a recursion.                       *)
(***************************************************************************)
EXTENDS CodexAppServer, LinearTransport, JournalService, AttemptRun,
        FiniteSetTheorems, SequenceTheorems, WellFoundedInduction, TLAPS

-----------------------------------------------------------------------------
(* A turn: its invariant, of a client c and its server s.                  *)

\* An answer that is awaited and has not come will settle the wait.
Asking(c) == c.pc \in Handshake /\ c.wake = "none" => c.pc \in c.pending

\* The waiter is there before the turn is asked for and settled once: by the end
\* of the turn, unless something else came first.
Waiting(c, s) ==
    /\ c.pc \in {"start", "initialize", "thread/start"} => c.waiter = "none" /\ s.ended = "none"
    /\ c.pc \in {"turn/start", "turn/completed"} => c.waiter # "none"
    /\ c.waiter \in RunOutcome => c.waiter = s.ended
    /\ s.ended # "none" => c.waiter \in RunOutcome \cup {"other", "expired"}

\* runTurn wakes from its last wait when the waiter is settled; if an abort
\* wakes it before, no further line is read.
Awaiting(c) ==
    c.pc = "turn/completed" =>
        /\ c.wake = "none" => c.waiter = "waiting"
        /\ c.wake = "ok" => c.waiter \in RunOutcome \cup {"other"}
        /\ c.wake \notin {"none", "ok"} => c.waiter \in {"waiting", "rejected", "expired"}
        /\ (c.wake \notin {"none", "ok"} /\ c.waiter = "waiting") => ~c.chunk \/ c.failure # "none"

Open == Handshake \cup {"start", "turn/completed"}

\* A failure that rejects the waiter wakes runTurn.
Rejecting(c) == c.pc \in Open /\ c.waiter = "rejected" => c.wake # "none" /\ c.failure # "none"

Knowing(c) == c.pc \in Open \ {"turn/completed"} => c.known # "turn"

\* Nothing but a failed cleanup changes the result of a turn that is being stopped.
Ending(c, s) ==
    c.pc \in {"closing", "killing", "done"} =>
        /\ c.waiter # "waiting"
        /\ c.result \in RunOutcome => c.result = s.ended
        /\ (c.known = "turn" /\ s.ended # "none" /\ c.waiter # "expired")
                => c.result \in {s.ended, "cleanup", "protocol"}
        /\ c.pc = "done" => c.result = "cleanup" \/ IsDead(s)

TurnInv(c, s) ==
    /\ Asking(c) /\ Waiting(c, s) /\ Awaiting(c) /\ Rejecting(c) /\ Knowing(c) /\ Ending(c, s)

TurnIInv == TurnTypeOK /\ TurnInv(client, server)

-----------------------------------------------------------------------------
(* A turn: the operators of the client.                                    *)

LEMMA WokenFields ==
    ASSUME NEW c \in Client, NEW how \in Error \cup {"ok", "malformed"}
    PROVE  /\ Woken(c, how) \in Client
           /\ c.wake # "none" => Woken(c, how) = c
           /\ c.wake = "none" => Woken(c, how) = [c EXCEPT !.wake = how]
BY DEF Woken, Client

\* Does a failure wake runTurn?
Waits(c) == c.pc \in c.pending \/ (c.pc = "turn/completed" /\ c.waiter = "waiting")

LEMMA RejectedFields ==
    ASSUME NEW c \in Client, NEW code \in Error \cup {"stopped"}
    PROVE  Rejected(c, code) =
            [c EXCEPT !.wake = IF Waits(c) /\ c.wake = "none" THEN code ELSE @,
                      !.pending = {}, !.waiter = IF @ = "waiting" THEN "rejected" ELSE @]
<1> DEFINE d == IF Waits(c) THEN Woken(c, code) ELSE c
<1>1. d = [c EXCEPT !.wake = IF Waits(c) /\ c.wake = "none" THEN code ELSE @]
    BY DEF Woken, Client
<1>2. Rejected(c, code) = [d EXCEPT !.pending = {}, !.waiter = IF @ = "waiting" THEN "rejected" ELSE @]
    BY Zenon DEF Rejected, Waits
<1> HIDE DEF d
<1> QED BY <1>1, <1>2 DEF Client

\* What the first failure does to the client, and what it leaves alone.
LEMMA FailedFields ==
    ASSUME NEW c \in Client, NEW code \in Error
    PROVE  /\ ClientFailed(c, code) \in Client
           /\ ClientFailed(c, code).pc = c.pc /\ ClientFailed(c, code).chunk = c.chunk
           /\ c.failure # "none" => ClientFailed(c, code) = c
           /\ c.failure = "none" => ClientFailed(c, code) =
                [c EXCEPT !.failure = code, !.wake = IF Waits(c) /\ c.wake = "none" THEN code ELSE @,
                          !.pending = {}, !.waiter = IF @ = "waiting" THEN "rejected" ELSE @]
<1> DEFINE d == [c EXCEPT !.failure = code]
<1>1. d \in Client /\ (Waits(d) <=> Waits(c))
    BY DEF Client, Waits
<1>2. c.failure = "none" => ClientFailed(c, code) = Rejected(d, code)
    BY DEF ClientFailed
<1>3. Rejected(d, code) =
            [d EXCEPT !.wake = IF Waits(d) /\ d.wake = "none" THEN code ELSE @,
                      !.pending = {}, !.waiter = IF @ = "waiting" THEN "rejected" ELSE @]
    BY <1>1, RejectedFields
<1>4. Rejected(d, code) =
                [c EXCEPT !.failure = code, !.wake = IF Waits(c) /\ c.wake = "none" THEN code ELSE @,
                          !.pending = {}, !.waiter = IF @ = "waiting" THEN "rejected" ELSE @]
    BY <1>1, <1>3 DEF Client
<1> HIDE DEF d
<1>5. Rejected(d, code) \in Client
    BY <1>4 DEF Client
<1>6. Rejected(d, code).pc = c.pc /\ Rejected(d, code).chunk = c.chunk
    BY <1>4 DEF Client
<1> QED BY <1>2, <1>4, <1>5, <1>6 DEF ClientFailed

\* A failure keeps the invariant, also when it came with a line of a chunk.
LEMMA FailureKeeps ==
    ASSUME NEW c \in Client, NEW s \in Server, NEW code \in Error, TurnInv(c, s), NEW b \in BOOLEAN,
           b => c.wake = "none" \/ c.chunk
    PROVE  /\ [ClientFailed(c, code) EXCEPT !.chunk = b] \in Client
           /\ TurnInv([ClientFailed(c, code) EXCEPT !.chunk = b], s)
<1> DEFINE f == ClientFailed(c, code)
           d == [f EXCEPT !.chunk = b]
<1>1. f \in Client
    BY FailedFields
<1>2. d \in Client
    BY <1>1 DEF Client
<1>3. CASE c.failure # "none"
  <2>1. f = c
    BY <1>3, FailedFields
  <2> QED BY <1>2, <1>3, <2>1 DEF TurnInv, Asking, Waiting, Awaiting, Rejecting, Knowing, Ending, Client
<1>4. CASE c.failure = "none"
  <2>1. /\ f.failure = code /\ f.wake = (IF Waits(c) /\ c.wake = "none" THEN code ELSE c.wake)
        /\ f.pending = {} /\ f.waiter = (IF c.waiter = "waiting" THEN "rejected" ELSE c.waiter)
        /\ f.pc = c.pc /\ f.known = c.known /\ f.result = c.result
    <3>1. f = [c EXCEPT !.failure = code, !.wake = IF Waits(c) /\ c.wake = "none" THEN code ELSE @,
                        !.pending = {}, !.waiter = IF @ = "waiting" THEN "rejected" ELSE @]
      BY <1>4, FailedFields
    <3> HIDE DEF f
    <3> QED BY <3>1 DEF Client
  <2>2. /\ d.failure = f.failure /\ d.wake = f.wake /\ d.pending = f.pending /\ d.waiter = f.waiter
        /\ d.pc = f.pc /\ d.known = f.known /\ d.result = f.result /\ d.chunk = b
    BY <1>1 DEF Client
  <2> HIDE DEF d, f
  <2>3. Asking(d) /\ Rejecting(d) /\ Knowing(d)
    BY <1>4, <2>1, <2>2 DEF TurnInv, Asking, Waiting, Awaiting, Rejecting, Knowing, Waits, Error, Open, Handshake
  <2>4. Waiting(d, s)
    BY <2>1, <2>2 DEF TurnInv, Waiting, RunOutcome
  <2>5. Awaiting(d)
    BY <2>1, <2>2 DEF TurnInv, Awaiting, Waits, Error, RunOutcome
  <2>6. Ending(d, s)
    BY <2>1, <2>2 DEF TurnInv, Ending
  <2> QED BY <1>2, <2>3, <2>4, <2>5, <2>6 DEF TurnInv, d, f
<1> QED BY <1>3, <1>4

LEMMA ClearedClient ==
    ASSUME NEW c \in Client,
           NEW waiter \in RunOutcome \cup {"none", "waiting", "rejected", "expired", "other"}
    PROVE  [c EXCEPT !.pending = {}, !.waiter = waiter] \in Client
BY DEF Client

LEMMA StoppedClient ==
    ASSUME NEW c \in Client, NEW at \in {"done", "closing"}, NEW stopping \in BOOLEAN
    PROVE  [c EXCEPT !.pc = at, !.wake = "none", !.stopping = stopping] \in Client
BY DEF Client

\* What the finally block leaves.
LEMMA StopFields ==
    ASSUME NEW c \in Client, NEW result \in RunOutcome \cup Error
    PROVE  /\ Stop(c, result) \in Client
           /\ Stop(c, result).pc = (IF HasExitCode(server) THEN "done" ELSE "closing")
           /\ Stop(c, result).waiter = (IF c.waiter = "waiting" THEN "rejected" ELSE c.waiter)
           /\ Stop(c, result).result = result /\ Stop(c, result).known = c.known
<1> DEFINE d == [c EXCEPT !.result = result, !.wake = "none", !.chunk = FALSE]
           r == Rejected(d, "stopped")
           at == IF HasExitCode(server) THEN "done" ELSE "closing"
           stopping == ~HasExitCode(server)
           waiter == IF d.waiter = "waiting" THEN "rejected" ELSE d.waiter
           q == [d EXCEPT !.pending = {}, !.waiter = waiter]
           t == Stop(c, result)
<1>1. d \in Client /\ d.waiter = c.waiter /\ d.result = result /\ d.known = c.known
    BY DEF Client
<1>2. r = [d EXCEPT !.wake = IF Waits(d) /\ d.wake = "none" THEN "stopped" ELSE @,
                    !.pending = {}, !.waiter = IF @ = "waiting" THEN "rejected" ELSE @]
    BY <1>1, RejectedFields
<1>3. t = [r EXCEPT !.pc = at, !.wake = "none", !.stopping = stopping]
    BY Zenon DEF Stop
<1>4. at \in {"done", "closing"} /\ stopping \in BOOLEAN
    BY DEF HasExitCode
<1> HIDE DEF d, r, t, at, stopping
<1>5. waiter \in RunOutcome \cup {"none", "waiting", "rejected", "expired", "other"}
    BY <1>1 DEF Client
<1> HIDE DEF waiter
<1>6. q \in Client /\ q.waiter = waiter /\ q.result = d.result /\ q.known = d.known
  <2>1. q \in Client
    BY <1>1, <1>5, ClearedClient
  <2> QED BY <1>1, <2>1 DEF Client
<1>7. t = [q EXCEPT !.pc = at, !.wake = "none", !.stopping = stopping]
    BY <1>1, <1>2, <1>3 DEF Client, waiter
<1> HIDE DEF q
<1>8. t \in Client /\ t.pc = at /\ t.waiter = q.waiter /\ t.result = q.result /\ t.known = q.known
  <2>1. t \in Client
    BY <1>4, <1>6, <1>7, StoppedClient
  <2> QED BY <1>6, <1>7, <2>1 DEF Client
<1> QED BY <1>1, <1>6, <1>8 DEF t, at, waiter

\* The finally block keeps it with a result that the turn allows.
LEMMA StopKeeps ==
    ASSUME NEW c \in Client, TurnInv(c, server), c.pc \in Open,
           NEW result \in RunOutcome \cup Error,
           result \in RunOutcome => result = server.ended,
           (c.known = "turn" /\ server.ended # "none" /\ c.waiter # "expired")
                => result \in {server.ended, "cleanup", "protocol"}
    PROVE  Stop(c, result) \in Client /\ TurnInv(Stop(c, result), server)
<1> DEFINE t == Stop(c, result)
<1>1. /\ t \in Client /\ t.pc = (IF HasExitCode(server) THEN "done" ELSE "closing")
      /\ t.waiter = (IF c.waiter = "waiting" THEN "rejected" ELSE c.waiter)
      /\ t.result = result /\ t.known = c.known
    BY StopFields
<1> HIDE DEF t
<1>2. Asking(t) /\ Awaiting(t) /\ Rejecting(t) /\ Knowing(t)
    BY <1>1 DEF Asking, Awaiting, Rejecting, Knowing, Open, Handshake
<1>3. Waiting(t, server)
    BY <1>1 DEF TurnInv, Waiting, RunOutcome
<1>4. Ending(t, server)
    BY <1>1 DEF TurnInv, Ending, HasExitCode, IsDead
<1> QED BY <1>1, <1>2, <1>3, <1>4 DEF TurnInv, t

\* The invariant looks at the end of the turn and at the end of the process only.
LEMMA ServerMoves ==
    ASSUME NEW c \in Client, NEW s, NEW t, TurnInv(c, s), t.ended = s.ended, IsDead(s) => IsDead(t)
    PROVE  TurnInv(c, t)
BY DEF TurnInv, Waiting, Ending

\* What a request does to the client.
LEMMA AskedFields ==
    ASSUME NEW c \in Client, NEW method \in Method, NEW written \in BOOLEAN
    PROVE  /\ Asked(c, method, written) \in Client
           /\ \/ Asked(c, method, written) = [c EXCEPT !.pending = @ \cup {method}]
              \/ method # c.pc /\ Asked(c, method, written) = c
              \/ \E code \in Error : Asked(c, method, written) = Woken(c, code)
<1>1. CASE c.failure = "none" /\ written
    BY <1>1 DEF Asked, Client
<1>2. CASE ~(c.failure = "none" /\ written) /\ method # c.pc
    BY <1>2 DEF Asked
<1>3. CASE ~(c.failure = "none" /\ written) /\ method = c.pc
  <2>1. PICK code \in Error : Asked(c, method, written) = Woken(c, code)
    <3>1. CASE c.failure # "none"
      BY <1>3, <3>1 DEF Asked, Client
    <3>2. CASE c.failure = "none"
      BY <1>3, <3>2 DEF Asked, Error
    <3> QED BY <3>1, <3>2
  <2> QED BY <2>1, WokenFields
<1> QED BY <1>1, <1>2, <1>3

-----------------------------------------------------------------------------
(* A turn: the continuations of runTurn.                                   *)

\* The next request of the handshake is asked and awaited.
LEMMA AskKeeps ==
    ASSUME NEW c \in Client, NEW s \in Server, NEW written \in BOOLEAN,
           c.pc \in Handshake, c.wake = "none", c.waiter # "rejected",
           Waiting(c, s), Knowing(c)
    PROVE  Asked(c, c.pc, written) \in Client /\ TurnInv(Asked(c, c.pc, written), s)
<1> DEFINE a == Asked(c, c.pc, written)
<1>1. c.pc \in Method
    BY DEF Method
<1>2. a \in Client
    BY <1>1, AskedFields
<1>3. /\ a.pc = c.pc /\ a.waiter = c.waiter /\ a.known = c.known
      /\ a.wake # "none" \/ c.pc \in a.pending
  <2>1. CASE a = [c EXCEPT !.pending = @ \cup {c.pc}]
    BY <2>1, Zenon DEF Client
  <2>2. ASSUME NEW code \in Error, a = Woken(c, code)
        PROVE  /\ a.pc = c.pc /\ a.waiter = c.waiter /\ a.known = c.known
               /\ a.wake # "none"
    <3>1. a = [c EXCEPT !.wake = code]
      BY <2>2, WokenFields
    <3> HIDE DEF a
    <3> QED BY <3>1 DEF Client, Error
  <2> QED BY <1>1, <2>1, <2>2, AskedFields
<1> HIDE DEF a
<1> QED BY <1>2, <1>3 DEF TurnInv, Asking, Waiting, Awaiting, Rejecting, Knowing, Ending, Open, Handshake, a

LEMMA ThreadKnown ==
    ASSUME NEW c \in Client
    PROVE  [c EXCEPT !.known = "thread", !.waiter = "waiting"] \in Client
BY DEF Client

LEMMA TurnKnown ==
    ASSUME NEW c \in Client, NEW wake \in Error \cup {"none", "ok", "malformed"}
    PROVE  [c EXCEPT !.known = "turn", !.wake = wake] \in Client
BY DEF Client

LEMMA AskingServer ==
    ASSUME server \in Server, NEW c, NEW method \in Method, Ask(c, method)
    PROVE  server' \in Server /\ server'.ended = server.ended /\ IsDead(server)' = IsDead(server)
BY DEF Ask, Server, IsDead

LEMMA ContinueKeeps ==
    ASSUME TurnIInv, Continue
    PROVE  TurnIInv'
<1> USE DEF TurnIInv, TurnTypeOK
<1>1. ASSUME GiveUp PROVE TurnIInv'
  <2> DEFINE result == IF client.wake = "malformed" THEN "protocol" ELSE client.wake
  <2>1. client' = Stop(client, result) /\ client.pc \in Open /\ server' = server
    BY <1>1 DEF GiveUp, InTurn, Open
  <2>2. result \in Error /\ result \notin RunOutcome /\ client.wake \notin {"none", "ok"}
    BY <1>1 DEF GiveUp, Error, RunOutcome
  <2>3. ~(client.known = "turn" /\ server.ended # "none" /\ client.waiter # "expired")
    BY <2>1, <2>2 DEF TurnInv, Waiting, Awaiting, Knowing, Open, RunOutcome
  <2> HIDE DEF result
  <2> QED BY <2>1, <2>2, <2>3, StopKeeps
<1>2. ASSUME Complete PROVE TurnIInv'
  <2> DEFINE result == IF client.waiter = "other" THEN "protocol" ELSE client.waiter
  <2>1. client' = Stop(client, result) /\ client.pc \in Open /\ server' = server
    BY <1>2 DEF Complete, Open
  <2>2. client.waiter \in RunOutcome \cup {"other"} /\ (client.waiter \in RunOutcome => client.waiter = server.ended)
    BY <1>2 DEF Complete, TurnInv, Waiting, Awaiting
  <2>3. /\ result \in RunOutcome \cup Error
        /\ result \in RunOutcome => result = server.ended
        /\ result \in {server.ended, "cleanup", "protocol"}
    BY <2>2 DEF Error, RunOutcome
  <2> HIDE DEF result
  <2> QED BY <2>1, <2>3, StopKeeps
<1>3. ASSUME NEW c \in Client, NEW method \in Handshake, Ask(c, method), c.pc = method, c.wake = "none",
             c.waiter # "rejected", Waiting(c, server), Knowing(c)
      PROVE  TurnIInv'
  <2>1. PICK written \in BOOLEAN : client' = Asked(c, method, written)
    BY <1>3 DEF Ask, CanWrite
  <2>2. client' \in Client /\ TurnInv(client', server)
    BY <1>3, <2>1, AskKeeps
  <2>3. server' \in Server /\ server'.ended = server.ended /\ IsDead(server)' = IsDead(server)
    BY <1>3, AskingServer DEF Method
  <2> QED BY <2>2, <2>3, ServerMoves DEF IsDead
<1>4. ASSUME Initialize PROVE TurnIInv'
  <2> DEFINE c == Advanced(client, "initialize")
  <2>1. c \in Client /\ c.pc = "initialize" /\ c.wake = "none" /\ c.waiter = client.waiter /\ c.known = client.known
    BY DEF Advanced, Client, Handshake
  <2>2. Ask(c, "initialize") /\ client.pc = "start"
    BY <1>4 DEF Initialize
  <2> HIDE DEF c
  <2>3. c.waiter # "rejected" /\ Waiting(c, server) /\ Knowing(c)
    BY <2>1, <2>2 DEF TurnInv, Waiting, Knowing, Open
  <2> QED BY <1>3, <2>1, <2>2, <2>3 DEF Handshake
<1>5. ASSUME StartThread PROVE TurnIInv'
  <2> DEFINE c == Advanced(client, "thread/start")
  <2>1. c \in Client /\ c.pc = "thread/start" /\ c.wake = "none" /\ c.waiter = client.waiter /\ c.known = client.known
    BY DEF Advanced, Client, Handshake
  <2>2. Ask(c, "thread/start") /\ client.pc = "initialize"
    BY <1>5 DEF StartThread
  <2> HIDE DEF c
  <2>3. c.waiter # "rejected" /\ Waiting(c, server) /\ Knowing(c)
    BY <2>1, <2>2 DEF TurnInv, Waiting, Knowing, Open, Handshake
  <2> QED BY <1>3, <2>1, <2>2, <2>3 DEF Handshake
<1>6. ASSUME StartTurn PROVE TurnIInv'
  <2> DEFINE d == Advanced(client, "turn/start")
             c == [d EXCEPT !.known = "thread", !.waiter = "waiting"]
  <2>1. d \in Client /\ d.pc = "turn/start" /\ d.wake = "none"
    BY DEF Advanced, Client, Handshake
  <2> HIDE DEF d
  <2>2. c \in Client /\ c.pc = "turn/start" /\ c.wake = "none" /\ c.waiter = "waiting" /\ c.known = "thread"
    <3>1. c \in Client
      BY <2>1, ThreadKnown
    <3> QED BY <2>1, <3>1 DEF Client
  <2>3. Ask(c, "turn/start") /\ client.pc = "thread/start"
    BY <1>6 DEF StartTurn, d
  <2> HIDE DEF c
  <2>4. Waiting(c, server) /\ Knowing(c)
    BY <2>2, <2>3 DEF TurnInv, Waiting, Knowing, RunOutcome
  <2> QED BY <1>3, <2>2, <2>3, <2>4 DEF Handshake
<1>7. ASSUME AwaitCompletion PROVE TurnIInv'
  <2> DEFINE d == Advanced(client, "turn/completed")
             wake == Completion(client.waiter)
             c == [d EXCEPT !.known = "turn", !.wake = wake]
  <2>1. client.pc = "turn/start" /\ client.wake = "ok" /\ client' = c /\ server' = server
    BY <1>7 DEF AwaitCompletion
  <2>2. /\ client.waiter # "none"
        /\ client.waiter = "rejected" => client.failure \in Error
    BY <2>1 DEF TurnInv, Waiting, Rejecting, Open, Client, Handshake
  <2>3. /\ client.waiter = "waiting" => wake = "none"
        /\ client.waiter = "expired" => wake = "timeout"
        /\ client.waiter = "rejected" => wake = client.failure
        /\ client.waiter \in RunOutcome \cup {"other"} => wake = "ok"
    BY DEF Completion, RunOutcome
  <2>4. client.waiter \in RunOutcome \cup {"waiting", "rejected", "expired", "other"}
    BY <2>2 DEF Client
  <2> HIDE DEF wake
  <2>5. wake \in Error \cup {"none", "ok", "malformed"}
    BY <2>2, <2>3, <2>4 DEF Error
  <2>6. d \in Client /\ d.pc = "turn/completed" /\ d.waiter = client.waiter /\ d.chunk = FALSE
        /\ d.failure = client.failure
    BY DEF Advanced, Client
  <2> HIDE DEF d
  <2>7. /\ c \in Client /\ c.pc = "turn/completed" /\ c.waiter = client.waiter /\ c.chunk = FALSE
        /\ c.failure = client.failure /\ c.wake = wake
    <3>1. c \in Client
      BY <2>5, <2>6, TurnKnown
    <3> QED BY <2>6, <3>1 DEF Client
  <2> HIDE DEF c
  <2>8. Waiting(c, server)
    BY <2>1, <2>2, <2>7 DEF TurnInv, Waiting
  <2>9. Awaiting(c) /\ Rejecting(c)
    BY <2>2, <2>3, <2>4, <2>7 DEF Awaiting, Rejecting, Error, RunOutcome
  <2>10. Asking(c) /\ Knowing(c) /\ Ending(c, server)
    BY <2>7 DEF Asking, Knowing, Ending, Handshake
  <2> QED BY <2>1, <2>7, <2>8, <2>9, <2>10 DEF TurnInv
<1> QED BY <1>1, <1>2, <1>4, <1>5, <1>6, <1>7 DEF Continue

-----------------------------------------------------------------------------
(* A turn: the events.                                                     *)

LEMMA ChunkFields ==
    ASSUME NEW c \in Client, NEW b \in BOOLEAN, NEW f, f = [c EXCEPT !.chunk = b]
    PROVE  /\ f \in Client /\ f.pc = c.pc /\ f.waiter = c.waiter /\ f.known = c.known
           /\ f.result = c.result /\ f.failure = c.failure /\ f.pending = c.pending
           /\ f.wake = c.wake /\ f.chunk = b
BY DEF Client

\* A line is read only while nothing has woken runTurn, or by the chunk that did.
LEMMA Reading ==
    ASSUME CanRead
    PROVE  client.wake = "none" \/ (client.chunk /\ client.failure = "none")
BY DEF CanRead, IsIdle

\* An abort, a deadline: a wake from a wait whose waiter is not settled.
LEMMA WakeKeeps ==
    ASSUME NEW c \in Client, NEW s \in Server, TurnInv(c, s), NEW code \in Error, c.wake = "none",
           ~c.chunk
    PROVE  Woken(c, code) \in Client /\ TurnInv(Woken(c, code), s)
<1> DEFINE d == Woken(c, code)
<1>1. d \in Client /\ d = [c EXCEPT !.wake = code]
    BY WokenFields
<1> HIDE DEF d
<1>2. /\ d.wake = code /\ d.pc = c.pc /\ d.waiter = c.waiter /\ d.known = c.known /\ d.chunk = c.chunk
      /\ d.result = c.result /\ d.failure = c.failure
    BY <1>1 DEF Client
<1>3. Asking(d) /\ Knowing(d) /\ Ending(d, s) /\ Waiting(d, s)
    BY <1>2 DEF TurnInv, Asking, Knowing, Ending, Waiting, Error
<1>4. Awaiting(d) /\ Rejecting(d)
    BY <1>2 DEF TurnInv, Awaiting, Rejecting, Error
<1> QED BY <1>1, <1>3, <1>4 DEF TurnInv, d

\* A request is answered, well or not, or its time is up.
LEMMA TurnAnswerKeeps ==
    ASSUME NEW c \in Client, NEW s \in Server, TurnInv(c, s), NEW method \in Method,
           NEW how \in Error \cup {"ok", "malformed"}, NEW b \in BOOLEAN,
           b => c.wake = "none" \/ (c.chunk /\ c.failure = "none"),
           NEW f, f = [(IF method = c.pc THEN Woken([c EXCEPT !.pending = @ \ {method}], how)
                        ELSE [c EXCEPT !.pending = @ \ {method}]) EXCEPT !.chunk = b]
    PROVE  f \in Client /\ TurnInv(f, s)
<1> DEFINE d == [c EXCEPT !.pending = @ \ {method}]
           e == IF method = c.pc THEN Woken(d, how) ELSE d
<1>1. d \in Client
    BY DEF Client
<1>2. /\ d.wake = c.wake /\ d.pc = c.pc /\ d.waiter = c.waiter /\ d.known = c.known
      /\ d.result = c.result /\ d.failure = c.failure /\ d.pending = c.pending \ {method}
    BY DEF Client
<1> HIDE DEF d
<1>3. /\ e \in Client /\ e.pc = d.pc /\ e.waiter = d.waiter /\ e.known = d.known
      /\ e.result = d.result /\ e.failure = d.failure /\ e.pending = d.pending
      /\ e.wake = (IF method = c.pc /\ d.wake = "none" THEN how ELSE d.wake)
    BY <1>1, WokenFields DEF Client
<1>4. f = [e EXCEPT !.chunk = b]
    BY DEF d
<1> HIDE DEF e
<1>5. /\ f \in Client /\ f.pc = e.pc /\ f.waiter = e.waiter /\ f.known = e.known
      /\ f.result = e.result /\ f.failure = e.failure /\ f.pending = e.pending /\ f.wake = e.wake
      /\ f.chunk = b
  <2>1. e \in Client
    BY <1>3
  <2> QED BY <1>4, <2>1 DEF Client
<1>6. method = c.pc => c.pc \in Handshake
    BY DEF Client, Method, Handshake
<1>7. Asking(f) /\ Rejecting(f) /\ Knowing(f)
    BY <1>2, <1>3, <1>5 DEF TurnInv, Asking, Rejecting, Knowing, Error
<1>8. Waiting(f, s) /\ Ending(f, s)
    BY <1>2, <1>3, <1>5 DEF TurnInv, Waiting, Ending
<1>9. Awaiting(f)
    BY <1>2, <1>3, <1>5, <1>6 DEF TurnInv, Awaiting, Handshake
<1> QED BY <1>5, <1>7, <1>8, <1>9 DEF TurnInv

\* A completion, of this turn or another, that the waiter takes or comes too late for.
LEMMA NotifiedKeeps ==
    ASSUME NEW c \in Client, NEW s \in Server, NEW t \in Server, TurnInv(c, s), IsDead(s) => IsDead(t),
           NEW turn \in RunOutcome \cup {"other"},
           c.wake = "none" \/ (c.chunk /\ c.failure = "none"),
           turn = "other" => t.ended = s.ended,
           turn # "other" => s.ended = "none" /\ t.ended = turn /\ c.pc \in {"turn/start", "turn/completed"}
    PROVE  Read(Notified(c, turn)) => client' \in Client /\ TurnInv(client', t)
<1> DEFINE n == [c EXCEPT !.waiter = turn]
           e == Notified(c, turn)
           f == [e EXCEPT !.chunk = TRUE]
<1>1. n \in Client
    BY DEF Client
<1>2. /\ n.wake = c.wake /\ n.pc = c.pc /\ n.waiter = turn /\ n.known = c.known
      /\ n.result = c.result /\ n.failure = c.failure /\ n.pending = c.pending
    BY DEF Client
<1>3. /\ c.waiter # "waiting" => e = c
      /\ (c.waiter = "waiting" /\ c.pc = "turn/completed") => e = Woken(n, "ok")
      /\ (c.waiter = "waiting" /\ c.pc # "turn/completed") => e = n
    BY DEF Notified
<1> HIDE DEF n, e
<1>4. /\ e \in Client /\ e.pc = c.pc /\ e.known = c.known /\ e.result = c.result
      /\ e.failure = c.failure /\ e.pending = c.pending
      /\ e.waiter = (IF c.waiter = "waiting" THEN turn ELSE c.waiter)
      /\ e.wake = (IF c.waiter = "waiting" /\ c.pc = "turn/completed" /\ c.wake = "none" THEN "ok" ELSE c.wake)
  <2>1. CASE c.waiter # "waiting"
    BY <1>3, <2>1
  <2>2. CASE c.waiter = "waiting" /\ c.pc # "turn/completed"
    BY <1>1, <1>2, <1>3, <2>2
  <2>3. CASE c.waiter = "waiting" /\ c.pc = "turn/completed"
    BY <1>1, <1>2, <1>3, <2>3, WokenFields DEF Client
  <2> QED BY <2>1, <2>2, <2>3
<1>5. /\ f \in Client /\ f.pc = e.pc /\ f.waiter = e.waiter /\ f.known = e.known
      /\ f.result = e.result /\ f.failure = e.failure /\ f.pending = e.pending /\ f.wake = e.wake
      /\ f.chunk = TRUE
    BY <1>4, ChunkFields
<1> HIDE DEF f
<1>6. Asking(f) /\ Knowing(f) /\ Rejecting(f)
    BY <1>4, <1>5 DEF TurnInv, Asking, Knowing, Rejecting, RunOutcome
<1>7. Waiting(f, t)
    BY <1>4, <1>5 DEF TurnInv, Waiting, Rejecting, Open, Handshake, RunOutcome, Client
<1>8. Awaiting(f)
    BY <1>4, <1>5 DEF TurnInv, Awaiting, RunOutcome
<1>9. Ending(f, t)
    BY <1>4, <1>5 DEF TurnInv, Ending
<1> QED BY <1>5, <1>6, <1>7, <1>8, <1>9 DEF TurnInv, Read, f, e

\* A failure that comes alone, or with the line that caused it.
LEMMA FailingKeeps ==
    ASSUME client \in Client, server \in Server, TurnInv(client, server), NEW code \in Error,
           NEW b \in BOOLEAN, b => client.wake = "none" \/ client.chunk,
           client' = [ClientFailed(client, code) EXCEPT !.chunk = b]
    PROVE  client' \in Client /\ TurnInv(client', server)
BY FailureKeeps

LEMMA SpawningKeeps ==
    ASSUME TurnIInv, Spawned \/ SpawnFails
    PROVE  TurnIInv'
<1> USE DEF TurnIInv, TurnTypeOK
<1>1. server' \in Server /\ server'.ended = server.ended /\ ~IsDead(server)
    BY DEF Spawned, SpawnFails, Server, IsDead
<1>2. ASSUME NEW c \in Client, TurnInv(c, server), c.pc = "start", NEW how \in Error \cup {"ok"}
      PROVE  Woken(c, how) \in Client /\ TurnInv(Woken(c, how), server)
  <2>1. CASE c.wake # "none"
    BY <1>2, <2>1, WokenFields
  <2>2. CASE c.wake = "none"
    <3> DEFINE d == Woken(c, how)
    <3>1. d \in Client /\ d = [c EXCEPT !.wake = how]
      BY <2>2, WokenFields
    <3> HIDE DEF d
    <3>2. d.pc = "start" /\ d.waiter = c.waiter /\ d.known = c.known
      BY <1>2, <3>1 DEF Client
    <3> QED BY <1>2, <3>1, <3>2 DEF TurnInv, Asking, Waiting, Awaiting, Rejecting, Knowing, Ending,
                                    Open, Handshake, d
  <2> QED BY <2>1, <2>2
<1>3. CASE Spawned
  <2>1. client' \in Client /\ TurnInv(client', server)
    BY <1>2, <1>3 DEF Spawned
  <2> QED BY <1>1, <2>1, ServerMoves DEF IsDead
<1>4. CASE SpawnFails
  <2> DEFINE f == ClientFailed(client, "unavailable")
  <2>1. "unavailable" \in Error /\ client.chunk \in BOOLEAN
    BY DEF Error, Client
  <2>2. f \in Client /\ f.pc = client.pc
    BY <2>1, FailedFields
  <2>3. [f EXCEPT !.chunk = client.chunk] = f
    <3>1. f.chunk = client.chunk
      BY <2>1, FailedFields
    <3> HIDE DEF f
    <3> QED BY <2>2, <3>1 DEF Client
  <2>4. TurnInv(f, server)
    BY <2>1, <2>3, FailureKeeps
  <2>5. client' = IF client.pc = "start" THEN Woken(f, "unavailable") ELSE f
    BY <1>4 DEF SpawnFails
  <2>6. client' \in Client /\ TurnInv(client', server)
    BY <1>2, <2>1, <2>2, <2>4, <2>5
  <2> QED BY <1>1, <2>6, ServerMoves DEF IsDead
<1> QED BY <1>3, <1>4

LEMMA LineKeeps ==
    ASSUME TurnIInv, Responds \/ TurnEnds \/ Stray \/ Declines
    PROVE  TurnIInv'
<1> USE DEF TurnIInv, TurnTypeOK
<1>1. client.wake = "none" \/ (client.chunk /\ client.failure = "none")
    BY Reading DEF Responds, TurnEnds, Stray, Declines
<1>2. ASSUME NEW code \in Error, Read(ClientFailed(client, code))
      PROVE  client' \in Client /\ TurnInv(client', server)
    BY <1>1, <1>2, FailingKeeps DEF Read
<1>3. "protocol" \in Error /\ "exited" \in Error
    BY DEF Error
<1>4. CASE Responds
  <2>1. PICK method \in server.asked, answer \in {"ok", "malformed", "response"} :
            /\ server' = [server EXCEPT !.asked = @ \ {method}]
            /\ IF method \notin client.pending THEN Read(ClientFailed(client, "protocol"))
               ELSE LET c == [client EXCEPT !.pending = @ \ {method}] IN
                    Read(IF method = client.pc THEN Woken(c, answer) ELSE c)
    BY <1>4 DEF Responds
  <2>2. server' \in Server /\ server'.ended = server.ended /\ server'.proc = server.proc /\ method \in Method
    BY <2>1 DEF Server
  <2>3. client' \in Client /\ TurnInv(client', server)
    <3>1. CASE method \notin client.pending
      BY <1>2, <1>3, <2>1, <3>1
    <3>2. CASE method \in client.pending
      <4>1. client' = [(IF method = client.pc THEN Woken([client EXCEPT !.pending = @ \ {method}], answer)
                        ELSE [client EXCEPT !.pending = @ \ {method}]) EXCEPT !.chunk = TRUE]
        BY <2>1, <3>2, Zenon DEF Read
      <4>2. answer \in Error \cup {"ok", "malformed"}
        BY DEF Error
      <4> QED BY <1>1, <2>2, <4>1, <4>2, TurnAnswerKeeps
    <3> QED BY <3>1, <3>2
  <2> QED BY <2>2, <2>3, ServerMoves DEF IsDead
<1>5. CASE TurnEnds
  <2>1. PICK outcome \in RunOutcome, items \in Transcript :
            /\ server' = [server EXCEPT !.ended = outcome, !.items = items]
            /\ Read(Notified(client, outcome))
    BY <1>5 DEF TurnEnds
  <2>2. server' \in Server /\ server'.ended = outcome /\ server'.proc = server.proc
    BY <2>1 DEF Server
  <2>3. server.ended = "none" /\ client.pc \in {"turn/start", "turn/completed"} /\ outcome # "other"
    BY <1>5 DEF TurnEnds, RunOutcome
  <2> QED BY <1>1, <2>1, <2>2, <2>3, NotifiedKeeps DEF IsDead
<1>6. CASE Stray
  <2>1. server' \in Server /\ server'.ended = server.ended /\ server'.proc = server.proc
    BY <1>6, StraysAssumption DEF Stray, Server
  <2>2. CASE Read(ClientFailed(client, "protocol"))
    BY <1>2, <1>3, <2>1, <2>2, ServerMoves DEF IsDead
  <2>3. CASE Read(Notified(client, "other"))
    BY <1>1, <2>1, <2>3, NotifiedKeeps DEF IsDead
  <2> QED BY <1>6, <2>2, <2>3 DEF Stray
<1>7. CASE Declines
    BY <1>2, <1>3, <1>7 DEF Declines
<1> QED BY <1>4, <1>5, <1>6, <1>7

LEMMA TurnTimerKeeps ==
    ASSUME TurnIInv, RequestExpires \/ TurnExpires \/ AbortExpires \/ Abort
    PROVE  TurnIInv'
<1> USE DEF TurnIInv, TurnTypeOK
<1>1. client.wake = "none" /\ "timeout" \in Error /\ "aborted" \in Error
    BY DEF RequestExpires, TurnExpires, AbortExpires, Abort, IsIdle, Error
<1>2. ASSUME NEW c \in Client, TurnInv(c, server), c.wake = "none", Timed(Woken(c, "aborted"))
      PROVE  client' \in Client /\ TurnInv(client', server)
  <2> DEFINE d == [c EXCEPT !.chunk = FALSE]
  <2>1. /\ d \in Client /\ d.pc = c.pc /\ d.waiter = c.waiter /\ d.known = c.known
        /\ d.result = c.result /\ d.failure = c.failure /\ d.pending = c.pending
        /\ d.wake = c.wake /\ d.chunk = FALSE
    BY ChunkFields
  <2>2. client' = [[c EXCEPT !.wake = "aborted"] EXCEPT !.chunk = FALSE]
    BY <1>1, <1>2, WokenFields DEF Timed
  <2>3. client' = [d EXCEPT !.wake = "aborted"]
    BY <2>2 DEF Client
  <2> HIDE DEF d
  <2>4. client' = Woken(d, "aborted")
    BY <1>1, <1>2, <2>1, <2>3, WokenFields
  <2>5. TurnInv(d, server)
    BY <1>2, <2>1 DEF TurnInv, Asking, Waiting, Awaiting, Rejecting, Knowing, Ending
  <2> QED BY <1>1, <1>2, <2>1, <2>4, <2>5, WakeKeeps
<1>3. CASE RequestExpires
  <2>1. PICK method \in client.pending :
            LET c == [client EXCEPT !.pending = @ \ {method}] IN
            Timed(IF method = client.pc THEN Woken(c, "timeout") ELSE c)
    BY <1>3 DEF RequestExpires
  <2>2. client' = [(IF method = client.pc THEN Woken([client EXCEPT !.pending = @ \ {method}], "timeout")
                    ELSE [client EXCEPT !.pending = @ \ {method}]) EXCEPT !.chunk = FALSE]
    BY <2>1, Zenon DEF Timed
  <2>3. method \in Method /\ server' = server
    BY <1>3 DEF RequestExpires, Client
  <2> QED BY <1>1, <2>2, <2>3, TurnAnswerKeeps
<1>4. CASE TurnExpires
  <2> DEFINE c == [client EXCEPT !.waiter = "expired"]
             e == IF c.pc = "turn/completed" THEN Woken(c, "timeout") ELSE c
  <2>1. /\ c \in Client /\ c.pc = client.pc /\ c.waiter = "expired" /\ c.known = client.known
        /\ c.result = client.result /\ c.failure = client.failure /\ c.pending = client.pending
        /\ c.wake = "none"
    BY <1>1 DEF Client
  <2>2. client' = [e EXCEPT !.chunk = FALSE] /\ server' = server /\ client.waiter = "waiting"
    BY <1>4 DEF TurnExpires, Timed
  <2> HIDE DEF c
  <2>3. /\ e \in Client /\ e.pc = c.pc /\ e.waiter = c.waiter /\ e.known = c.known
        /\ e.result = c.result /\ e.failure = c.failure /\ e.pending = c.pending
        /\ e.wake = (IF c.pc = "turn/completed" THEN "timeout" ELSE "none")
    BY <1>1, <2>1, WokenFields DEF Client
  <2> HIDE DEF e
  <2>4. /\ client' \in Client /\ client'.pc = e.pc /\ client'.waiter = e.waiter /\ client'.known = e.known
        /\ client'.result = e.result /\ client'.failure = e.failure /\ client'.pending = e.pending
        /\ client'.wake = e.wake
    BY <2>2, <2>3 DEF Client
  <2> DEFINE f == client'
  <2>5. /\ f.pc = client.pc /\ f.waiter = "expired" /\ f.known = client.known
        /\ f.result = client.result /\ f.failure = client.failure /\ f.pending = client.pending
        /\ f.wake = (IF client.pc = "turn/completed" THEN "timeout" ELSE "none")
    BY <2>1, <2>3, <2>4
  <2> HIDE DEF f
  <2>6. Asking(f) /\ Knowing(f) /\ Rejecting(f) /\ Awaiting(f)
    BY <1>1, <2>5 DEF TurnInv, Asking, Knowing, Rejecting, Awaiting, Handshake
  <2>7. Waiting(f, server) /\ Ending(f, server)
    BY <2>2, <2>5 DEF TurnInv, Waiting, Ending, RunOutcome
  <2> QED BY <2>2, <2>4, <2>6, <2>7 DEF TurnInv, f
<1>5. ASSUME NEW c, c = [client EXCEPT !.abort = "rejected"]
      PROVE  c \in Client /\ TurnInv(c, server) /\ c.wake = "none"
  <2>1. /\ c \in Client /\ c.pc = client.pc /\ c.waiter = client.waiter /\ c.known = client.known
        /\ c.result = client.result /\ c.failure = client.failure /\ c.pending = client.pending
        /\ c.wake = client.wake /\ c.chunk = client.chunk
    BY <1>5 DEF Client
  <2> QED BY <1>1, <2>1 DEF TurnInv, Asking, Waiting, Awaiting, Rejecting, Knowing, Ending
<1>6. CASE AbortExpires
    BY <1>2, <1>5, <1>6 DEF AbortExpires
<1>7. CASE Abort
  <2>1. CASE client.known # "turn" /\ Timed(Woken([client EXCEPT !.abort = "rejected"], "aborted"))
             /\ UNCHANGED server
    BY <1>2, <1>5, <2>1
  <2>2. CASE client.known = "turn"
             /\ Ask([client EXCEPT !.abort = "asked", !.chunk = FALSE], "turn/interrupt")
    <3> DEFINE c == [client EXCEPT !.abort = "asked", !.chunk = FALSE]
    <3>1. /\ c \in Client /\ c.pc = client.pc /\ c.waiter = client.waiter /\ c.known = client.known
          /\ c.result = client.result /\ c.failure = client.failure /\ c.pending = client.pending
          /\ c.wake = "none" /\ c.chunk = FALSE
      BY <1>1 DEF Client
    <3> HIDE DEF c
    <3>2. c.pc = "turn/completed" /\ "turn/interrupt" \in Method
      BY <1>7, <2>2, <3>1 DEF Abort, InTurn, TurnInv, Knowing, Open, Method
    <3>3. PICK written \in BOOLEAN : client' = Asked(c, "turn/interrupt", written)
      BY <2>2 DEF Ask, CanWrite, c
    <3>4. /\ client' \in Client /\ client'.pc = c.pc /\ client'.waiter = c.waiter
          /\ client'.known = c.known /\ client'.wake = c.wake
      <4>1. CASE client' = c
        BY <3>1, <4>1
      <4>2. CASE client' = [c EXCEPT !.pending = @ \cup {"turn/interrupt"}]
        BY <3>1, <3>2, <4>2 DEF Client
      <4> QED BY <3>2, <3>3, <4>1, <4>2 DEF Asked
    <3>5. TurnInv(client', server)
      <4>1. client.pc = "turn/completed" /\ client.waiter = "waiting"
        BY <1>1, <3>1, <3>2 DEF TurnInv, Awaiting
      <4>2. /\ client'.pc = "turn/completed" /\ client'.waiter = "waiting" /\ client'.wake = "none"
        BY <3>1, <3>4, <4>1
      <4>3. Waiting(client', server)
        BY <4>1, <4>2 DEF TurnInv, Waiting
      <4> QED BY <4>2, <4>3 DEF TurnInv, Asking, Awaiting, Rejecting, Knowing, Ending, Handshake, Open
    <3>6. server' \in Server /\ server'.ended = server.ended /\ IsDead(server)' = IsDead(server)
      BY <2>2, <3>2, AskingServer
    <3> QED BY <3>4, <3>5, <3>6, ServerMoves DEF IsDead
  <2> QED BY <1>7, <2>1, <2>2 DEF Abort
<1> QED BY <1>3, <1>4, <1>6, <1>7

LEMMA ProcessKeeps ==
    ASSUME TurnIInv, StreamFails \/ Dies \/ Closes \/ GraceExpires
    PROVE  TurnIInv'
<1> USE DEF TurnIInv, TurnTypeOK
<1>1. "exited" \in Error
    BY DEF Error
<1>2. CASE StreamFails
    BY <1>1, <1>2, FailingKeeps DEF StreamFails, Timed
<1>3. CASE Dies
  <2>1. PICK proc \in {"exited", "signalled"} : server' = [server EXCEPT !.proc = proc]
    BY <1>3 DEF Dies
  <2>2. server' \in Server /\ server'.ended = server.ended /\ IsDead(server')
    BY <2>1 DEF Server, IsDead
  <2> QED BY <1>3, <2>2, ServerMoves DEF Dies
<1>4. ASSUME client.pc \in {"closing", "killing"}, NEW at \in {"killing", "done"},
             NEW result \in {client.result, "cleanup"},
             client' = [client EXCEPT !.pc = at, !.result = result],
             at = "done" => result = "cleanup" \/ IsDead(server)
      PROVE  client' \in Client /\ TurnInv(client', server)
  <2>1. result \in RunOutcome \cup Error \cup {"none"}
    BY DEF Client, Error
  <2>2. client' \in Client
    BY <1>4, <2>1 DEF Client
  <2>3. /\ client'.pc = at /\ client'.result = result /\ client'.waiter = client.waiter
        /\ client'.known = client.known
    BY <1>4 DEF Client
  <2>4. Ending(client', server)
    BY <1>4, <2>3 DEF TurnInv, Ending, RunOutcome
  <2>5. Waiting(client', server)
    BY <1>4, <2>3 DEF TurnInv, Waiting
  <2> QED BY <1>4, <2>2, <2>3, <2>4, <2>5 DEF TurnInv, Asking, Awaiting, Rejecting, Knowing, Open, Handshake
<1>5. CASE Closes
  <2>1. server' \in Server /\ server'.ended = server.ended /\ server'.proc = server.proc /\ IsDead(server)
    BY <1>5 DEF Closes, Server
  <2>2. client' \in Client /\ TurnInv(client', server)
    <3>1. CASE client.pc \in {"closing", "killing"}
      <4>1. client' = [client EXCEPT !.pc = "done", !.result = client.result]
        BY <1>5, <3>1 DEF Closes, Client
      <4> QED BY <1>4, <2>1, <3>1, <4>1
    <3>2. CASE client' = client
      BY <3>2
    <3>3. CASE client' = [ClientFailed(client, "exited") EXCEPT !.chunk = FALSE]
      BY <1>1, <3>3, FailingKeeps
    <3> QED BY <1>5, <3>1, <3>2, <3>3 DEF Closes
  <2> QED BY <2>1, <2>2, ServerMoves DEF IsDead
<1>6. CASE GraceExpires
  <2>1. CASE client.pc = "closing"
    <3>1. client' = [client EXCEPT !.pc = IF HasExitCode(server) THEN "done" ELSE "killing",
                                   !.result = client.result]
      BY <1>6, <2>1 DEF GraceExpires, Client
    <3>2. HasExitCode(server) => IsDead(server)
      BY DEF HasExitCode, IsDead
    <3> QED BY <1>4, <1>6, <2>1, <3>1, <3>2 DEF GraceExpires
  <2>2. CASE client.pc = "killing"
    <3>1. client' = [client EXCEPT !.pc = "done",
                                   !.result = IF HasExitCode(server) THEN client.result ELSE "cleanup"]
      BY <1>6, <2>2 DEF GraceExpires
    <3>2. HasExitCode(server) => IsDead(server)
      BY DEF HasExitCode, IsDead
    <3> QED BY <1>4, <1>6, <2>2, <3>1, <3>2 DEF GraceExpires
  <2> QED BY <1>6, <2>1, <2>2 DEF GraceExpires
<1> QED BY <1>2, <1>3, <1>5, <1>6

-----------------------------------------------------------------------------
(* A turn: the theorems.                                                   *)

LEMMA TurnInductive ==
    TurnSpec => []TurnIInv
<1>1. TurnInit => TurnIInv
  <2> SUFFICES ASSUME TurnInit PROVE TurnIInv
    OBVIOUS
  <2>1. PICK aborted \in BOOLEAN :
            client = [pc |-> "start", wake |-> IF aborted THEN "aborted" ELSE "none",
                      chunk |-> FALSE, pending |-> {}, waiter |-> "none", known |-> "none",
                      failure |-> "none", abort |-> IF aborted THEN "rejected" ELSE "no",
                      stopping |-> FALSE, result |-> "none"]
    BY DEF TurnInit
  <2>2. client \in Client
    BY <2>1 DEF Client, Error
  <2>3. server \in Server /\ server.ended = "none"
    BY StraysAssumption DEF TurnInit, Server
  <2>4. TurnInv(client, server)
    BY <2>1, <2>3 DEF TurnInv, Asking, Waiting, Awaiting, Rejecting, Knowing, Ending, Handshake,
                      Open, RunOutcome
  <2> QED BY <2>2, <2>3, <2>4 DEF TurnIInv, TurnTypeOK
<1>2. TurnIInv /\ [TurnNext]_turnVars => TurnIInv'
  <2> SUFFICES ASSUME TurnIInv, [TurnNext]_turnVars PROVE TurnIInv'
    OBVIOUS
  <2>1. CASE TurnNext
    BY <2>1, ContinueKeeps, SpawningKeeps, LineKeeps, TurnTimerKeeps, ProcessKeeps DEF TurnNext, Expires
  <2>2. CASE UNCHANGED turnVars
    BY <2>2 DEF turnVars, TurnIInv, TurnTypeOK
  <2> QED BY <2>1, <2>2
<1> QED BY <1>1, <1>2, PTL DEF TurnSpec

\* The client and what it knows of its server keep their types.
THEOREM TurnIsTyped ==
    TurnSpec => []TurnTypeOK
BY TurnInductive, PTL DEF TurnIInv

\* NoProcessIsLeft, whatever the agent says, for any number of stray lines, and
\* whenever the process ends.
THEOREM TurnLeavesNoProcess ==
    TurnSpec => []NoProcessIsLeft
<1>1. TurnIInv => NoProcessIsLeft
  <2> SUFFICES ASSUME TurnIInv, IsDone, Settles # "cleanupFailed" PROVE IsDead(server)
    BY DEF NoProcessIsLeft
  <2>1. client.result # "cleanup"
    BY DEF Settles
  <2> QED BY <2>1 DEF TurnIInv, TurnInv, Ending, IsDone
<1> QED BY <1>1, TurnInductive, PTL

\* TurnDecides, in whichever order the end of the turn, the answer that names
\* it, failures, deadlines and an abort arrive.
THEOREM TurnEndDecides ==
    TurnSpec => []TurnDecides
<1>1. TurnIInv => TurnDecides
    BY DEF TurnIInv, TurnInv, Ending, IsDone, TurnDecides
<1> QED BY <1>1, TurnInductive, PTL
-----------------------------------------------------------------------------
(* A call to Linear: the invariant.                                        *)

\* A reply tells the truth about the moment Linear took the request: what it shows is
\* what Linear held then, only errors hide it from a reader, and a mutation that is
\* said to have worked has.
Truthful(req, body, was) ==
    /\ body.issue # Nothing =>
        /\ was.after # Nothing
        /\ body.issue = [id |-> req.id, place |-> was.after.place, rev |-> was.after.rev]
    /\ (req.kind \in {"query", "read"} /\ ~body.errors /\ body.issue = Nothing) => was.after = Nothing
    /\ req.kind = "create" /\ body.success => was.before = Nothing
    /\ req.kind = "update" /\ body.success =>
        was.before # Nothing /\ was.after # Nothing /\ was.after.rev > was.before.rev

\* What AnswersAreTrue says of one call.
Claim(req, answer, was, late, sent) ==
    /\ answer.kind \in {"not_dispatched", "invalid_input"} => sent = "none"
    /\ answer.kind \in {"created", "found", "dispatched", "absent", "missing"} =>
        /\ was # Nothing /\ ~late
        /\ (was.after = Nothing) <=> (answer.kind \in {"absent", "missing"})
    /\ answer.kind = "created" => was.before = Nothing
    /\ answer.kind = "dispatched" => was.after.rev > was.before.rev
    /\ answer.kind = "created" \/ (answer.kind = "found" /\ req.kind = "query") =>
        was.after.place = req.place
    /\ answer.kind = "found" /\ req.kind = "read" =>
        answer.issue = [id |-> req.id, place |-> was.after.place, rev |-> was.after.rev]

CallInv(c) ==
    /\ exchange[c].at = "idle" => wire[c] = "none"
    /\ exchange[c].at # "idle" => exchange[c].request \in LinearRequest
    /\ exchange[c].at \in {"dispatched", "body"} => wire[c] # "none"
    /\ IF wire[c] = "taken"
       THEN /\ reply[c] # Nothing /\ held[c] # Nothing
            /\ Truthful(exchange[c].request, reply[c], held[c])
       ELSE reply[c] = Nothing /\ held[c] = Nothing
    /\ exchange[c].at = "answered" =>
        Claim(exchange[c].request, exchange[c].answer, held[c], exchange[c].late, wire[c])
    \* what Linear has not taken yet, nothing is claimed of
    /\ exchange[c].at = "answered" /\ wire[c] = "sent" =>
        exchange[c].answer.kind \in {"failed", "outcome_unknown"}

CallIInv == TransportTypeOK /\ \A c \in Call : CallInv(c)

-----------------------------------------------------------------------------
(* A call: what is made of a response.                                     *)

LEMMA RequestKinds ==
    ASSUME NEW req \in LinearRequest
    PROVE  /\ req.kind \in {"create", "query", "update", "read"}
           /\ req.id \in IssueId /\ req.place \in Place
BY TransportAssumption

LEMMA OnlyFields ==
    ASSUME NEW kind \in AnswerKind
    PROVE  /\ Only(kind).kind = kind /\ Only(kind).issue = Nothing
           /\ Only(kind) \in Given
BY DEF Only, Result, Given

\* Nothing is claimed for a response that was lost.
LEMMA LostAnswer ==
    ASSUME NEW req \in LinearRequest
    PROVE  /\ Answer(Lost, req).kind \in {"failed", "outcome_unknown"}
           /\ Answer(Lost, req) \in Given
<1>1. ~IsData(Lost) /\ ~Worked(Lost) /\ Lost # NotDispatched
  <2>1. Lost.kind = "response_lost" /\ NotDispatched.kind = "not_dispatched"
    BY DEF Lost, NotDispatched
  <2> QED BY <2>1 DEF IsData, Worked
<1>2. Answer(Lost, req) \in {Only("failed"), Only("outcome_unknown")}
  BY <1>1, RequestKinds DEF Answer, CreateAnswer, QueryAnswer, UpdateAnswer, ReadAnswer
<1> QED BY <1>2, OnlyFields DEF AnswerKind

LEMMA NotDispatchedAnswer ==
    ASSUME NEW req \in LinearRequest
    PROVE  /\ Answer(NotDispatched, req).kind \in {"failed", "not_dispatched"}
           /\ Answer(NotDispatched, req) \in Given
<1>1. ~IsData(NotDispatched)
  BY DEF NotDispatched, IsData
<1>2. Answer(NotDispatched, req) \in {Only("failed"), Only("not_dispatched")}
  BY <1>1, RequestKinds DEF Answer, CreateAnswer, QueryAnswer, UpdateAnswer, ReadAnswer
<1> QED BY <1>2, OnlyFields DEF AnswerKind

\* A response without a body of Linear's claims nothing.
LEMMA EmptyAnswer ==
    ASSUME NEW req \in LinearRequest, NEW status
    PROVE  LET answer == Answer([kind |-> "response", status |-> status, body |-> Nothing], req) IN
           /\ answer.kind \in {"failed", "outcome_unknown"}
           /\ answer \in Given
<1> DEFINE r == [kind |-> "response", status |-> status, body |-> Nothing]
<1>1. ~IsData(r) /\ r # NotDispatched
  <2>1. r.kind = "response" /\ r.body = Nothing /\ NotDispatched.kind = "not_dispatched"
    BY DEF NotDispatched
  <2> QED BY <2>1 DEF IsData
<1> HIDE DEF r
<1>2. Answer(r, req) \in {Only("failed"), Only("outcome_unknown")}
  BY <1>1, RequestKinds DEF Answer, CreateAnswer, QueryAnswer, UpdateAnswer, ReadAnswer, Worked
<1>3. /\ Answer(r, req).kind \in {"failed", "outcome_unknown"}
      /\ Answer(r, req) \in Given
  BY <1>2, OnlyFields DEF AnswerKind
<1> QED BY <1>3 DEF r

\* What is taken from a whole response is true of Linear.
LEMMA ResponseAnswer ==
    ASSUME NEW req \in LinearRequest, NEW status, NEW body \in Reply, NEW was \in Taken,
           was # Nothing, Truthful(req, body, was)
    PROVE  LET answer == Answer([kind |-> "response", status |-> status, body |-> body], req) IN
           /\ answer \in Given
           /\ Claim(req, answer, was, FALSE, "taken")
<1> DEFINE r == [kind |-> "response", status |-> status, body |-> body]
           answer == Answer(r, req)
<1> SUFFICES /\ answer \in Given
             /\ Claim(req, answer, was, FALSE, "taken")
  OBVIOUS
<1>1. r # NotDispatched /\ r.body = body
  <2>1. r.kind = "response" /\ NotDispatched.kind = "not_dispatched"
    BY DEF NotDispatched
  <2> QED BY <2>1
<1>2. /\ body.issue \in Shown \cup {Nothing}
      /\ was.after \in Issue \cup {Nothing} /\ was.before \in Issue \cup {Nothing}
  BY DEF Reply, Taken
<1>3. IsData(r) => ~body.errors
  BY <1>1 DEF IsData
<1> HIDE DEF r
<1>4. CASE req.kind = "create"
  <2>1. answer = CreateAnswer(r, req)
    BY <1>4 DEF Answer
  <2>2. CASE Worked(r) /\ Matches(body.issue, req)
    <3>1. answer = Only("created")
      BY <1>1, <2>1, <2>2 DEF CreateAnswer
    <3>2. body.success /\ body.issue # Nothing /\ body.issue.place = req.place
      BY <1>1, <2>2 DEF Worked, Matches
    <3>3. /\ was.after # Nothing /\ was.before = Nothing
          /\ body.issue = [id |-> req.id, place |-> was.after.place, rev |-> was.after.rev]
      BY <1>4, <3>2 DEF Truthful
    <3>4. was.after.place = req.place
      BY <3>2, <3>3
    <3> HIDE DEF answer
    <3> QED BY <1>4, <3>1, <3>3, <3>4, OnlyFields DEF Claim, AnswerKind
  <2>3. CASE ~(Worked(r) /\ Matches(body.issue, req))
    <3>1. answer = Only("outcome_unknown")
      BY <1>1, <2>1, <2>3 DEF CreateAnswer
    <3> HIDE DEF answer
    <3> QED BY <3>1, OnlyFields DEF Claim, AnswerKind
  <2> QED BY <2>2, <2>3
<1>5. CASE req.kind = "query"
  <2>1. answer = QueryAnswer(r, req)
    BY <1>5 DEF Answer
  <2>2. CASE ~IsData(r)
    <3>1. answer = Only("failed")
      BY <2>1, <2>2 DEF QueryAnswer
    <3> HIDE DEF answer
    <3> QED BY <3>1, OnlyFields DEF Claim, AnswerKind
  <2>3. CASE IsData(r) /\ body.issue = Nothing
    <3>1. answer = Only("absent")
      BY <1>1, <2>1, <2>3 DEF QueryAnswer
    <3>2. was.after = Nothing
      BY <1>3, <1>5, <2>3 DEF Truthful
    <3> HIDE DEF answer
    <3> QED BY <3>1, <3>2, OnlyFields DEF Claim, AnswerKind
  <2>4. CASE IsData(r) /\ body.issue # Nothing
    <3>1. answer = Only(IF Matches(body.issue, req) THEN "found" ELSE "ambiguous")
      BY <1>1, <2>1, <2>4 DEF QueryAnswer
    <3>2. /\ was.after # Nothing
          /\ body.issue = [id |-> req.id, place |-> was.after.place, rev |-> was.after.rev]
      BY <2>4 DEF Truthful
    <3>3. Matches(body.issue, req) => was.after.place = req.place
      BY <3>2 DEF Matches
    <3> HIDE DEF answer
    <3> QED BY <1>5, <3>1, <3>2, <3>3, OnlyFields DEF Claim, AnswerKind
  <2> QED BY <2>2, <2>3, <2>4
<1>6. CASE req.kind = "update"
  <2>1. answer = UpdateAnswer(r, req)
    BY <1>6 DEF Answer
  <2>2. CASE Worked(r) /\ body.issue.id = req.id
    <3>1. answer = Only("dispatched")
      BY <1>1, <2>1, <2>2 DEF UpdateAnswer
    <3>2. was.after # Nothing /\ was.after.rev > was.before.rev
      BY <1>1, <1>6, <2>2 DEF Truthful, Worked
    <3> HIDE DEF answer
    <3> QED BY <1>6, <3>1, <3>2, OnlyFields DEF Claim, AnswerKind
  <2>3. CASE ~(Worked(r) /\ body.issue.id = req.id)
    <3>1. answer = Only("outcome_unknown")
      BY <1>1, <2>1, <2>3 DEF UpdateAnswer
    <3> HIDE DEF answer
    <3> QED BY <3>1, OnlyFields DEF Claim, AnswerKind
  <2> QED BY <2>2, <2>3
<1>7. CASE req.kind = "read"
  <2>1. answer = ReadAnswer(r, req)
    BY <1>7 DEF Answer
  <2>2. CASE ~IsData(r) \/ (body.issue # Nothing /\ body.issue.id # req.id)
    <3>1. answer = Only("failed")
      BY <1>1, <2>1, <2>2 DEF ReadAnswer
    <3> HIDE DEF answer
    <3> QED BY <3>1, OnlyFields DEF Claim, AnswerKind
  <2>3. CASE IsData(r) /\ body.issue = Nothing
    <3>1. answer = Only("missing")
      BY <1>1, <2>1, <2>3 DEF ReadAnswer
    <3>2. was.after = Nothing
      BY <1>3, <1>7, <2>3 DEF Truthful
    <3> HIDE DEF answer
    <3> QED BY <3>1, <3>2, OnlyFields DEF Claim, AnswerKind
  <2>4. CASE IsData(r) /\ body.issue # Nothing /\ body.issue.id = req.id
    <3>1. answer = Result("found", body.issue)
      BY <1>1, <2>1, <2>4 DEF ReadAnswer
    <3>2. answer.kind = "found" /\ answer.issue = body.issue
      BY <3>1 DEF Result
    <3>3. answer \in Given
      BY <1>2, <3>1 DEF Result, AnswerKind, Given
    <3>4. /\ was.after # Nothing
          /\ body.issue = [id |-> req.id, place |-> was.after.place, rev |-> was.after.rev]
      BY <2>4 DEF Truthful
    <3> HIDE DEF answer
    <3> QED BY <1>7, <3>2, <3>3, <3>4 DEF Claim
  <2> QED BY <2>2, <2>3, <2>4
<1> QED BY <1>4, <1>5, <1>6, <1>7, RequestKinds
LEMMA AnsweredExchange ==
    ASSUME NEW x \in Exchange, NEW a \in Given
    PROVE  [x EXCEPT !.at = "answered", !.bytes = 0, !.status = 0, !.answer = a] \in Exchange
<1> DEFINE y == [x EXCEPT !.at = "answered", !.bytes = 0]
           z == [y EXCEPT !.status = 0, !.answer = a]
<1>1. z = [x EXCEPT !.at = "answered", !.bytes = 0, !.status = 0, !.answer = a]
  BY Zenon
<1>2. y \in Exchange
  BY DEF Exchange
<1> HIDE DEF y
<1>3. z \in Exchange
  BY <1>2 DEF Exchange
<1> HIDE DEF z
<1> QED BY <1>1, <1>3

LEMMA RefusedExchange ==
    ASSUME NEW x \in Exchange, NEW req \in LinearRequest,
           NEW a \in Given
    PROVE  [x EXCEPT !.at = "answered", !.request = req, !.answer = a] \in Exchange
BY DEF Exchange

-----------------------------------------------------------------------------
(* A call: the steps.                                                      *)

\* A step of one call, which Linear has no part in.
LEMMA LocalStep ==
    ASSUME CallIInv, NEW c \in Call, NEW e \in Exchange, exchange' = [exchange EXCEPT ![c] = e],
           NEW sent \in {"none", "sent", "taken"}, wire' = [wire EXCEPT ![c] = sent],
           UNCHANGED <<reply, held, linear>>, CallInv(c)'
    PROVE  CallIInv'
<1>1. TransportTypeOK'
  BY DEF CallIInv, TransportTypeOK
<1>2. ASSUME NEW d \in Call PROVE CallInv(d)'
  <2>1. CASE d = c
    BY <2>1
  <2>2. CASE d # c
    <3>1. exchange'[d] = exchange[d] /\ wire'[d] = wire[d] /\ reply'[d] = reply[d] /\ held'[d] = held[d]
      BY <2>2 DEF CallIInv, TransportTypeOK
    <3> QED BY <3>1 DEF CallIInv, CallInv
  <2> QED BY <2>1, <2>2
<1> QED BY <1>1, <1>2 DEF CallIInv

LEMMA KeptWire ==
    ASSUME CallIInv, NEW c \in Call, Keeps
    PROVE  /\ wire[c] \in {"none", "sent", "taken"} /\ wire' = [wire EXCEPT ![c] = wire[c]]
           /\ UNCHANGED <<reply, held, linear>>
BY DEF CallIInv, TransportTypeOK, Keeps

\* The answer of a call, which may claim nothing or what is so.
LEMMA CallAnswerKeeps ==
    ASSUME CallIInv, NEW c \in Call, NEW r, Runs(c), Answers(c, r), Keeps,
           Answer(r, exchange[c].request) \in Given,
           \/ Answer(r, exchange[c].request).kind \in {"failed", "outcome_unknown"}
           \/ /\ wire[c] = "taken"
              /\ Claim(exchange[c].request, Answer(r, exchange[c].request), held[c], exchange[c].late, "taken")
    PROVE  CallIInv'
<1> DEFINE a == Answer(r, exchange[c].request)
           e == [exchange[c] EXCEPT !.at = "answered", !.bytes = 0, !.status = 0, !.answer = a]
<1>1. exchange' = [exchange EXCEPT ![c] = e] /\ exchange[c] \in Exchange
  BY DEF Answers, CallIInv, TransportTypeOK
<1> HIDE DEF a
<1>0. a \in Given
  BY DEF a
<1>2. e \in Exchange
  BY <1>0, <1>1, AnsweredExchange
<1>6. /\ e.at = "answered" /\ e.request = exchange[c].request /\ e.late = exchange[c].late
      /\ e.answer = a
  BY <1>1 DEF Exchange
<1>3. exchange'[c] = e
  BY <1>1 DEF CallIInv, TransportTypeOK
<1> HIDE DEF e
<1>4. a.kind \in {"failed", "outcome_unknown"} => Claim(exchange[c].request, a, held[c], exchange[c].late, wire[c])
  BY DEF Claim
<1>5. CallInv(c)'
  <2>1. /\ wire'[c] = wire[c] /\ reply'[c] = reply[c] /\ held'[c] = held[c]
        /\ exchange[c].at # "idle" /\ CallInv(c)
    BY DEF Keeps, Runs, CallIInv
  <2>2. Claim(exchange[c].request, a, held[c], exchange[c].late, wire[c])
    BY <1>4 DEF a
  <2>3. wire[c] = "sent" => a.kind \in {"failed", "outcome_unknown"}
    BY DEF a
  <2> QED BY <1>3, <1>6, <2>1, <2>2, <2>3 DEF CallInv
<1> QED BY <1>1, <1>2, <1>5, KeptWire, LocalStep

LEMMA LostKeeps ==
    ASSUME CallIInv, NEW c \in Call, Runs(c), Answers(c, Lost), Keeps
    PROVE  CallIInv'
<1>1. exchange[c].request \in LinearRequest
  BY DEF CallIInv, CallInv, Runs
<1> QED BY <1>1, CallAnswerKeeps, LostAnswer

LEMMA EndsKeeps ==
    ASSUME CallIInv, NEW c \in Call, NEW body \in {reply[c], Nothing}, Ends(c, body)
    PROVE  CallIInv'
<1> DEFINE r == [kind |-> "response", status |-> exchange[c].status, body |-> body]
<1>1. exchange[c].request \in LinearRequest /\ Runs(c) /\ Keeps /\ CallInv(c)
  BY DEF CallIInv, CallInv, Runs, Ends
<1>2. CASE exchange[c].late
  BY <1>1, <1>2, LostKeeps DEF Ends
<1>3. CASE ~exchange[c].late
  <2>1. Answers(c, r)
    BY <1>3 DEF Ends
  <2>2. CASE body = Nothing
    BY <1>1, <2>1, <2>2, EmptyAnswer, CallAnswerKeeps
  <2>3. CASE body # Nothing
    <3>1. /\ wire[c] = "taken" /\ body = reply[c] /\ body \in Reply /\ held[c] \in Taken
          /\ held[c] # Nothing /\ Truthful(exchange[c].request, body, held[c])
      BY <1>1, <2>3 DEF CallIInv, TransportTypeOK, CallInv
    <3>2. /\ Answer(r, exchange[c].request) \in Given
          /\ Claim(exchange[c].request, Answer(r, exchange[c].request), held[c], FALSE, "taken")
      BY <1>1, <3>1, ResponseAnswer
    <3>3. Claim(exchange[c].request, Answer(r, exchange[c].request), held[c], exchange[c].late, "taken")
      BY <1>3, <3>2 DEF Claim
    <3> HIDE DEF r
    <3> QED BY <1>1, <2>1, <3>1, <3>2, <3>3, CallAnswerKeeps
  <2> QED BY <2>2, <2>3
<1> QED BY <1>2, <1>3

LEMMA BeginKeeps ==
    ASSUME CallIInv, NEW c \in Call, NEW req \in LinearRequest, NEW size \in 1..2, BeginCall(c, req, size)
    PROVE  CallIInv'
<1> DEFINE Refused(a) == [exchange[c] EXCEPT !.at = "answered", !.request = req, !.answer = a]
           sending == [exchange[c] EXCEPT !.at = "dispatched", !.request = req]
<1>1. /\ exchange[c] \in Exchange /\ exchange[c].at = "idle" /\ CallInv(c)
      /\ wire[c] = "none" /\ UNCHANGED <<reply, held, linear>>
  BY DEF CallIInv, TransportTypeOK, CallInv, BeginCall
<1>2. ASSUME NEW a \in Given,
             a.kind \in {"invalid_input", "not_dispatched", "failed"},
             exchange' = [exchange EXCEPT ![c] = Refused(a)], UNCHANGED wire
      PROVE  CallIInv'
  <2> DEFINE e == Refused(a)
  <2>0. e \in Exchange
    BY <1>1, <1>2, RefusedExchange
  <2>1. e.at = "answered" /\ e.request = req /\ e.answer = a
    BY <1>1 DEF Exchange
  <2>2. exchange'[c] = e
    BY <1>2 DEF CallIInv, TransportTypeOK
  <2> HIDE DEF e
  <2>3. Claim(req, a, held[c], e.late, "none")
    BY <1>2 DEF Claim
  <2>4. CallInv(c)'
    BY <1>1, <1>2, <2>1, <2>2, <2>3 DEF CallInv
  <2>5. wire' = [wire EXCEPT ![c] = "none"]
    BY <1>1, <1>2 DEF CallIInv, TransportTypeOK
  <2>6. exchange' = [exchange EXCEPT ![c] = e]
    BY <1>2 DEF e
  <2> QED BY <1>1, <2>0, <2>4, <2>5, <2>6, LocalStep
<1>3. CASE size > LINEAR_WRITE_REQUEST_BYTE_LIMIT
  <2>1. exchange' = [exchange EXCEPT ![c] = Refused(Only("invalid_input"))] /\ UNCHANGED wire
    BY <1>3 DEF BeginCall, Refuses, LINEAR_WRITE_REQUEST_BYTE_LIMIT
  <2> HIDE DEF Refused
  <2> QED BY <1>2, <2>1, OnlyFields DEF AnswerKind
<1>4. CASE ~(size > LINEAR_WRITE_REQUEST_BYTE_LIMIT)
  <2>1. exchange' = [exchange EXCEPT ![c] = sending] /\ wire' = [wire EXCEPT ![c] = "sent"]
    BY <1>4 DEF BeginCall, LINEAR_WRITE_REQUEST_BYTE_LIMIT, LINEAR_GRAPHQL_REQUEST_BYTE_LIMIT
  <2>2. sending \in Exchange /\ sending.at = "dispatched" /\ sending.request = req
    BY <1>1 DEF Exchange
  <2>3. exchange'[c] = sending /\ wire'[c] = "sent"
    BY <2>1 DEF CallIInv, TransportTypeOK
  <2> HIDE DEF sending
  <2>4. CallInv(c)'
    BY <1>1, <2>2, <2>3 DEF CallInv
  <2> QED BY <1>1, <2>1, <2>2, <2>4, LocalStep
<1> QED BY <1>3, <1>4

\* The call goes on.
LEMMA RunningKeeps ==
    ASSUME CallIInv, NEW c \in Call, NEW e \in Exchange, Runs(c), Keeps,
           exchange' = [exchange EXCEPT ![c] = e], e.at \in {"dispatched", "body"},
           e.request = exchange[c].request
    PROVE  CallIInv'
<1>1. exchange'[c] = e
  BY DEF CallIInv, TransportTypeOK
<1>2. CallInv(c)'
  BY <1>1 DEF CallIInv, CallInv, Runs, Keeps
<1> QED BY <1>2, KeptWire, LocalStep

LEMMA CallTimerKeeps ==
    ASSUME CallIInv, NEW c \in Call, Timer(c)
    PROVE  CallIInv'
<1>1. CASE AbortCall(c)
  BY <1>1, LostKeeps DEF AbortCall
<1>2. CASE DeadlinePasses(c)
  <2> DEFINE e == [exchange[c] EXCEPT !.late = TRUE]
  <2>1. exchange[c] \in Exchange /\ exchange[c].at \in {"dispatched", "body"}
    BY <1>2 DEF CallIInv, TransportTypeOK, DeadlinePasses, Runs
  <2>2. exchange' = [exchange EXCEPT ![c] = e]
    BY <1>2, <2>1 DEF DeadlinePasses, CallIInv, TransportTypeOK
  <2>3. e \in Exchange /\ e.at = exchange[c].at /\ e.request = exchange[c].request
    BY <2>1 DEF Exchange
  <2> HIDE DEF e
  <2> QED BY <1>2, <2>1, <2>2, <2>3, RunningKeeps DEF DeadlinePasses
<1> QED BY <1>1, <1>2 DEF Timer

LEMMA ResponseKeeps ==
    ASSUME CallIInv, NEW c \in Call
    PROVE  /\ \A status \in {200, 500} : ResponseHead(c, status) => CallIInv'
           /\ \A size \in 0..2 : Chunk(c, size) => CallIInv'
<1>1. exchange[c] \in Exchange
  BY DEF CallIInv, TransportTypeOK
<1>2. ASSUME NEW status \in {200, 500}, ResponseHead(c, status) PROVE CallIInv'
  <2> DEFINE e == [exchange[c] EXCEPT !.at = "body", !.status = status]
  <2>1. exchange' = [exchange EXCEPT ![c] = e] /\ Runs(c) /\ Keeps
    BY <1>2 DEF ResponseHead, Runs
  <2>2. e \in Exchange
    BY <1>1 DEF Exchange
  <2>3. e.at = "body" /\ e.request = exchange[c].request
    BY <1>1 DEF Exchange
  <2> HIDE DEF e
  <2> QED BY <2>1, <2>2, <2>3, RunningKeeps
<1>3. ASSUME NEW size \in 0..2, Chunk(c, size) PROVE CallIInv'
  <2>1. Runs(c) /\ Keeps /\ exchange[c].at = "body"
    BY <1>3 DEF Chunk, Runs
  <2>2. CASE Answers(c, Lost)
    BY <2>1, <2>2, LostKeeps
  <2>3. CASE ~Answers(c, Lost)
    <3> DEFINE e == [exchange[c] EXCEPT !.bytes = @ + size]
    <3>1. exchange' = [exchange EXCEPT ![c] = e]
      BY <1>3, <2>3 DEF Chunk, CallIInv, TransportTypeOK
    <3>2. e \in Exchange /\ e.at = "body" /\ e.request = exchange[c].request
      BY <1>1, <2>1 DEF Exchange
    <3> HIDE DEF e
    <3> QED BY <2>1, <3>1, <3>2, RunningKeeps
  <2> QED BY <2>2, <2>3
<1> QED BY <1>2, <1>3

\* What Linear says of the issue it holds after it took a req.
LEMMA ContentFields ==
    ASSUME NEW req \in LinearRequest, NEW issue \in Issue \cup {Nothing},
           NEW says \in {"success", "refused", "errors"}
    PROVE  LET body == Content(req, issue, says) IN
           /\ body \in Reply /\ body # Nothing
           /\ body.errors <=> says = "errors"
           /\ body.success <=> says = "success"
           /\ body.issue # Nothing =>
                /\ issue # Nothing
                /\ body.issue = [id |-> req.id, place |-> issue.place, rev |-> issue.rev]
           /\ (req.kind \in {"query", "read"} /\ says # "errors" /\ issue # Nothing)
                => body.issue # Nothing
<1> DEFINE shows == /\ issue # Nothing /\ says # "errors"
                    /\ req.kind \in {"create", "update"} => says = "success"
           x == [id |-> req.id, place |-> issue.place, rev |-> issue.rev]
           body == Content(req, issue, says)
<1>1. body = [errors |-> says = "errors", success |-> says = "success",
              issue |-> IF shows THEN x ELSE Nothing]
  BY Zenon DEF Content
<1>2. shows => issue # Nothing
  OBVIOUS
<1>3. issue # Nothing => x \in Shown /\ x # Nothing
  BY RequestKinds, TransportAssumption DEF Shown, Issue
<1>4. (req.kind \in {"query", "read"} /\ says # "errors" /\ issue # Nothing) => shows
  OBVIOUS
<1> HIDE DEF shows, body
<1>5. /\ body.errors = (says = "errors") /\ body.success = (says = "success")
      /\ body.issue = IF shows THEN x ELSE Nothing
  BY <1>1
<1>6. body.issue \in Shown \cup {Nothing}
  BY <1>2, <1>3, <1>5
<1>7. body \in Reply
  BY <1>1, <1>6, <1>5 DEF Reply
<1>8. body # Nothing
  BY <1>7, TransportAssumption DEF Reply
<1> HIDE DEF x
<1>9. /\ body.issue # Nothing => issue # Nothing /\ body.issue = x
      /\ (req.kind \in {"query", "read"} /\ says # "errors" /\ issue # Nothing) => body.issue # Nothing
  BY <1>2, <1>3, <1>4, <1>5
<1> QED BY <1>5, <1>7, <1>8, <1>9 DEF body, x

LEMMA CallTakeKeeps ==
    ASSUME CallIInv, NEW c \in Call, NEW place \in Place, NEW works \in BOOLEAN,
           NEW says \in {"success", "refused", "errors"}, Take(c, place, works, says)
    PROVE  CallIInv'
<1> DEFINE req == exchange[c].request
           was == linear[req.id]
           done == works /\ Accepts(req)
           issue == IF done THEN Changed(req, place) ELSE was
           body == Content(req, issue, says)
           taken == [before |-> was, after |-> issue]
<1>1. req \in LinearRequest /\ wire[c] = "sent"
  <2>1. wire[c] = "sent" /\ CallInv(c) /\ exchange[c] \in Exchange
    BY DEF Take, CallIInv, TransportTypeOK
  <2> QED BY <2>1 DEF CallInv, Exchange
<1>2. /\ req.kind \in {"create", "update"} /\ says = "success" => done
      /\ wire' = [wire EXCEPT ![c] = "taken"] /\ held' = [held EXCEPT ![c] = taken]
      /\ linear' = [linear EXCEPT ![req.id] = issue] /\ reply' = [reply EXCEPT ![c] = body]
      /\ UNCHANGED exchange
  BY Zenon DEF Take
<1> HIDE DEF req
<1>3. was \in Issue \cup {Nothing} /\ req.id \in IssueId
  BY <1>1, RequestKinds DEF CallIInv, TransportTypeOK
<1>4. /\ req.kind = "create" /\ done => was = Nothing
      /\ req.kind = "update" /\ done => was # Nothing
      /\ req.kind \in {"query", "read"} => ~done
  BY <1>1, RequestKinds DEF Accepts
<1> HIDE DEF was
<1>5. /\ issue \in Issue \cup {Nothing}
      /\ done => issue # Nothing
      /\ req.kind = "update" /\ done => issue.rev > was.rev
  <2>1. CASE done
    <3>1. issue = Changed(req, place)
      BY <2>1
    <3>2. req.kind \in {"create", "update"}
      BY <1>1, <1>4, <2>1, RequestKinds
    <3>3. req.kind = "update" => was \in Issue
      BY <1>3, <1>4, <2>1
    <3> HIDE DEF issue
    <3>4. issue = [place |-> place, rev |-> IF req.kind = "create" THEN 1 ELSE was.rev + 1]
      BY <3>1 DEF Changed, was
    <3>5. issue \in Issue /\ (req.kind = "update" => issue.rev > was.rev)
      BY <3>2, <3>3, <3>4 DEF Issue
    <3> QED BY <3>5, TransportAssumption
  <2>2. CASE ~done
    BY <1>3, <2>2
  <2> QED BY <2>1, <2>2
<1> HIDE DEF issue, done
<1>6. /\ body \in Reply /\ body # Nothing
      /\ body.errors <=> says = "errors"
      /\ body.success <=> says = "success"
      /\ body.issue # Nothing =>
            issue # Nothing /\ body.issue = [id |-> req.id, place |-> issue.place, rev |-> issue.rev]
      /\ (req.kind \in {"query", "read"} /\ says # "errors" /\ issue # Nothing) => body.issue # Nothing
  BY <1>1, <1>5, ContentFields
<1> HIDE DEF body
<1>7. taken \in Taken /\ taken # Nothing /\ taken.before = was /\ taken.after = issue
  BY <1>3, <1>5, TransportAssumption DEF Taken
<1> HIDE DEF taken
<1>8. Truthful(req, body, taken)
  BY <1>2, <1>4, <1>5, <1>6, <1>7 DEF Truthful
<1>9. TransportTypeOK'
  BY <1>2, <1>3, <1>5, <1>6, <1>7 DEF CallIInv, TransportTypeOK
<1>10. ASSUME NEW d \in Call PROVE CallInv(d)'
  <2>1. CASE d = c
    <3>1. wire'[c] = "taken" /\ held'[c] = taken /\ reply'[c] = body /\ exchange'[c] = exchange[c] /\ CallInv(c)
      BY <1>2 DEF CallIInv, TransportTypeOK
    <3>2. exchange[c].at # "idle"
      BY <1>1, <3>1 DEF CallInv
    <3>3. exchange[c].at = "answered" =>
            Claim(req, exchange[c].answer, taken, exchange[c].late, "taken")
      BY <1>1, <3>1 DEF CallInv, Claim
    <3> QED BY <1>1, <1>6, <1>7, <1>8, <2>1, <3>1, <3>2, <3>3 DEF CallInv, req
  <2>2. CASE d # c
    <3>1. exchange'[d] = exchange[d] /\ wire'[d] = wire[d] /\ reply'[d] = reply[d] /\ held'[d] = held[d]
      BY <1>2, <2>2 DEF CallIInv, TransportTypeOK
    <3> QED BY <3>1 DEF CallIInv, CallInv
  <2> QED BY <2>1, <2>2
<1> QED BY <1>9, <1>10 DEF CallIInv

-----------------------------------------------------------------------------
(* A call: the theorems.                                                   *)

LEMMA CallInductive ==
    TransportSpec => []CallIInv
<1>1. TransportInit => CallIInv
  <2> SUFFICES ASSUME TransportInit PROVE CallIInv
    OBVIOUS
  <2>1. Unasked \in Exchange /\ Unasked.at = "idle"
    BY DEF Unasked, Exchange
  <2>2. TransportTypeOK
    BY <2>1 DEF TransportInit, TransportTypeOK, Issue
  <2>3. ASSUME NEW c \in Call PROVE CallInv(c)
    BY <2>1 DEF TransportInit, CallInv
  <2> QED BY <2>2, <2>3 DEF CallIInv
<1>2. CallIInv /\ [TransportNext]_transportVars => CallIInv'
  <2> SUFFICES ASSUME CallIInv, [TransportNext]_transportVars PROVE CallIInv'
    OBVIOUS
  <2>1. CASE TransportNext
    <3>1. PICK c \in Call :
            \/ \E req \in LinearRequest, size \in 1..2 : BeginCall(c, req, size)
            \/ Timer(c) \/ Fails(c)
            \/ \E status \in {200, 500} : ResponseHead(c, status)
            \/ \E size \in 0..2 : Chunk(c, size)
            \/ \E body \in {reply[c], Nothing} : Ends(c, body)
            \/ \E place \in Place, works \in BOOLEAN, says \in {"success", "refused", "errors"} :
                Take(c, place, works, says)
      BY <2>1 DEF TransportNext
    <3>2. CASE Fails(c)
      BY <3>2, LostKeeps DEF Fails
    <3> QED BY <3>1, <3>2, BeginKeeps, CallTimerKeeps, ResponseKeeps, EndsKeeps, CallTakeKeeps
  <2>2. CASE UNCHANGED transportVars
    BY <2>2 DEF transportVars, CallIInv, TransportTypeOK, CallInv
  <2> QED BY <2>1, <2>2
<1> QED BY <1>1, <1>2, PTL DEF TransportSpec

\* A call, its req, the reply and what Linear holds keep their types.
THEOREM CallsAreTyped ==
    TransportSpec => []TransportTypeOK
BY CallInductive, PTL DEF CallIInv

\* AnswersAreTrue: however many calls are under way about however many issues, in
\* whichever order requests are taken, timers fire and bodies end.
THEOREM AnswersStayTrue ==
    TransportSpec => []AnswersAreTrue
<1>1. CallIInv => AnswersAreTrue
  <2> SUFFICES ASSUME CallIInv, NEW c \in Call, exchange[c].at = "answered"
               PROVE  Claim(exchange[c].request, exchange[c].answer, held[c], exchange[c].late, wire[c])
    BY Zenon DEF AnswersAreTrue, Claim
  <2> QED BY DEF CallIInv, CallInv
<1> QED BY <1>1, CallInductive, PTL

-----------------------------------------------------------------------------
(* Recursive functions.                                                    *)

\* A set of naturals that is not empty has a least member.
LEMMA LeastOf ==
    ASSUME NEW T \in SUBSET Nat, T # {}
    PROVE  \E x \in T : \A y \in T : x <= y
<1> DEFINE R == {ss \in Nat \X Nat : ss[1] < ss[2]}
<1>1. IsWellFoundedOn(R, Nat)
    BY NatLessThanWellFounded DEF OpToRel
<1>2. \A x, y \in Nat : y < x => <<y, x>> \in R
    OBVIOUS
<1> HIDE DEF R
<1>3. PICK x \in T : \A y \in T : ~(<<y, x>> \in R)
    BY <1>1, WFMin
<1>4. ASSUME NEW y \in T PROVE x <= y
    <2>1. x \in Nat /\ y \in Nat
        OBVIOUS
    <2>2. ~(y < x)
        BY <1>3, <1>2, <2>1
    <2> QED BY <2>1, <2>2
<1> QED BY <1>4

\* A set that has 0 and the successors of its naturals has them all.
LEMMA InductiveSet ==
    ASSUME NEW S, 0 \in S, \A n \in Nat : n \in S => n + 1 \in S
    PROVE  Nat \subseteq S
<1> SUFFICES ASSUME Nat \ S # {} PROVE FALSE
    OBVIOUS
<1>1. PICK x \in Nat \ S : \A y \in Nat \ S : x <= y
    BY LeastOf
<1>2. x # 0 /\ x - 1 \in Nat
    BY <1>1
<1>3. x - 1 \in S
    BY <1>1, <1>2
<1>4. (x - 1) + 1 \in S /\ (x - 1) + 1 = x
    BY <1>1, <1>2, <1>3
<1> QED BY <1>1, <1>4

\* The step functions of a recursion over 1..m in T, and its runs.
RecursiveSteps(m, T) == [(1..m) \X T -> T]
RecursiveRuns(d, m, T, F) == {r \in [0..m -> T] : r[0] = d /\ \A n \in 1..m : r[n] = F[<<n, r[n - 1]>>]}

\* A recursion whose step stays in T runs to any m and stays in T.
LEMMA RunExists ==
    \A T, d, m, F : d \in T /\ m \in Nat /\ F \in RecursiveSteps(m, T) => RecursiveRuns(d, m, T, F) # {}
<1> SUFFICES ASSUME NEW T, NEW d, NEW m, NEW F, d \in T, m \in Nat, F \in RecursiveSteps(m, T)
             PROVE  RecursiveRuns(d, m, T, F) # {}
    OBVIOUS
<1>0. F \in [(1..m) \X T -> T]
    BY DEF RecursiveSteps
<1> DEFINE RunsTo(k) == {r \in [0..k -> T] : r[0] = d /\ \A n \in 1..k : r[n] = F[<<n, r[n - 1]>>]}
           S == {k \in Nat : k <= m => RunsTo(k) # {}}
<1>1. 0 \in S
    <2> DEFINE r == [i \in 0..0 |-> d]
    <2>1. r \in [0..0 -> T] /\ r[0] = d /\ 1..0 = {}
        OBVIOUS
    <2> HIDE DEF r
    <2> QED BY <2>1
<1>2. ASSUME NEW k \in Nat, k \in S PROVE k + 1 \in S
    <2> SUFFICES ASSUME k + 1 <= m PROVE RunsTo(k + 1) # {}
        OBVIOUS
    <2>1. PICK r \in [0..k -> T] : r[0] = d /\ \A n \in 1..k : r[n] = F[<<n, r[n - 1]>>]
        BY <1>2
    <2> DEFINE q == [i \in 0..(k + 1) |-> IF i = k + 1 THEN F[<<k + 1, r[k]>>] ELSE r[i]]
    <2>2. F[<<k + 1, r[k]>>] \in T
        BY <1>0, <2>1
    <2>3. q \in [0..(k + 1) -> T]
        BY <2>1, <2>2
    <2>4. /\ q[0] = d /\ q[k + 1] = F[<<k + 1, r[k]>>]
          /\ \A i \in 0..k : q[i] = r[i]
        BY <2>1
    <2> HIDE DEF q
    <2>5. ASSUME NEW n \in 1..(k + 1) PROVE q[n] = F[<<n, q[n - 1]>>]
        <3>1. CASE n = k + 1
            <4>1. k \in 0..k /\ n - 1 = k
                BY <3>1
            <4> QED BY <2>4, <3>1, <4>1
        <3>2. CASE n \in 1..k
            <4>1. n \in 0..k /\ n - 1 \in 0..k
                BY <3>2
            <4> QED BY <2>1, <2>4, <3>2, <4>1
        <3> QED BY <3>1, <3>2
    <2> QED BY <2>3, <2>4, <2>5
<1> HIDE DEF S
<1>3. m \in S
    BY <1>1, <1>2, InductiveSet
<1> QED BY <1>3 DEF S, RecursiveRuns

\* Two runs that start together and step together are the same run.
LEMMA RunsAgree ==
    ASSUME NEW m \in Nat, NEW r, NEW q, r[0] = q[0],
           \A n \in 1..m : r[n - 1] = q[n - 1] => r[n] = q[n]
    PROVE  \A n \in 0..m : r[n] = q[n]
<1> DEFINE S == {k \in Nat : k <= m => r[k] = q[k]}
<1>1. 0 \in S
    OBVIOUS
<1>2. ASSUME NEW k \in Nat, k \in S PROVE k + 1 \in S
    <2> SUFFICES ASSUME k + 1 <= m PROVE r[k + 1] = q[k + 1]
        OBVIOUS
    <2>1. k + 1 \in 1..m /\ (k + 1) - 1 = k /\ k <= m
        OBVIOUS
    <2>2. r[k] = q[k]
        BY <1>2, <2>1
    <2> QED BY <2>1, <2>2
<1> HIDE DEF S
<1>3. Nat \subseteq S
    BY <1>1, <1>2, InductiveSet
<1> QED BY <1>3 DEF S

-----------------------------------------------------------------------------
(* The journal: plans and replays.                                         *)

\* Plans, lines and the states a replay can be in.
Plans == [batch : Batch, base : Seq(Event)]

\* A plan adds events.
LEMMA PlanEventsTyped ==
    ASSUME NEW p \in Plans
    PROVE  PlanEvents(p) \in Seq(Event)
<1> DEFINE events == BatchEvents[p.batch]
           m == Len(events)
           E == Seq(Event)
           StepOf(s, n) == IF Applied(p.base, events[n]) THEN s ELSE Append(s, events[n])
           F == [x \in (1..m) \X E |-> StepOf(x[2], x[1])]
           Run(f) == [n \in 0..m |-> IF n = 0 THEN <<>> ELSE StepOf(f[n - 1], n)]
           new == CHOOSE f : f = Run(f)
<1>1. PlanEvents(p) = new[m]
    BY DEF PlanEvents
<1>2. events \in Seq(Event) /\ m \in Nat /\ \A n \in 1..m : events[n] \in Event
    BY JournalAssumption DEF Plans
<1>3. \A n \in 1..m, s \in E : StepOf(s, n) \in E
    BY <1>2
<1>4. <<>> \in E
    OBVIOUS
<1> HIDE DEF events, m, E, StepOf
<1>5. F \in [(1..m) \X E -> E] /\ \A n \in 1..m, s \in E : F[<<n, s>>] = StepOf(s, n)
    BY <1>3
<1> HIDE DEF F
<1>6. PICK r \in [0..m -> E] : r[0] = <<>> /\ \A n \in 1..m : r[n] = F[<<n, r[n - 1]>>]
    <2>1. F \in RecursiveSteps(m, E)
        BY <1>5 DEF RecursiveSteps
    <2>2. PICK r \in RecursiveRuns(<<>>, m, E, F) : TRUE
        BY <1>2, <1>4, <2>1, RunExists
    <2> QED BY <2>2 DEF RecursiveRuns
<1>7. \A n \in 1..m : n - 1 \in 0..m /\ n \in 0..m /\ n # 0
    BY <1>2
<1>8. 0 \in 0..m /\ m \in 0..m /\ \A n \in 0..m : n = 0 \/ n \in 1..m
    BY <1>2
<1>9. \A n \in 1..m : r[n] = StepOf(r[n - 1], n)
    BY <1>5, <1>6, <1>7
<1>10. r = Run(r)
    <2>1. \A n \in 0..m : r[n] = IF n = 0 THEN <<>> ELSE StepOf(r[n - 1], n)
        BY <1>6, <1>7, <1>8, <1>9
    <2> QED BY <1>6, <2>1
<1>11. new = Run(new)
    BY <1>10
<1> HIDE DEF new
<1>12. new[0] = <<>> /\ \A n \in 1..m : new[n] = StepOf(new[n - 1], n)
    BY <1>7, <1>8, <1>11
<1> HIDE DEF Run
<1>13. \A n \in 1..m : new[n - 1] = r[n - 1] => new[n] = r[n]
    BY <1>9, <1>12
<1>14. \A n \in 0..m : new[n] = r[n]
    <2>1. new[0] = r[0]
        BY <1>6, <1>12
    <2>2. m \in Nat
        BY <1>2
    <2> HIDE DEF new
    <2> QED BY <2>1, <2>2, <1>13, RunsAgree
<1> QED BY <1>1, <1>6, <1>8, <1>14 DEF E

EventLines == [kind : {"event"}, event : DirectEvent]
BatchLines == [kind : {"batch"}, plan : Plans]
Requests == EventLines \cup BatchLines
Lines == Requests \cup {Garbage}
States == [workflow : Seq(Event), receipts : SUBSET Plans, ok : BOOLEAN]
Unread == [workflow |-> <<>>, receipts |-> {}, ok |-> TRUE]

\* The kind of a line tells what it is.
LEMMA LineKinds ==
    /\ \A l \in EventLines : l.kind = "event" /\ l.event \in DirectEvent /\ l.event \in Event
    /\ \A l \in BatchLines : l.kind = "batch" /\ l.plan \in Plans
    /\ Garbage.kind = "garbage"
    /\ \A l \in Lines : l # Garbage <=> l \in Requests
    /\ \A l \in Lines : l.kind \in {"event", "batch", "garbage"}
    /\ \A l \in Lines : l = Garbage <=> l.kind = "garbage"
    /\ \A l \in Requests : /\ l \in EventLines <=> l.kind = "event"
                           /\ l \in BatchLines <=> l.kind = "batch"
<1>1. \A l \in EventLines : l.kind = "event" /\ l.event \in DirectEvent /\ l.event \in Event
    BY DEF EventLines, Event
<1>2. \A l \in BatchLines : l.kind = "batch" /\ l.plan \in Plans
    BY DEF BatchLines
<1>3. Garbage.kind = "garbage"
    BY DEF Garbage
<1> QED BY <1>1, <1>2, <1>3 DEF Lines, Requests

\* Replaying a line keeps the state of a replay.
LEMMA ReplayLineTyped ==
    ASSUME NEW s \in States, NEW l \in Lines
    PROVE  ReplayLine(s, l) \in States
<1>1. s.workflow \in Seq(Event) /\ s.receipts \in SUBSET Plans /\ s.ok \in BOOLEAN
    BY DEF States
<1>2. [s EXCEPT !.ok = FALSE] \in States
    BY DEF States
<1>3. ASSUME l # Garbage, l.kind = "event" PROVE [s EXCEPT !.workflow = Append(@, l.event)] \in States
    <2>1. l.event \in Event
        BY <1>3, LineKinds
    <2>2. Append(s.workflow, l.event) \in Seq(Event)
        BY <1>1, <2>1
    <2> QED BY <2>2 DEF States
<1>4. ASSUME l # Garbage, l.kind = "batch"
      PROVE [s EXCEPT !.workflow = @ \o PlanEvents(l.plan), !.receipts = @ \cup {l.plan}] \in States
    <2>1. l.plan \in Plans
        BY <1>4, LineKinds
    <2>2. s.workflow \o PlanEvents(l.plan) \in Seq(Event)
        BY <1>1, <2>1, PlanEventsTyped
    <2>3. s.receipts \cup {l.plan} \in SUBSET Plans
        BY <1>1, <2>1
    <2> QED BY <2>2, <2>3 DEF States
<1> QED BY <1>2, <1>3, <1>4 DEF ReplayLine

\* r goes through the states of a replay.
ReplayRun(r, lines) ==
    /\ r \in [0..Len(lines) -> States]
    /\ r[0] = Unread
    /\ \A n \in 1..Len(lines) : r[n] = ReplayLine(r[n - 1], lines[n])

\* Replay is the last state of a run over the lines.
LEMMA ReplayIsRun ==
    ASSUME NEW lines \in Seq(Lines)
    PROVE  \E r : ReplayRun(r, lines) /\ Replay(lines) = r[Len(lines)]
<1> DEFINE m == Len(lines)
           F == [x \in (1..m) \X States |-> ReplayLine(x[2], lines[x[1]])]
           Run(f) == [n \in 0..m |-> IF n = 0 THEN Unread ELSE ReplayLine(f[n - 1], lines[n])]
           replayed == CHOOSE f : f = Run(f)
<1>1. Replay(lines) = replayed[m]
    BY DEF Replay, Unread
<1>2. m \in Nat /\ \A n \in 1..m : lines[n] \in Lines
    OBVIOUS
<1>3. \A n \in 1..m, s \in States : ReplayLine(s, lines[n]) \in States
    BY <1>2, ReplayLineTyped
<1>4. Unread \in States
    BY DEF Unread, States
<1> HIDE DEF m
<1>5. F \in [(1..m) \X States -> States] /\ \A n \in 1..m, s \in States : F[<<n, s>>] = ReplayLine(s, lines[n])
    BY <1>3
<1> HIDE DEF F
<1>6. PICK r \in [0..m -> States] : r[0] = Unread /\ \A n \in 1..m : r[n] = F[<<n, r[n - 1]>>]
    <2>1. F \in RecursiveSteps(m, States)
        BY <1>5 DEF RecursiveSteps
    <2>2. PICK r \in RecursiveRuns(Unread, m, States, F) : TRUE
        BY <1>2, <1>4, <2>1, RunExists
    <2> QED BY <2>2 DEF RecursiveRuns
<1>7. \A n \in 1..m : n - 1 \in 0..m /\ n \in 0..m /\ n # 0
    BY <1>2
<1>8. 0 \in 0..m /\ m \in 0..m /\ \A n \in 0..m : n = 0 \/ n \in 1..m
    BY <1>2
<1>9. \A n \in 1..m : r[n] = ReplayLine(r[n - 1], lines[n])
    BY <1>5, <1>6, <1>7
<1>10. r = Run(r)
    <2>1. \A n \in 0..m : r[n] = IF n = 0 THEN Unread ELSE ReplayLine(r[n - 1], lines[n])
        BY <1>6, <1>7, <1>8, <1>9
    <2> QED BY <1>6, <2>1
<1>11. replayed = Run(replayed)
    BY <1>10
<1> HIDE DEF replayed
<1>12. replayed[0] = Unread /\ \A n \in 1..m : replayed[n] = ReplayLine(replayed[n - 1], lines[n])
    BY <1>7, <1>8, <1>11
<1> HIDE DEF Run
<1>13. \A n \in 1..m : replayed[n - 1] = r[n - 1] => replayed[n] = r[n]
    BY <1>9, <1>12
<1>14. \A n \in 0..m : replayed[n] = r[n]
    <2>1. replayed[0] = r[0]
        BY <1>6, <1>12
    <2>2. m \in Nat
        BY <1>2
    <2> QED BY <2>1, <2>2, <1>13, RunsAgree
<1>15. ReplayRun(r, lines)
    BY <1>6, <1>9 DEF ReplayRun, m
<1>16. Replay(lines) = r[m]
    BY <1>1, <1>8, <1>14
<1> QED BY <1>15, <1>16 DEF m

\* Whatever the file holds, its replay is a state.
LEMMA ReplayTyped ==
    ASSUME NEW lines \in Seq(Lines) PROVE Replay(lines) \in States
<1>1. PICK r : ReplayRun(r, lines) /\ Replay(lines) = r[Len(lines)]
    BY ReplayIsRun
<1>2. Len(lines) \in 0..Len(lines)
    OBVIOUS
<1> QED BY <1>1, <1>2 DEF ReplayRun

\* An empty file replays to the initial state.
LEMMA ReplayEmpty == Replay(<<>>) = Unread
<1>1. <<>> \in Seq(Lines) /\ Len(<<>>) = 0
    OBVIOUS
<1>2. PICK r : ReplayRun(r, <<>>) /\ Replay(<<>>) = r[Len(<<>>)]
    BY <1>1, ReplayIsRun
<1> QED BY <1>1, <1>2 DEF ReplayRun

\* A line at the end of the file is replayed last, and nothing else changes.
LEMMA ReplayAppend ==
    ASSUME NEW lines \in Seq(Lines), NEW l \in Lines
    PROVE  Replay(Append(lines, l)) = ReplayLine(Replay(lines), l)
<1> DEFINE m == Len(lines)
           more == Append(lines, l)
<1>1. m \in Nat /\ more \in Seq(Lines) /\ Len(more) = m + 1 /\ more[m + 1] = l
    OBVIOUS
<1>2. \A n \in 1..m : more[n] = lines[n]
    OBVIOUS
<1>3. PICK r : ReplayRun(r, lines) /\ Replay(lines) = r[m]
    BY ReplayIsRun
<1> HIDE DEF m, more
<1>4. PICK q : ReplayRun(q, more) /\ Replay(more) = q[m + 1]
    BY <1>1, ReplayIsRun
<1>5. \A n \in 1..m : n \in 1..(m + 1)
    BY <1>1
<1>6. r[0] = q[0] /\ \A n \in 1..m : r[n] = ReplayLine(r[n - 1], lines[n])
    BY <1>3, <1>4 DEF ReplayRun, m
<1>7. \A n \in 1..(m + 1) : q[n] = ReplayLine(q[n - 1], more[n])
    BY <1>1, <1>4 DEF ReplayRun
<1>8. \A n \in 1..m : r[n - 1] = q[n - 1] => r[n] = q[n]
    BY <1>2, <1>5, <1>6, <1>7
<1>9. \A n \in 0..m : r[n] = q[n]
    BY <1>1, <1>6, <1>8, RunsAgree
<1>10. m \in 0..m /\ m + 1 \in 1..(m + 1) /\ (m + 1) - 1 = m
    BY <1>1
<1>11. q[m + 1] = ReplayLine(r[m], l)
    BY <1>1, <1>7, <1>9, <1>10
<1> QED BY <1>3, <1>4, <1>11 DEF more

\* The elements of a sequence and of one more.
LEMMA ElementsOfAppend ==
    ASSUME NEW S, NEW w \in Seq(S), NEW e
    PROVE  ToSet(Append(w, e)) = ToSet(w) \cup {e}
<1> DEFINE v == Append(w, e)
<1>1. Len(w) \in Nat /\ DOMAIN w = 1..Len(w) /\ DOMAIN v = 1..(Len(w) + 1)
    OBVIOUS
<1>2. v[Len(w) + 1] = e /\ \A i \in 1..Len(w) : v[i] = w[i]
    OBVIOUS
<1> HIDE DEF v
<1>3. \A i \in 1..(Len(w) + 1) : i = Len(w) + 1 \/ i \in 1..Len(w)
    BY <1>1
<1>4. ToSet(v) \subseteq ToSet(w) \cup {e}
    BY <1>1, <1>2, <1>3 DEF ToSet
<1>5. \A i \in 1..Len(w) : i \in 1..(Len(w) + 1)
    BY <1>1
<1>6. Len(w) + 1 \in 1..(Len(w) + 1)
    BY <1>1
<1>7. ToSet(w) \cup {e} \subseteq ToSet(v)
    BY <1>1, <1>2, <1>5, <1>6 DEF ToSet
<1> QED BY <1>4, <1>7 DEF v

\* A concatenation keeps the elements of its first part.
LEMMA ElementsOfConcat ==
    ASSUME NEW S, NEW w \in Seq(S), NEW u \in Seq(S)
    PROVE  ToSet(w) \subseteq ToSet(w \o u)
<1> DEFINE v == w \o u
<1>1. Len(w) \in Nat /\ Len(u) \in Nat /\ DOMAIN w = 1..Len(w) /\ DOMAIN v = 1..(Len(w) + Len(u))
    OBVIOUS
<1>2. \A i \in 1..Len(w) : v[i] = w[i]
    OBVIOUS
<1> HIDE DEF v
<1>3. \A i \in 1..Len(w) : i \in 1..(Len(w) + Len(u))
    BY <1>1
<1>4. ToSet(w) \subseteq ToSet(v)
    BY <1>1, <1>2, <1>3 DEF ToSet
<1> QED BY <1>4 DEF v

\* The state after a line was applied, and when a line may be.
After(s, line) ==
    IF line.kind = "event" THEN [s EXCEPT !.workflow = Append(@, line.event)]
    ELSE [s EXCEPT !.workflow = @ \o PlanEvents(line.plan), !.receipts = @ \cup {line.plan}]

Adopts(s, line) ==
    /\ ~Represents(s, line)
    /\ IF line.kind = "event" THEN Applicable(s.workflow, line.event) ELSE line.plan.base = s.workflow

\* Applying a line loses nothing of what was applied before.
LEMMA GrownWorkflow ==
    ASSUME NEW s \in States, NEW l \in Requests
    PROVE  /\ After(s, l) \in States /\ After(s, l).ok = s.ok
           /\ Represents(After(s, l), l)
           /\ \A r \in Requests : Represents(s, r) => Represents(After(s, l), r)
<1>1. s.workflow \in Seq(Event) /\ s.receipts \in SUBSET Plans /\ s.ok \in BOOLEAN
    BY DEF States
<1>2. ASSUME l \in EventLines
      PROVE  /\ After(s, l) \in States /\ After(s, l).ok = s.ok
             /\ After(s, l).workflow = Append(s.workflow, l.event)
             /\ After(s, l).receipts = s.receipts
    <2>1. l.event \in Event /\ l.kind = "event"
        BY <1>2, LineKinds
    <2>2. Append(s.workflow, l.event) \in Seq(Event)
        BY <1>1, <2>1
    <2>3. After(s, l) = [s EXCEPT !.workflow = Append(s.workflow, l.event)]
        BY <2>1 DEF After
    <2> QED BY <2>2, <2>3 DEF States
<1>3. ASSUME l \in BatchLines
      PROVE  /\ After(s, l) \in States /\ After(s, l).ok = s.ok
             /\ After(s, l).workflow = s.workflow \o PlanEvents(l.plan)
             /\ After(s, l).receipts = s.receipts \cup {l.plan}
             /\ PlanEvents(l.plan) \in Seq(Event)
    <2>1. l.plan \in Plans /\ l.kind = "batch"
        BY <1>3, LineKinds
    <2>2. PlanEvents(l.plan) \in Seq(Event)
        BY <2>1, PlanEventsTyped
    <2>3. s.workflow \o PlanEvents(l.plan) \in Seq(Event)
        BY <1>1, <2>2
    <2>4. s.receipts \cup {l.plan} \in SUBSET Plans
        BY <1>1, <2>1
    <2>5. After(s, l) = [s EXCEPT !.workflow = s.workflow \o PlanEvents(l.plan),
                                  !.receipts = s.receipts \cup {l.plan}]
        BY <2>1 DEF After
    <2> QED BY <2>2, <2>3, <2>4, <2>5 DEF States
<1>4. CASE l \in EventLines
    <2>1. l.kind = "event"
        BY <1>4, LineKinds
    <2>2. ToSet(After(s, l).workflow) = ToSet(s.workflow) \cup {l.event}
        BY <1>1, <1>2, <1>4, ElementsOfAppend
    <2> QED BY <1>2, <1>4, <2>1, <2>2 DEF Represents, Applied
<1>5. CASE l \in BatchLines
    <2>1. l.kind = "batch"
        BY <1>5, LineKinds
    <2>2. ToSet(s.workflow) \subseteq ToSet(After(s, l).workflow)
        BY <1>1, <1>3, <1>5, ElementsOfConcat
    <2> QED BY <1>3, <1>5, <2>1, <2>2 DEF Represents, Applied
<1> QED BY <1>4, <1>5 DEF Requests

\* The replay of a line that was accepted does what its commit does.
LEMMA AcceptedLine ==
    ASSUME NEW s \in States, NEW l \in Requests, s.ok, Adopts(s, l)
    PROVE  ReplayLine(s, l) = After(s, l)
<1>1. l # Garbage
    BY LineKinds DEF Lines
<1>2. CASE l.kind = "event"
    BY <1>1, <1>2 DEF Adopts, ReplayLine, After
<1>3. CASE l.kind = "batch"
    BY <1>1, <1>3 DEF Adopts, ReplayLine, After
<1> QED BY <1>2, <1>3, LineKinds DEF Requests

-----------------------------------------------------------------------------
(* The journal: the file.                                                  *)

\* What a file must be to be found again: only a torn line stops its replay, every
\* line that is not torn was applied and is there once, and every answered request was
\* applied.
Readable(f, torn, answered) ==
    LET s == Replay(f) IN
    /\ torn => ~s.ok
    /\ ~s.ok => \E i \in 1..Len(f) : f[i] = Garbage
    /\ \A i \in 1..Len(f) : f[i] # Garbage => Represents(s, f[i])
    /\ \A i, j \in 1..Len(f) : (i # j /\ f[i] # Garbage) => f[i] # f[j]
    /\ \A r \in answered : Represents(s, r)

\* A readable file takes a line its replay adopts.
LEMMA FileTakesRequest ==
    ASSUME NEW f \in Seq(Lines), NEW answered \in SUBSET Requests, NEW l \in Requests,
           Readable(f, FALSE, answered), Replay(f).ok, Adopts(Replay(f), l)
    PROVE  /\ Append(f, l) \in Seq(Lines)
           /\ Readable(Append(f, l), FALSE, answered)
           /\ Replay(Append(f, l)) = After(Replay(f), l)
           /\ Replay(Append(f, l)).ok
           /\ Represents(Replay(Append(f, l)), l)
<1> DEFINE s == Replay(f)
           g == Append(f, l)
           m == Len(f)
<1>0. l \in Lines /\ l # Garbage
    BY LineKinds DEF Lines
<1>1. s \in States
    BY ReplayTyped
<1>2. Replay(g) = After(s, l)
    BY <1>0, <1>1, ReplayAppend, AcceptedLine
<1>3. /\ After(s, l).ok /\ Represents(After(s, l), l)
      /\ \A r \in Requests : Represents(s, r) => Represents(After(s, l), r)
    BY <1>1, GrownWorkflow
<1>4. g \in Seq(Lines) /\ m \in Nat /\ Len(g) = m + 1 /\ g[m + 1] = l /\ \A i \in 1..m : g[i] = f[i] /\ f[i] \in Lines
    BY <1>0
<1>5. \A i \in 1..Len(g) : i = m + 1 \/ i \in 1..m
    BY <1>4
<1>6. /\ \A i \in 1..m : f[i] # Garbage => f[i] \in Requests /\ Represents(s, f[i])
      /\ \A i, j \in 1..m : (i # j /\ f[i] # Garbage) => f[i] # f[j]
      /\ \A r \in answered : r \in Requests /\ Represents(s, r)
    BY <1>4, LineKinds DEF Readable
<1> HIDE DEF s, g, m
<1>7. \A i \in 1..m : f[i] # l
    <2> SUFFICES ASSUME NEW i \in 1..m, f[i] = l PROVE FALSE
        OBVIOUS
    <2>1. Represents(s, l)
        BY <1>0, <1>6
    <2> QED BY <2>1 DEF Adopts, s
<1>8. \A i \in 1..Len(g) : g[i] # Garbage => Represents(Replay(g), g[i])
    BY <1>2, <1>3, <1>4, <1>5, <1>6
<1>9. \A i, j \in 1..Len(g) : (i # j /\ g[i] # Garbage) => g[i] # g[j]
    BY <1>4, <1>5, <1>6, <1>7
<1>10. \A r \in answered : Represents(Replay(g), r)
    BY <1>2, <1>3, <1>6
<1>11. Readable(g, FALSE, answered)
    BY <1>2, <1>3, <1>8, <1>9, <1>10 DEF Readable
<1> QED BY <1>2, <1>3, <1>4, <1>11 DEF s, g

\* A torn line makes the file unreadable, and hides no earlier line.
LEMMA FileTakesGarbage ==
    ASSUME NEW f \in Seq(Lines), NEW answered \in SUBSET Requests,
           Readable(f, FALSE, answered)
    PROVE  /\ Append(f, Garbage) \in Seq(Lines)
           /\ Readable(Append(f, Garbage), TRUE, answered)
           /\ ~Replay(Append(f, Garbage)).ok
<1> DEFINE s == Replay(f)
           g == Append(f, Garbage)
           m == Len(f)
<1>0. Garbage \in Lines
    BY DEF Lines
<1>1. s \in States
    BY ReplayTyped
<1>2. Replay(g) = [s EXCEPT !.ok = FALSE]
    BY <1>0, <1>1, ReplayAppend DEF ReplayLine
<1>3. /\ Replay(g).ok = FALSE /\ Replay(g).workflow = s.workflow /\ Replay(g).receipts = s.receipts
    BY <1>1, <1>2 DEF States
<1>4. g \in Seq(Lines) /\ m \in Nat /\ Len(g) = m + 1 /\ g[m + 1] = Garbage /\ \A i \in 1..m : g[i] = f[i] /\ f[i] \in Lines
    BY <1>0
<1>5. \A i \in 1..Len(g) : i = m + 1 \/ i \in 1..m
    BY <1>4
<1>6. /\ \A i \in 1..m : f[i] # Garbage => Represents(s, f[i])
      /\ \A i, j \in 1..m : (i # j /\ f[i] # Garbage) => f[i] # f[j]
      /\ \A r \in answered : Represents(s, r)
    BY <1>4 DEF Readable
<1> HIDE DEF s, g, m
<1>7. \A r : Represents(s, r) => Represents(Replay(g), r)
    BY <1>3 DEF Represents
<1>8. \A i \in 1..Len(g) : g[i] # Garbage => Represents(Replay(g), g[i])
    BY <1>4, <1>5, <1>6, <1>7
<1>9. \A i, j \in 1..Len(g) : (i # j /\ g[i] # Garbage) => g[i] # g[j]
    BY <1>4, <1>5, <1>6
<1>10. m + 1 \in 1..Len(g)
    BY <1>4
<1>11. Readable(g, TRUE, answered)
    BY <1>3, <1>4, <1>6, <1>7, <1>8, <1>9, <1>10 DEF Readable
<1> QED BY <1>3, <1>4, <1>11 DEF g

-----------------------------------------------------------------------------
(* The journal: the invariant.                                             *)

\* The inductive invariant: types,
Typed ==
    /\ file \in Seq(Lines) /\ unended \in BOOLEAN
    /\ workflow \in Seq(Event) /\ receipts \in SUBSET Plans
    /\ journalMode \in {"ready", "fenced", "corrupt"}
    /\ atomic \in {"unknown", "supported", "unsupported"}
    /\ queue \in Seq(Caller)
    /\ pc \in [Caller -> {"idle", "queued", "verify", "write", "commit"}]
    /\ DOMAIN request = Caller /\ DOMAIN plan = Caller /\ DOMAIN candidate = Caller
    /\ \A c \in Caller : pc[c] # "idle" => request[c] \in Requests
    /\ \A c \in Caller : plan[c] = Absent \/ plan[c] \in Plans
    /\ acked \in SUBSET Requests

\* the queue, which holds the clients whose operation has not ended,
QueueInOrder ==
    /\ \A i, j \in 1..Len(queue) : i # j => queue[i] # queue[j]
    /\ \A c \in Caller : pc[c] # "idle" <=> \E i \in 1..Len(queue) : queue[i] = c

AtWork(c) == pc[c] \in {"verify", "write", "commit"}

Served == [workflow |-> workflow, receipts |-> receipts, ok |-> TRUE]

\* the file,
FileReplays ==
    /\ Readable(file, unended, acked)
    /\ journalMode = "ready" => Replay(file).ok
    /\ journalMode = "corrupt" => ~Replay(file).ok

\* the client at work, who is the head of the queue of a service that is ready, and
\* whose candidate was computed from the memory that is still there,
WorkIsFenced ==
    \A c \in Caller : AtWork(c) =>
        /\ journalMode = "ready" /\ Head(queue) = c
        /\ Adopts(Served, request[c])
        /\ candidate[c] = After(Served, request[c]).workflow
        /\ pc[c] = "verify" => request[c].kind = "batch"

\* and the memory, which is the replay of the file but for a record not yet adopted.
MemoryFollows ==
    journalMode = "ready" =>
        /\ (\A c \in Caller : pc[c] # "commit") => Replay(file) = Served
        /\ \A c \in Caller : pc[c] = "commit" => Replay(file) = After(Served, request[c])

JournalIInv == Typed /\ QueueInOrder /\ FileReplays /\ WorkIsFenced /\ MemoryFollows

\* What is in memory is a state.
LEMMA ServedTyped ==
    ASSUME Typed
    PROVE  Served \in States /\ Served.workflow = workflow /\ Served.receipts = receipts /\ Served.ok
BY DEF Typed, Served, States

\* The end of the operation at the head of the queue.
LEMMA QueuePops ==
    ASSUME NEW c \in Caller, Typed, QueueInOrder, queue # <<>>, Head(queue) = c,
           queue' = Tail(queue), pc' = [pc EXCEPT ![c] = "idle"]
    PROVE  queue' \in Seq(Caller) /\ QueueInOrder'
<1> DEFINE m == Len(queue)
           q == Tail(queue)
<1>1. m \in Nat /\ m # 0 /\ q \in Seq(Caller) /\ Len(q) = m - 1 /\ queue[1] = c
    BY DEF Typed
<1>2. \A i \in 1..(m - 1) : q[i] = queue[i + 1]
    BY DEF Typed
<1>3. /\ \A i, j \in 1..m : i # j => queue[i] # queue[j]
      /\ \A d \in Caller : pc[d] # "idle" <=> \E i \in 1..m : queue[i] = d
    BY DEF QueueInOrder
<1>4. pc'[c] = "idle" /\ \A d \in Caller : d # c => pc'[d] = pc[d]
    BY DEF Typed
<1> HIDE DEF m, q
<1>5. \A i \in 1..(m - 1) : i + 1 \in 1..m /\ i + 1 # 1 /\ 1 \in 1..m
    BY <1>1
<1>6. \A i, j \in 1..(m - 1) : i # j => q[i] # q[j]
    <2> SUFFICES ASSUME NEW i \in 1..(m - 1), NEW j \in 1..(m - 1), i # j PROVE q[i] # q[j]
        OBVIOUS
    <2>1. i + 1 # j + 1
        BY <1>1
    <2>2. q[i] = queue[i + 1] /\ q[j] = queue[j + 1] /\ i + 1 \in 1..m /\ j + 1 \in 1..m
        BY <1>2, <1>5
    <2> QED BY <1>3, <2>1, <2>2
<1>7. \A i \in 1..(m - 1) : q[i] # c
    BY <1>1, <1>2, <1>3, <1>5
<1>8. \A i \in 1..m : i = 1 \/ (i - 1 \in 1..(m - 1) /\ (i - 1) + 1 = i)
    BY <1>1
<1>9. ASSUME NEW d \in Caller PROVE pc'[d] # "idle" <=> \E i \in 1..(m - 1) : q[i] = d
    <2>1. CASE d = c
        BY <1>4, <1>7, <2>1
    <2>2. CASE d # c
        <3>1. ASSUME NEW i \in 1..m, queue[i] = d PROVE \E j \in 1..(m - 1) : q[j] = d
            <4>1. i - 1 \in 1..(m - 1) /\ (i - 1) + 1 = i
                BY <1>1, <1>8, <2>2, <3>1
            <4>2. q[i - 1] = d
                BY <1>2, <3>1, <4>1
            <4> QED BY <4>1, <4>2
        <3>2. \A i \in 1..(m - 1) : q[i] = d => \E j \in 1..m : queue[j] = d
            BY <1>2, <1>5
        <3> QED BY <1>3, <1>4, <2>2, <3>1, <3>2
    <2> QED BY <2>1, <2>2
<1>10. queue' = q
    BY DEF q
<1>11. Len(queue') = m - 1
    BY <1>1, <1>10
<1> QED BY <1>1, <1>6, <1>9, <1>10, <1>11 DEF QueueInOrder

\* A new operation goes behind the others.
LEMMA QueueGrows ==
    ASSUME NEW c \in Caller, Typed, QueueInOrder, pc[c] = "idle",
           queue' = Append(queue, c), pc' = [pc EXCEPT ![c] = "queued"]
    PROVE  /\ queue' \in Seq(Caller) /\ QueueInOrder'
           /\ queue # <<>> => Head(queue') = Head(queue)
<1> DEFINE m == Len(queue)
           q == Append(queue, c)
<1>1. m \in Nat /\ q \in Seq(Caller) /\ Len(q) = m + 1 /\ q[m + 1] = c
    BY DEF Typed
<1>2. \A i \in 1..m : q[i] = queue[i]
    BY DEF Typed
<1>3. /\ \A i, j \in 1..m : i # j => queue[i] # queue[j]
      /\ \A d \in Caller : pc[d] # "idle" <=> \E i \in 1..m : queue[i] = d
    BY DEF QueueInOrder
<1>4. pc'[c] = "queued" /\ \A d \in Caller : d # c => pc'[d] = pc[d]
    BY DEF Typed
<1>0. queue # <<>> => Head(q) = Head(queue)
    BY DEF Typed
<1> HIDE DEF m, q
<1>5. \A i \in 1..(m + 1) : i = m + 1 \/ i \in 1..m
    BY <1>1
<1>6. m + 1 \in 1..(m + 1) /\ \A i \in 1..m : i \in 1..(m + 1)
    BY <1>1
<1>7. \A i \in 1..m : q[i] # c
    BY <1>2, <1>3
<1>8. \A i, j \in 1..(m + 1) : i # j => q[i] # q[j]
    BY <1>1, <1>2, <1>3, <1>5, <1>7
<1>9. ASSUME NEW d \in Caller PROVE pc'[d] # "idle" <=> \E i \in 1..(m + 1) : q[i] = d
    <2>1. CASE d = c
        BY <1>1, <1>4, <1>6, <2>1
    <2>2. CASE d # c
        BY <1>1, <1>2, <1>3, <1>4, <1>5, <1>6, <2>2
    <2> QED BY <2>1, <2>2
<1>10. queue' = q /\ Len(queue') = m + 1
    BY <1>1 DEF q
<1> QED BY <1>0, <1>1, <1>8, <1>9, <1>10 DEF QueueInOrder

\* Only the head of the queue is at work.
LEMMA HeadOfQueue ==
    ASSUME NEW c \in Caller, JournalIInv, AtWork(c)
    PROVE  queue # <<>> /\ Head(queue) = c
<1>1. Head(queue) = c /\ pc[c] # "idle"
    BY DEF JournalIInv, WorkIsFenced, AtWork
<1>2. queue # <<>>
    BY <1>1 DEF JournalIInv, QueueInOrder
<1> QED BY <1>1, <1>2

\* The operation of the head ends: nobody is at work.
LEMMA OperationEnds ==
    ASSUME NEW c \in Caller, JournalIInv, queue # <<>>, Head(queue) = c, pc[c] # "idle", NEW a, EndsWith(c, a)
    PROVE  /\ queue' \in Seq(Caller) /\ QueueInOrder'
           /\ pc' \in [Caller -> {"idle", "queued", "verify", "write", "commit"}]
           /\ DOMAIN request' = Caller /\ DOMAIN plan' = Caller /\ DOMAIN candidate' = Caller
           /\ \A d \in Caller : pc'[d] # "idle" => request'[d] \in Requests
           /\ \A d \in Caller : plan'[d] = Absent \/ plan'[d] \in Plans
           /\ acked' = IF a = "committed" THEN acked \cup {request[c]} ELSE acked
           /\ acked' \in SUBSET Requests /\ request[c] \in Requests
           /\ \A d \in Caller : ~AtWork(d)'
           /\ \A d \in Caller : pc'[d] # "commit"
<1>1. queue' \in Seq(Caller) /\ QueueInOrder'
    BY QueuePops DEF JournalIInv, EndsWith
<1>2. \A d \in Caller : d # c => ~AtWork(d)
    BY DEF JournalIInv, WorkIsFenced
<1>3. /\ pc \in [Caller -> {"idle", "queued", "verify", "write", "commit"}]
      /\ DOMAIN request = Caller /\ DOMAIN plan = Caller /\ DOMAIN candidate = Caller
      /\ \A d \in Caller : pc[d] # "idle" => request[d] \in Requests
      /\ \A d \in Caller : plan[d] = Absent \/ plan[d] \in Plans
      /\ acked \in SUBSET Requests
    BY DEF JournalIInv, Typed
<1>4. /\ pc' = [pc EXCEPT ![c] = "idle"] /\ request' = [request EXCEPT ![c] = Absent]
      /\ candidate' = [candidate EXCEPT ![c] = Absent] /\ plan' = plan
      /\ acked' = IF a = "committed" THEN acked \cup {request[c]} ELSE acked
    BY DEF EndsWith
<1>5. pc' \in [Caller -> {"idle", "queued", "verify", "write", "commit"}]
    BY <1>3, <1>4
<1>6. pc'[c] = "idle" /\ \A d \in Caller : d # c => pc'[d] = pc[d] /\ request'[d] = request[d]
    BY <1>3, <1>4
<1>7. \A d \in Caller : ~AtWork(d)' /\ pc'[d] # "commit"
    BY <1>2, <1>6 DEF AtWork
<1>8. \A d \in Caller : pc'[d] # "idle" => request'[d] \in Requests
    BY <1>3, <1>6
<1>9. DOMAIN request' = Caller /\ DOMAIN plan' = Caller /\ DOMAIN candidate' = Caller
    BY <1>3, <1>4
<1>10. request[c] \in Requests
    BY <1>3
<1>11. acked' \in SUBSET Requests
    BY <1>3, <1>4, <1>10
<1> QED BY <1>1, <1>3, <1>4, <1>5, <1>7, <1>8, <1>9, <1>10, <1>11

-----------------------------------------------------------------------------
(* The journal: the steps.                                                 *)

\* What a client that writes may append, and what an interruption may leave.
LEMMA FileGrowsByWork ==
    ASSUME NEW c \in Caller, JournalIInv, pc[c] = "write"
    PROVE  /\ ~unended /\ journalMode = "ready" /\ Replay(file) = Served
           /\ request[c] \in Requests /\ Adopts(Served, request[c])
           /\ \A d \in Caller : d # c => ~AtWork(d)
           /\ Append(file, request[c]) \in Seq(Lines)
           /\ Readable(Append(file, request[c]), FALSE, acked)
           /\ Replay(Append(file, request[c])) = After(Served, request[c])
           /\ Replay(Append(file, request[c])).ok
           /\ Append(file, Garbage) \in Seq(Lines)
           /\ Readable(Append(file, Garbage), TRUE, acked)
<1>1. AtWork(c)
    BY DEF AtWork
<1>2. journalMode = "ready" /\ Head(queue) = c /\ Adopts(Served, request[c])
    BY <1>1 DEF JournalIInv, WorkIsFenced
<1>3. \A d \in Caller : d # c => ~AtWork(d)
    BY <1>2 DEF JournalIInv, WorkIsFenced
<1>4. \A d \in Caller : pc[d] # "commit"
    BY <1>3 DEF AtWork
<1>5. Replay(file) = Served
    BY <1>2, <1>4 DEF JournalIInv, MemoryFollows
<1>6. Typed /\ file \in Seq(Lines) /\ unended \in BOOLEAN /\ acked \in SUBSET Requests /\ request[c] \in Requests
    BY DEF JournalIInv, Typed
<1>7. Replay(file).ok /\ Readable(file, unended, acked)
    BY <1>2 DEF JournalIInv, FileReplays
<1>8. ~unended
    BY <1>7 DEF Readable
<1>9. Readable(file, FALSE, acked)
    BY <1>6, <1>7, <1>8
<1>10. Adopts(Replay(file), request[c])
    BY <1>2, <1>5
<1>11. /\ Append(file, request[c]) \in Seq(Lines)
       /\ Readable(Append(file, request[c]), FALSE, acked)
       /\ Replay(Append(file, request[c])) = After(Replay(file), request[c])
       /\ Replay(Append(file, request[c])).ok
    BY <1>6, <1>7, <1>9, <1>10, FileTakesRequest
<1>12. /\ Append(file, Garbage) \in Seq(Lines)
       /\ Readable(Append(file, Garbage), TRUE, acked)
    BY <1>6, <1>9, FileTakesGarbage
<1> QED BY <1>2, <1>3, <1>5, <1>6, <1>8, <1>11, <1>12

\* An append that was cut off did not leave all of its line but the line end.
NewlineWritten == "allButNewline" \notin PartialWrite

\* What is left of an append that was cut off, if never all of it but its line end.
LEMMA InterruptedFile ==
    ASSUME NewlineWritten, NEW l, ~unended, Interrupted(l)
    PROVE  \/ file' = file /\ unended' = unended
           \/ file' = Append(file, Garbage) /\ unended' = TRUE
           \/ file' = Append(file, l) /\ unended' = FALSE
<1>1. \A k : Written(k) = Append(file, k)
    BY DEF Written
<1>2. PICK w \in PartialWrite :
        CASE w = "nothing" -> UNCHANGED disk
          [] w = "part" -> file' = Written(Garbage) /\ unended' = TRUE
          [] w = "allButNewline" -> file' = Written(l) /\ unended' = TRUE
          [] w = "whole" -> file' = Written(l) /\ unended' = FALSE
    BY DEF Interrupted
<1>3. w = "nothing" \/ w = "part" \/ w = "whole"
    BY JournalAssumption DEF NewlineWritten
<1>4. CASE w = "nothing"
    BY <1>2, <1>4 DEF disk
<1>5. CASE w = "part"
    BY <1>1, <1>2, <1>5
<1>6. CASE w = "whole"
    BY <1>1, <1>2, <1>6
<1> QED BY <1>3, <1>4, <1>5, <1>6

\* The invariant when an operation ends, given what became of file and memory.
LEMMA EndKeeps ==
    ASSUME NEW c \in Caller, JournalIInv, queue # <<>>, Head(queue) = c, pc[c] # "idle",
           NEW a, EndsWith(c, a),
           file' \in Seq(Lines), unended' \in BOOLEAN,
           workflow' \in Seq(Event), receipts' \in SUBSET Plans,
           journalMode' \in {"ready", "fenced", "corrupt"},
           atomic' \in {"unknown", "supported", "unsupported"},
           Readable(file', unended', acked'),
           journalMode' = "ready" => Replay(file') = Served',
           journalMode' = "corrupt" => ~Replay(file').ok
    PROVE  JournalIInv'
<1>1. /\ queue' \in Seq(Caller) /\ QueueInOrder'
      /\ pc' \in [Caller -> {"idle", "queued", "verify", "write", "commit"}]
      /\ DOMAIN request' = Caller /\ DOMAIN plan' = Caller /\ DOMAIN candidate' = Caller
      /\ \A d \in Caller : pc'[d] # "idle" => request'[d] \in Requests
      /\ \A d \in Caller : plan'[d] = Absent \/ plan'[d] \in Plans
      /\ acked' \in SUBSET Requests
      /\ \A d \in Caller : ~AtWork(d)'
      /\ \A d \in Caller : pc'[d] # "commit"
    BY OperationEnds
<1>2. Typed'
    BY <1>1 DEF Typed
<1>3. WorkIsFenced'
    BY <1>1 DEF WorkIsFenced
<1>4. Served'.ok
    BY DEF Served
<1>5. FileReplays'
    BY <1>4 DEF FileReplays
<1>6. MemoryFollows'
    BY <1>1 DEF MemoryFollows
<1> QED BY <1>1, <1>2, <1>3, <1>5, <1>6 DEF JournalIInv

\* An operation that ends and leaves the file and the memory alone.
LEMMA ReplyKeeps ==
    ASSUME NEW c \in Caller, JournalIInv, queue # <<>>, Head(queue) = c, pc[c] \notin {"idle", "commit"},
           NEW a, EndsWith(c, a), UNCHANGED <<disk, memory, journalMode, atomic>>,
           a = "committed" => journalMode = "ready" /\ Represents(Served, request[c])
    PROVE  JournalIInv'
<1>1. /\ file' = file /\ unended' = unended /\ workflow' = workflow /\ receipts' = receipts
      /\ journalMode' = journalMode /\ atomic' = atomic /\ Served' = Served
    BY DEF disk, memory, Served
<1>2. \A d \in Caller : d # c => ~AtWork(d)
    BY DEF JournalIInv, WorkIsFenced
<1>3. \A d \in Caller : pc[d] # "commit"
    BY <1>2 DEF AtWork
<1>4. journalMode = "ready" => Replay(file) = Served
    BY <1>3 DEF JournalIInv, MemoryFollows
<1>5. Readable(file, unended, acked) /\ (journalMode = "corrupt" => ~Replay(file).ok)
    BY DEF JournalIInv, FileReplays
<1>6. acked' = IF a = "committed" THEN acked \cup {request[c]} ELSE acked
    BY DEF EndsWith
<1>7. Readable(file, unended, acked')
    BY <1>4, <1>5, <1>6 DEF Readable
<1>8. /\ file \in Seq(Lines) /\ unended \in BOOLEAN /\ workflow \in Seq(Event) /\ receipts \in SUBSET Plans
      /\ journalMode \in {"ready", "fenced", "corrupt"} /\ atomic \in {"unknown", "supported", "unsupported"}
    BY DEF JournalIInv, Typed
<1>9. /\ file' \in Seq(Lines) /\ unended' \in BOOLEAN
      /\ workflow' \in Seq(Event) /\ receipts' \in SUBSET Plans
      /\ journalMode' \in {"ready", "fenced", "corrupt"}
      /\ atomic' \in {"unknown", "supported", "unsupported"}
    BY <1>1, <1>8
<1>10. /\ Readable(file', unended', acked')
       /\ journalMode' = "ready" => Replay(file') = Served'
       /\ journalMode' = "corrupt" => ~Replay(file').ok
    BY <1>1, <1>4, <1>5, <1>7
<1> QED BY <1>9, <1>10, EndKeeps

\* An operation that moves on without touching the file or the memory.
LEMMA MoveKeeps ==
    ASSUME NEW c \in Caller, JournalIInv, queue # <<>>, Head(queue) = c, pc[c] \in {"queued", "verify"},
           journalMode = "ready", NEW l \in {"verify", "write"}, Proceed(c, l),
           UNCHANGED <<disk, memory, journalMode, atomic>>,
           Adopts(Served, request[c]), DOMAIN candidate' = Caller,
           candidate'[c] = After(Served, request[c]).workflow,
           l = "verify" => request[c].kind = "batch"
    PROVE  JournalIInv'
<1>1. /\ file' = file /\ unended' = unended /\ workflow' = workflow /\ receipts' = receipts
      /\ journalMode' = journalMode /\ atomic' = atomic /\ Served' = Served
      /\ queue' = queue /\ request' = request /\ plan' = plan /\ acked' = acked
      /\ pc' = [pc EXCEPT ![c] = l]
    BY DEF disk, memory, Served, Proceed
<1>2. \A d \in Caller : d # c => ~AtWork(d)
    BY DEF JournalIInv, WorkIsFenced
<1>3. \A d \in Caller : pc[d] # "commit"
    BY <1>2 DEF AtWork
<1>4. Replay(file) = Served
    BY <1>3 DEF JournalIInv, MemoryFollows
<1>5. Typed /\ pc \in [Caller -> {"idle", "queued", "verify", "write", "commit"}]
    BY DEF JournalIInv, Typed
<1>6. /\ pc' \in [Caller -> {"idle", "queued", "verify", "write", "commit"}]
      /\ pc'[c] = l /\ \A d \in Caller : d # c => pc'[d] = pc[d]
    BY <1>1, <1>5
<1>7. \A d \in Caller : pc'[d] # "idle" <=> pc[d] # "idle"
    BY <1>6
<1>8. Typed'
    BY <1>1, <1>5, <1>6, <1>7 DEF Typed
<1>9. QueueInOrder'
    BY <1>1, <1>7 DEF QueueInOrder, JournalIInv
<1>10. FileReplays'
    BY <1>1 DEF FileReplays, JournalIInv
<1>11. WorkIsFenced'
    <2>1. \A d \in Caller : d # c => ~AtWork(d)'
        BY <1>2, <1>6 DEF AtWork
    <2>2. /\ journalMode' = "ready" /\ Head(queue') = c /\ Adopts(Served', request'[c])
          /\ candidate'[c] = After(Served', request'[c]).workflow
          /\ pc'[c] = "verify" => request'[c].kind = "batch"
        BY <1>1, <1>6
    <2> QED BY <2>1, <2>2 DEF WorkIsFenced
<1>12. MemoryFollows'
    BY <1>1, <1>3, <1>4, <1>6 DEF MemoryFollows
<1> QED BY <1>8, <1>9, <1>10, <1>11, <1>12 DEF JournalIInv

\* The record is on disk and its operation goes on to commit it.
LEMMA WrittenKeeps ==
    ASSUME NEW c \in Caller, JournalIInv, pc[c] = "write", Proceed(c, "commit"),
           file' = Append(file, request[c]), unended' = FALSE,
           UNCHANGED <<memory, journalMode, atomic, candidate>>
    PROVE  JournalIInv'
<1>1. /\ journalMode = "ready" /\ Adopts(Served, request[c])
      /\ \A d \in Caller : d # c => ~AtWork(d)
      /\ Append(file, request[c]) \in Seq(Lines)
      /\ Readable(Append(file, request[c]), FALSE, acked)
      /\ Replay(Append(file, request[c])) = After(Served, request[c])
      /\ Replay(Append(file, request[c])).ok
    BY FileGrowsByWork
<1>2. Head(queue) = c /\ candidate[c] = After(Served, request[c]).workflow
    BY DEF JournalIInv, WorkIsFenced, AtWork
<1>3. /\ workflow' = workflow /\ receipts' = receipts
      /\ journalMode' = journalMode /\ atomic' = atomic /\ Served' = Served /\ candidate' = candidate
      /\ queue' = queue /\ request' = request /\ plan' = plan /\ acked' = acked
      /\ pc' = [pc EXCEPT ![c] = "commit"]
    BY DEF memory, Served, Proceed
<1>4. Typed /\ pc \in [Caller -> {"idle", "queued", "verify", "write", "commit"}]
    BY DEF JournalIInv, Typed
<1>5. /\ pc' \in [Caller -> {"idle", "queued", "verify", "write", "commit"}]
      /\ pc'[c] = "commit" /\ \A d \in Caller : d # c => pc'[d] = pc[d]
    BY <1>3, <1>4
<1>6. \A d \in Caller : pc'[d] # "idle" <=> pc[d] # "idle"
    BY <1>5
<1>7. file' \in Seq(Lines) /\ unended' \in BOOLEAN
    BY <1>1
<1>8. Typed'
    BY <1>3, <1>4, <1>5, <1>6, <1>7 DEF Typed
<1>9. QueueInOrder'
    BY <1>3, <1>6 DEF QueueInOrder, JournalIInv
<1>10. FileReplays'
    BY <1>1, <1>3 DEF FileReplays
<1>11. \A d \in Caller : d # c => ~AtWork(d)' /\ pc'[d] # "commit"
    BY <1>1, <1>5 DEF AtWork
<1>12. WorkIsFenced'
    <2>1. /\ journalMode' = "ready" /\ Head(queue') = c /\ Adopts(Served', request'[c])
          /\ candidate'[c] = After(Served', request'[c]).workflow
          /\ pc'[c] # "verify"
        BY <1>1, <1>2, <1>3, <1>5
    <2> QED BY <1>11, <2>1 DEF WorkIsFenced
<1>13. MemoryFollows'
    <2>1. Replay(file') = After(Served', request'[c]) /\ pc'[c] = "commit"
        BY <1>1, <1>3, <1>5
    <2> QED BY <1>11, <2>1 DEF MemoryFollows
<1> QED BY <1>8, <1>9, <1>10, <1>12, <1>13 DEF JournalIInv

\* A write whose outcome is not known fences the service.
LEMMA UnknownKeeps ==
    ASSUME NEW c \in Caller, JournalIInv, pc[c] = "write", EndsWith(c, "unknown"), journalMode' = "fenced",
           UNCHANGED <<memory, atomic>>,
           \/ file' = file /\ unended' = unended
           \/ file' = Append(file, Garbage) /\ unended' = TRUE
           \/ file' = Append(file, request[c]) /\ unended' = FALSE
    PROVE  JournalIInv'
<1>1. queue # <<>> /\ Head(queue) = c /\ pc[c] # "idle"
    BY HeadOfQueue DEF AtWork
<1>2. acked' = acked
    BY DEF EndsWith
<1>3. file' \in Seq(Lines) /\ unended' \in BOOLEAN /\ Readable(file', unended', acked)
    <2>1. CASE file' = file /\ unended' = unended
        BY <2>1 DEF JournalIInv, Typed, FileReplays
    <2>2. CASE file' = Append(file, Garbage) /\ unended' = TRUE
        BY <2>2, FileGrowsByWork
    <2>3. CASE file' = Append(file, request[c]) /\ unended' = FALSE
        BY <2>3, FileGrowsByWork
    <2> QED BY <2>1, <2>2, <2>3
<1>4. /\ workflow' \in Seq(Event) /\ receipts' \in SUBSET Plans
      /\ atomic' \in {"unknown", "supported", "unsupported"}
    BY DEF JournalIInv, Typed, memory
<1> QED BY <1>1, <1>2, <1>3, <1>4, EndKeeps

\* The state takes what the file already holds.
LEMMA CommitKeeps ==
    ASSUME NEW c \in Caller, JournalIInv, CommitRecord(c)
    PROVE  JournalIInv'
<1>1. /\ pc[c] = "commit" /\ workflow' = candidate[c]
      /\ receipts' = IF request[c].kind = "batch" THEN receipts \cup {request[c].plan} ELSE receipts
      /\ EndsWith(c, "committed")
      /\ file' = file /\ unended' = unended /\ journalMode' = journalMode /\ atomic' = atomic
    BY DEF CommitRecord, disk
<1>2. AtWork(c) /\ pc[c] # "idle"
    BY <1>1 DEF AtWork
<1>3. queue # <<>> /\ Head(queue) = c
    BY <1>2, HeadOfQueue
<1>4. /\ journalMode = "ready" /\ Adopts(Served, request[c])
      /\ candidate[c] = After(Served, request[c]).workflow
    BY <1>2 DEF JournalIInv, WorkIsFenced
<1>5. Replay(file) = After(Served, request[c])
    BY <1>1, <1>4 DEF JournalIInv, MemoryFollows
<1>6. Typed /\ request[c] \in Requests
    BY <1>2 DEF JournalIInv, Typed
<1>7. /\ Served \in States /\ Served.workflow = workflow /\ Served.receipts = receipts /\ Served.ok
    BY <1>6, ServedTyped
<1>8. /\ After(Served, request[c]) \in States /\ After(Served, request[c]).ok
      /\ Represents(After(Served, request[c]), request[c])
    BY <1>6, <1>7, GrownWorkflow
<1>9. receipts' = After(Served, request[c]).receipts
    <2>1. CASE request[c].kind = "event"
        <3>1. After(Served, request[c]) = [Served EXCEPT !.workflow = Append(Served.workflow, request[c].event)]
            BY <2>1 DEF After
        <3>2. After(Served, request[c]).receipts = Served.receipts
            BY <1>7, <3>1 DEF States
        <3> QED BY <1>1, <1>7, <2>1, <3>2
    <2>2. CASE request[c].kind = "batch"
        <3>1. After(Served, request[c]) = [Served EXCEPT !.workflow = Served.workflow \o PlanEvents(request[c].plan),
                                                         !.receipts = Served.receipts \cup {request[c].plan}]
            BY <2>2 DEF After
        <3>2. After(Served, request[c]).receipts = Served.receipts \cup {request[c].plan}
            BY <1>7, <3>1 DEF States
        <3> QED BY <1>1, <1>7, <2>2, <3>2
    <2> QED BY <2>1, <2>2, <1>6, LineKinds DEF Requests
<1>10. After(Served, request[c]) = Served'
    <2>1. workflow' = After(Served, request[c]).workflow
        BY <1>1, <1>4
    <2> QED BY <1>8, <1>9, <2>1 DEF Served, States
<1>11. workflow' \in Seq(Event) /\ receipts' \in SUBSET Plans
    BY <1>1, <1>4, <1>8, <1>9 DEF States
<1>12. acked' = acked \cup {request[c]}
    BY <1>1 DEF EndsWith
<1>13. Readable(file, unended, acked)
    BY DEF JournalIInv, FileReplays
<1>14. Readable(file, unended, acked')
    BY <1>5, <1>8, <1>12, <1>13 DEF Readable
<1>15. /\ file' \in Seq(Lines) /\ unended' \in BOOLEAN
       /\ journalMode' \in {"ready", "fenced", "corrupt"}
       /\ atomic' \in {"unknown", "supported", "unsupported"}
    BY <1>1 DEF JournalIInv, Typed
<1>16. /\ Readable(file', unended', acked')
       /\ journalMode' = "ready" => Replay(file') = Served'
       /\ journalMode' = "corrupt" => ~Replay(file').ok
    BY <1>1, <1>4, <1>5, <1>10, <1>14
<1> QED BY <1>1, <1>2, <1>3, <1>11, <1>15, <1>16, EndKeeps

\* A request is queued.
LEMMA SubmitKeeps ==
    ASSUME NEW c \in Caller, JournalIInv, NEW r \in Requests, Submit(c, r)
    PROVE  JournalIInv'
<1>1. /\ file' = file /\ unended' = unended /\ workflow' = workflow /\ receipts' = receipts
      /\ journalMode' = journalMode /\ atomic' = atomic /\ Served' = Served
      /\ plan' = plan /\ candidate' = candidate /\ acked' = acked
      /\ pc[c] = "idle" /\ pc' = [pc EXCEPT ![c] = "queued"]
      /\ queue' = Append(queue, c) /\ request' = [request EXCEPT ![c] = r]
    BY DEF disk, memory, Served, Submit
<1>2. Typed /\ QueueInOrder /\ pc \in [Caller -> {"idle", "queued", "verify", "write", "commit"}]
    BY DEF JournalIInv, Typed
<1>3. queue' \in Seq(Caller) /\ QueueInOrder' /\ (queue # <<>> => Head(queue') = Head(queue))
    BY <1>1, <1>2, QueueGrows
<1>4. /\ pc' \in [Caller -> {"idle", "queued", "verify", "write", "commit"}]
      /\ pc'[c] = "queued" /\ \A d \in Caller : d # c => pc'[d] = pc[d]
    BY <1>1, <1>2
<1>5. /\ DOMAIN request' = Caller /\ request'[c] = r
      /\ \A d \in Caller : d # c => request'[d] = request[d]
    BY <1>1, <1>2 DEF Typed
<1>6. Typed'
    BY <1>1, <1>2, <1>3, <1>4, <1>5 DEF Typed
<1>7. FileReplays'
    BY <1>1 DEF FileReplays, JournalIInv
<1>8. \A d \in Caller : AtWork(d)' => d # c /\ AtWork(d) /\ queue # <<>>
    <2>1. \A d \in Caller : AtWork(d)' => d # c /\ AtWork(d)
        BY <1>4 DEF AtWork
    <2> QED BY <2>1, HeadOfQueue
<1>9. WorkIsFenced'
    <2> SUFFICES ASSUME NEW d \in Caller, AtWork(d)'
                 PROVE  /\ journalMode' = "ready" /\ Head(queue') = d
                        /\ Adopts(Served', request'[d])
                        /\ candidate'[d] = After(Served', request'[d]).workflow
                        /\ pc'[d] = "verify" => request'[d].kind = "batch"
        BY DEF WorkIsFenced
    <2>1. d # c /\ AtWork(d) /\ queue # <<>>
        BY <1>8
    <2>2. /\ journalMode = "ready" /\ Head(queue) = d
          /\ Adopts(Served, request[d])
          /\ candidate[d] = After(Served, request[d]).workflow
          /\ pc[d] = "verify" => request[d].kind = "batch"
        BY <2>1 DEF WorkIsFenced, JournalIInv
    <2> QED BY <1>1, <1>3, <1>4, <1>5, <2>1, <2>2
<1>10. MemoryFollows'
    <2>1. \A d \in Caller : pc'[d] = "commit" <=> pc[d] = "commit"
        BY <1>1, <1>4
    <2>2. \A d \in Caller : pc'[d] = "commit" => request'[d] = request[d]
        BY <1>4, <1>5
    <2>3. MemoryFollows
        BY DEF JournalIInv
    <2> QED BY <1>1, <2>1, <2>2, <2>3 DEF MemoryFollows
<1> QED BY <1>3, <1>6, <1>7, <1>9, <1>10 DEF JournalIInv

\* A plan is made.
LEMMA PreviewKeeps ==
    ASSUME NEW c \in Caller, NEW b \in Batch, JournalIInv, Preview(c, b)
    PROVE  JournalIInv'
<1>1. /\ file' = file /\ unended' = unended /\ workflow' = workflow /\ receipts' = receipts
      /\ journalMode' = journalMode /\ atomic' = atomic /\ Served' = Served
      /\ candidate' = candidate /\ acked' = acked /\ pc' = pc /\ queue' = queue /\ request' = request
      /\ plan' = [plan EXCEPT ![c] = [batch |-> b, base |-> workflow]]
    BY DEF disk, memory, Served, Preview
<1>2. [batch |-> b, base |-> workflow] \in Plans
    BY DEF Plans, JournalIInv, Typed
<1>3. DOMAIN plan' = Caller /\ \A d \in Caller : plan'[d] = Absent \/ plan'[d] \in Plans
    BY <1>1, <1>2 DEF JournalIInv, Typed
<1>4. Typed'
    BY <1>1, <1>3 DEF Typed, JournalIInv
<1>5. QueueInOrder'
    BY <1>1 DEF QueueInOrder, JournalIInv
<1>6. FileReplays'
    BY <1>1 DEF FileReplays, JournalIInv
<1>7. WorkIsFenced'
    BY <1>1 DEF WorkIsFenced, AtWork, JournalIInv
<1>8. MemoryFollows'
    BY <1>1 DEF MemoryFollows, JournalIInv
<1> QED BY <1>4, <1>5, <1>6, <1>7, <1>8 DEF JournalIInv

\* The probe is answered.
LEMMA ProbeKeeps ==
    ASSUME NEW c \in Caller, JournalIInv, Probe(c)
    PROVE  JournalIInv'
<1>1. /\ file' = file /\ unended' = unended /\ workflow' = workflow /\ receipts' = receipts
      /\ journalMode' = journalMode /\ Served' = Served /\ plan' = plan
      /\ candidate' = candidate /\ acked' = acked /\ pc' = pc /\ queue' = queue /\ request' = request
      /\ atomic' \in {"unknown", "supported", "unsupported"}
    BY DEF disk, memory, Served, Probe
<1>4. Typed'
    BY <1>1 DEF Typed, JournalIInv
<1>5. QueueInOrder'
    BY <1>1 DEF QueueInOrder, JournalIInv
<1>6. FileReplays'
    BY <1>1 DEF FileReplays, JournalIInv
<1>7. WorkIsFenced'
    BY <1>1 DEF WorkIsFenced, AtWork, JournalIInv
<1>8. MemoryFollows'
    BY <1>1 DEF MemoryFollows, JournalIInv
<1> QED BY <1>4, <1>5, <1>6, <1>7, <1>8 DEF JournalIInv

\* Nothing happens.
LEMMA StutterKeeps ==
    ASSUME JournalIInv, UNCHANGED journalVars
    PROVE  JournalIInv'
<1>1. /\ file' = file /\ unended' = unended /\ workflow' = workflow /\ receipts' = receipts
      /\ journalMode' = journalMode /\ Served' = Served /\ plan' = plan /\ atomic' = atomic
      /\ candidate' = candidate /\ acked' = acked /\ pc' = pc /\ queue' = queue /\ request' = request
    BY DEF journalVars, Served
<1>4. Typed'
    BY <1>1 DEF Typed, JournalIInv
<1>5. QueueInOrder'
    BY <1>1 DEF QueueInOrder, JournalIInv
<1>6. FileReplays'
    BY <1>1 DEF FileReplays, JournalIInv
<1>7. WorkIsFenced'
    BY <1>1 DEF WorkIsFenced, AtWork, JournalIInv
<1>8. MemoryFollows'
    BY <1>1 DEF MemoryFollows, JournalIInv
<1> QED BY <1>4, <1>5, <1>6, <1>7, <1>8 DEF JournalIInv

\* The process ends, whatever it was writing, and the file is replayed.
LEMMA ReopenKeeps ==
    ASSUME NewlineWritten, JournalIInv, Reopen
    PROVE  JournalIInv'
<1> DEFINE s == Replay(file')
<1>1. /\ LeftOnDisk
      /\ journalMode' = IF s.ok THEN "ready" ELSE "corrupt"
      /\ workflow' = s.workflow /\ receipts' = s.receipts
      /\ atomic' = "unknown" /\ queue' = <<>>
      /\ pc' = [c \in Caller |-> "idle"]
      /\ request' = [c \in Caller |-> Absent]
      /\ candidate' = [c \in Caller |-> Absent]
      /\ plan' = plan /\ acked' = acked
    BY DEF Reopen
<1>2. file' \in Seq(Lines) /\ unended' \in BOOLEAN /\ Readable(file', unended', acked)
    <2>1. CASE UNCHANGED disk
        BY <2>1 DEF JournalIInv, Typed, FileReplays, disk
    <2>2. ASSUME NEW c \in Caller, pc[c] = "write",
                 IF request[c].kind = "event" THEN Interrupted(request[c])
                 ELSE atomic = "supported" /\ Replaced(request[c])
          PROVE  file' \in Seq(Lines) /\ unended' \in BOOLEAN /\ Readable(file', unended', acked)
        <3>1. /\ ~unended
              /\ Append(file, request[c]) \in Seq(Lines)
              /\ Readable(Append(file, request[c]), FALSE, acked)
              /\ Append(file, Garbage) \in Seq(Lines)
              /\ Readable(Append(file, Garbage), TRUE, acked)
            BY <2>2, FileGrowsByWork
        <3>2. \/ file' = file /\ unended' = unended
              \/ file' = Append(file, Garbage) /\ unended' = TRUE
              \/ file' = Append(file, request[c]) /\ unended' = FALSE
            <4>1. CASE request[c].kind = "event"
                BY <2>2, <3>1, <4>1, InterruptedFile
            <4>2. CASE request[c].kind # "event"
                BY <2>2, <4>2 DEF Replaced
            <4> QED BY <4>1, <4>2
        <3>3. CASE file' = file /\ unended' = unended
            BY <3>3 DEF JournalIInv, Typed, FileReplays
        <3> QED BY <3>1, <3>2, <3>3
    <2> QED BY <1>1, <2>1, <2>2 DEF LeftOnDisk
<1>3. s \in States
    BY <1>2, ReplayTyped
<1> HIDE DEF s
<1>4. workflow' \in Seq(Event) /\ receipts' \in SUBSET Plans /\ s.ok \in BOOLEAN
    BY <1>1, <1>3 DEF States
<1>5. s.ok => Served' = s
    BY <1>1, <1>3 DEF Served, States
<1>6. Typed'
    <2>1. /\ \A c \in Caller : plan[c] = Absent \/ plan[c] \in Plans
          /\ DOMAIN plan = Caller /\ acked \in SUBSET Requests
        BY DEF JournalIInv, Typed
    <2>2. queue' \in Seq(Caller)
        BY <1>1
    <2>3. \A c \in Caller : pc'[c] = "idle"
        BY <1>1
    <2>4. journalMode' \in {"ready", "fenced", "corrupt"} /\ atomic' \in {"unknown", "supported", "unsupported"}
        BY <1>1
    <2>5. DOMAIN request' = Caller /\ DOMAIN candidate' = Caller /\ DOMAIN plan' = Caller
        BY <1>1, <2>1
    <2>6. pc' \in [Caller -> {"idle", "queued", "verify", "write", "commit"}]
        BY <1>1
    <2>7. /\ \A c \in Caller : plan'[c] = Absent \/ plan'[c] \in Plans
          /\ acked' \in SUBSET Requests
        BY <1>1, <2>1
    <2> QED BY <1>2, <1>4, <2>2, <2>3, <2>4, <2>5, <2>6, <2>7 DEF Typed
<1>7. \A c \in Caller : pc'[c] = "idle"
    BY <1>1
<1>8. QueueInOrder'
    <2>1. Len(queue') = 0
        BY <1>1
    <2> QED BY <1>7, <2>1 DEF QueueInOrder
<1>9. FileReplays'
    BY <1>1, <1>2 DEF FileReplays, s
<1>10. WorkIsFenced'
    BY <1>7 DEF WorkIsFenced, AtWork
<1>11. MemoryFollows'
    BY <1>1, <1>5, <1>7 DEF MemoryFollows, s
<1> QED BY <1>6, <1>8, <1>9, <1>10, <1>11 DEF JournalIInv

\* An empty file.
LEMMA InitHolds == JournalInit => JournalIInv
<1> SUFFICES ASSUME JournalInit PROVE JournalIInv
    OBVIOUS
<1>1. /\ file = <<>> /\ unended = FALSE /\ workflow = <<>> /\ receipts = {}
      /\ journalMode = "ready" /\ atomic = "unknown" /\ queue = <<>> /\ acked = {}
      /\ pc = [c \in Caller |-> "idle"] /\ request = [c \in Caller |-> Absent]
      /\ plan = [c \in Caller |-> Absent] /\ candidate = [c \in Caller |-> Absent]
    BY DEF JournalInit
<1>2. Replay(file) = Served /\ Replay(file).ok
    BY <1>1, ReplayEmpty DEF Unread, Served
<1>3. Typed
    <2>1. file \in Seq(Lines) /\ workflow \in Seq(Event) /\ queue \in Seq(Caller)
        BY <1>1
    <2> QED BY <1>1, <2>1 DEF Typed
<1>4. \A c \in Caller : pc[c] = "idle"
    BY <1>1
<1>5. Len(file) = 0 /\ Len(queue) = 0
    BY <1>1
<1>6. QueueInOrder
    BY <1>4, <1>5 DEF QueueInOrder
<1>7. FileReplays
    <2>1. 1..Len(file) = {}
        BY <1>5
    <2>2. Readable(file, unended, acked)
        BY <1>1, <1>2, <2>1 DEF Readable
    <2> QED BY <1>1, <1>2, <2>2 DEF FileReplays
<1>8. WorkIsFenced
    BY <1>4 DEF WorkIsFenced, AtWork
<1>9. MemoryFollows
    BY <1>2, <1>4 DEF MemoryFollows
<1> QED BY <1>3, <1>6, <1>7, <1>8, <1>9 DEF JournalIInv

\* An operation whose turn has come, and the verification of provenance.
LEMMA TakeKeeps ==
    ASSUME NEW c \in Caller, JournalIInv, TakeUnavailable(c) \/ TakeEvent(c) \/ TakeBatch(c) \/ Verify(c)
    PROVE  JournalIInv'
<1>0. /\ queue \in Seq(Caller) /\ DOMAIN candidate = Caller
      /\ pc[c] # "idle" => request[c] \in Requests
    BY DEF JournalIInv, Typed
<1>1. Typed /\ Served \in States /\ Served.workflow = workflow /\ Served.receipts = receipts /\ Served.ok
    BY ServedTyped DEF JournalIInv
<1>2. CASE TakeUnavailable(c)
    BY <1>2, ReplyKeeps DEF TakeUnavailable, Turn
<1>3. CASE TakeEvent(c)
    <2> DEFINE e == request[c].event
    <2>1. /\ pc[c] = "queued" /\ queue # <<>> /\ Head(queue) = c /\ journalMode = "ready"
          /\ request[c].kind = "event" /\ UNCHANGED <<disk, memory, journalMode, atomic>>
        BY <1>3 DEF TakeEvent, Turn, Available
    <2>2. CASE Applied(workflow, e) /\ EndsWith(c, "committed")
        <3>1. Represents(Served, request[c])
            BY <1>1, <2>1, <2>2 DEF Represents
        <3> QED BY <2>1, <2>2, <3>1, ReplyKeeps
    <2>3. CASE EndsWith(c, "refused")
        BY <2>1, <2>3, ReplyKeeps
    <2>4. CASE /\ ~Applied(workflow, e) /\ Applicable(workflow, e)
               /\ candidate' = [candidate EXCEPT ![c] = Append(workflow, e)]
               /\ Proceed(c, "write")
        <3>1. Adopts(Served, request[c])
            BY <1>1, <2>1, <2>4 DEF Adopts, Represents
        <3>2. After(Served, request[c]) = [Served EXCEPT !.workflow = Append(Served.workflow, e)]
            BY <2>1 DEF After
        <3>3. After(Served, request[c]).workflow = Append(workflow, e)
            BY <1>1, <3>2 DEF States
        <3>4. DOMAIN candidate' = Caller /\ candidate'[c] = Append(workflow, e)
            BY <1>0, <2>4
        <3> QED BY <2>1, <2>4, <3>1, <3>3, <3>4, MoveKeeps
    <2> QED BY <1>3, <2>2, <2>3, <2>4 DEF TakeEvent
<1>4. CASE TakeBatch(c)
    <2> DEFINE p == request[c].plan
    <2>1. /\ pc[c] = "queued" /\ queue # <<>> /\ Head(queue) = c /\ journalMode = "ready"
          /\ request[c].kind = "batch" /\ UNCHANGED <<disk, memory, journalMode, atomic>>
        BY <1>4 DEF TakeBatch, Turn, Available
    <2>2. CASE HasReceipt(p) /\ EndsWith(c, "committed")
        <3>1. Represents(Served, request[c])
            BY <1>1, <2>1, <2>2 DEF Represents, HasReceipt
        <3> QED BY <2>1, <2>2, <3>1, ReplyKeeps
    <2>3. CASE EndsWith(c, "refused")
        BY <2>1, <2>3, ReplyKeeps
    <2>4. CASE /\ ~HasReceipt(p) /\ PlanApplies(p)
               /\ candidate' = [candidate EXCEPT ![c] = workflow \o PlanEvents(p)]
               /\ Proceed(c, "verify")
        <3>1. Adopts(Served, request[c])
            BY <1>1, <2>1, <2>4 DEF Adopts, Represents, HasReceipt, PlanApplies
        <3>2. After(Served, request[c]) = [Served EXCEPT !.workflow = Served.workflow \o PlanEvents(p),
                                                         !.receipts = Served.receipts \cup {p}]
            BY <2>1 DEF After
        <3>3. After(Served, request[c]).workflow = workflow \o PlanEvents(p)
            BY <1>1, <3>2 DEF States
        <3>4. DOMAIN candidate' = Caller /\ candidate'[c] = workflow \o PlanEvents(p)
            BY <1>0, <2>4
        <3> QED BY <2>1, <2>4, <3>1, <3>3, <3>4, MoveKeeps
    <2> QED BY <1>4, <2>2, <2>3, <2>4 DEF TakeBatch
<1>5. CASE Verify(c)
    <2>1. /\ pc[c] = "verify" /\ UNCHANGED <<disk, memory, journalMode, atomic>>
          /\ EndsWith(c, "refused") \/ (Proceed(c, "write") /\ UNCHANGED candidate)
        BY <1>5 DEF Verify
    <2>2. queue # <<>> /\ Head(queue) = c
        BY <2>1, HeadOfQueue DEF AtWork
    <2>3. /\ journalMode = "ready" /\ Adopts(Served, request[c])
          /\ candidate[c] = After(Served, request[c]).workflow
        BY <2>1 DEF JournalIInv, WorkIsFenced, AtWork
    <2>4. CASE EndsWith(c, "refused")
        BY <2>1, <2>2, <2>4, ReplyKeeps
    <2>5. CASE Proceed(c, "write") /\ UNCHANGED candidate
        BY <1>0, <2>1, <2>2, <2>3, <2>5, MoveKeeps
    <2> QED BY <2>1, <2>4, <2>5
<1> QED BY <1>2, <1>3, <1>4, <1>5

\* Writes, those that fail and those whose outcome is not known.
LEMMA WriteKeeps ==
    ASSUME NewlineWritten, NEW c \in Caller, JournalIInv,
           \/ WriteEvent(c) \/ WriteEventFails(c) \/ WriteEventUnknown(c)
           \/ WriteBatch(c) \/ WriteBatchFails(c) \/ WriteBatchUnknown(c)
    PROVE  JournalIInv'
<1>1. pc[c] = "write"
    BY DEF WriteEvent, WriteEventFails, WriteEventUnknown, WriteBatch, WriteBatchFails, WriteBatchUnknown
<1>2. queue # <<>> /\ Head(queue) = c
    BY <1>1, HeadOfQueue DEF AtWork
<1>3. ~unended
    BY <1>1, FileGrowsByWork
<1>4. CASE WriteEvent(c)
    BY <1>1, <1>3, <1>4, WrittenKeeps DEF WriteEvent, Written
<1>5. CASE WriteEventFails(c)
    BY <1>1, <1>2, <1>5, ReplyKeeps DEF WriteEventFails
<1>6. CASE WriteEventUnknown(c)
    <2>1. /\ Interrupted(request[c]) /\ journalMode' = "fenced" /\ EndsWith(c, "unknown")
          /\ UNCHANGED <<memory, atomic>>
        BY <1>6 DEF WriteEventUnknown
    <2>2. \/ file' = file /\ unended' = unended
          \/ file' = Append(file, Garbage) /\ unended' = TRUE
          \/ file' = Append(file, request[c]) /\ unended' = FALSE
        BY <1>3, <2>1, InterruptedFile
    <2> QED BY <1>1, <2>1, <2>2, UnknownKeeps
<1>7. CASE WriteBatch(c)
    BY <1>1, <1>7, WrittenKeeps DEF WriteBatch, Replaced
<1>8. CASE WriteBatchFails(c)
    BY <1>1, <1>2, <1>8, ReplyKeeps DEF WriteBatchFails
<1>9. CASE WriteBatchUnknown(c)
    BY <1>1, <1>9, UnknownKeeps DEF WriteBatchUnknown, Replaced
<1> QED BY <1>4, <1>5, <1>6, <1>7, <1>8, <1>9

\* Every step.
LEMMA StepKeeps ==
    ASSUME NewlineWritten, JournalIInv, [JournalNext]_journalVars
    PROVE  JournalIInv'
<1>1. ASSUME NEW c \in Caller, Operation(c) PROVE JournalIInv'
    BY <1>1, TakeKeeps, WriteKeeps, ProbeKeeps, CommitKeeps DEF Operation
<1>2. ASSUME NEW c \in Caller, SubmitEvent(c) PROVE JournalIInv'
    <2>1. PICK e \in DirectEvent : Submit(c, EventLine(e))
        BY <1>2 DEF SubmitEvent
    <2>2. EventLine(e) \in Requests
        BY DEF EventLine, Requests, EventLines
    <2> QED BY <2>1, <2>2, SubmitKeeps
<1>3. ASSUME NEW c \in Caller, SubmitBatch(c) PROVE JournalIInv'
    <2>1. plan[c] \in Plans
        BY <1>3 DEF SubmitBatch, JournalIInv, Typed
    <2>2. BatchLine(plan[c]) \in Requests
        BY <2>1 DEF BatchLine, Requests, BatchLines
    <2> QED BY <1>3, <2>2, SubmitKeeps DEF SubmitBatch
<1>4. ASSUME NEW c \in Caller, NEW b \in Batch, Preview(c, b) PROVE JournalIInv'
    BY <1>4, PreviewKeeps
<1>5. CASE Reopen
    BY <1>5, ReopenKeeps
<1>6. CASE UNCHANGED journalVars
    BY <1>6, StutterKeeps
<1> QED BY <1>1, <1>2, <1>3, <1>4, <1>5, <1>6 DEF JournalNext

-----------------------------------------------------------------------------
(* The journal: the theorems.                                              *)

\* What was acknowledged is replayed.
LEMMA AnsweredSurvives == ASSUME JournalIInv PROVE AcknowledgedSurvives
BY DEF JournalIInv, FileReplays, Readable, AcknowledgedSurvives

\* A sequence is a strict prefix of itself and more.
LEMMA StrictPrefix ==
    ASSUME NEW S, NEW w \in Seq(S), NEW u \in Seq(S), u # <<>>
    PROVE  IsStrictPrefix(w, w \o u)
<1>1. Len(w) \in Nat /\ Len(u) \in Nat /\ Len(u) # 0 /\ Len(w \o u) = Len(w) + Len(u)
    OBVIOUS
<1>2. SubSeq(w, 1, Len(w)) = SubSeq(w \o u, 1, Len(w))
    OBVIOUS
<1>3. w # w \o u /\ Len(w) <= Len(w \o u)
    BY <1>1
<1> QED BY <1>2, <1>3 DEF IsStrictPrefix, IsPrefix

\* Memory and file agree.
LEMMA ReadyServes == ASSUME JournalIInv PROVE ServesWhatIsOnDisk
<1> DEFINE s == Replay(file)
<1>1. /\ ~s.ok => \E i \in 1..Len(file) : file[i] = Garbage
      /\ journalMode = "corrupt" => ~s.ok
      /\ \A i, j \in 1..Len(file) : (i # j /\ file[i] # Garbage) => file[i] # file[j]
      /\ \A i \in 1..Len(file) : file[i] \in Lines
    BY DEF JournalIInv, FileReplays, Readable, Typed
<1>2. journalMode = "corrupt" => \E i \in 1..Len(file) : file[i].kind = "garbage"
    BY <1>1, LineKinds
<1>3. \A i, j \in 1..Len(file) : (i # j /\ file[i].kind # "garbage") => file[i] # file[j]
    BY <1>1, LineKinds
<1>4. Typed /\ Served \in States /\ Served.workflow = workflow /\ Served.receipts = receipts /\ Served.ok
    BY ServedTyped DEF JournalIInv
<1>5. ASSUME journalMode = "ready", \A c \in Caller : pc[c] # "commit"
      PROVE  workflow = s.workflow /\ receipts = s.receipts
    BY <1>4, <1>5 DEF JournalIInv, MemoryFollows
<1>6. ASSUME journalMode = "ready", NEW c \in Caller, pc[c] = "commit"
      PROVE  IsStrictPrefix(workflow, s.workflow) \/ (workflow = s.workflow /\ receipts # s.receipts)
    <2>1. s = After(Served, request[c]) /\ Adopts(Served, request[c]) /\ request[c] \in Requests
        BY <1>6 DEF JournalIInv, MemoryFollows, WorkIsFenced, AtWork, Typed
    <2>2. workflow \in Seq(Event)
        BY <1>4 DEF Typed
    <2> HIDE DEF s
    <2>3. CASE request[c] \in EventLines
        <3> DEFINE e == request[c].event
        <3>1. request[c].kind = "event" /\ e \in Event
            BY <2>3, LineKinds
        <3>2. s = [Served EXCEPT !.workflow = Append(Served.workflow, e)]
            BY <2>1, <3>1 DEF After
        <3>3. s.workflow = Append(workflow, e)
            BY <1>4, <3>2 DEF States
        <3> HIDE DEF e
        <3>4. Append(workflow, e) = workflow \o <<e>> /\ <<e>> \in Seq(Event) /\ <<e>> # <<>>
            BY <2>2, <3>1
        <3> QED BY <2>2, <3>3, <3>4, StrictPrefix
    <2>4. CASE request[c] \in BatchLines
        <3> DEFINE p == request[c].plan
        <3>1. request[c].kind = "batch" /\ p \in Plans
            BY <2>4, LineKinds
        <3>2. PlanEvents(p) \in Seq(Event)
            BY <3>1, PlanEventsTyped
        <3>3. s = [Served EXCEPT !.workflow = Served.workflow \o PlanEvents(p),
                                 !.receipts = Served.receipts \cup {p}]
            BY <2>1, <3>1 DEF After
        <3>4. s.workflow = workflow \o PlanEvents(p) /\ s.receipts = receipts \cup {p}
            BY <1>4, <3>3 DEF States
        <3>5. p \notin receipts
            BY <1>4, <2>1, <3>1 DEF Adopts, Represents
        <3> HIDE DEF p
        <3>6. CASE PlanEvents(p) = <<>>
            BY <2>2, <3>4, <3>5, <3>6
        <3>7. CASE PlanEvents(p) # <<>>
            BY <2>2, <3>2, <3>4, <3>7, StrictPrefix
        <3> QED BY <3>6, <3>7
    <2> QED BY <2>1, <2>3, <2>4 DEF Requests
<1> HIDE DEF s
<1>7. journalMode = "ready" =>
        IF \E c \in Caller : pc[c] = "commit"
        THEN IsStrictPrefix(workflow, s.workflow) \/ (workflow = s.workflow /\ receipts # s.receipts)
        ELSE workflow = s.workflow /\ receipts = s.receipts
    BY <1>5, <1>6
<1> QED BY <1>2, <1>3, <1>7 DEF ServesWhatIsOnDisk, s

\* The invariant of the journal holds in every state, if no append is cut off just before
\* its line end.
THEOREM JournalInvariant == ASSUME NewlineWritten PROVE JournalSpec => []JournalIInv
<1>1. JournalInit => JournalIInv
    BY InitHolds
<1>2. JournalIInv /\ [JournalNext]_journalVars => JournalIInv'
    BY StepKeeps
<1> QED BY <1>1, <1>2, PTL DEF JournalSpec

\* TaskSealService over FileEventJournal: whatever fails, is torn or is cut off, an event
\* or batch that was answered "committed" is found by every later replay.
THEOREM AcknowledgedRecordsSurvive == ASSUME NewlineWritten PROVE JournalSpec => []AcknowledgedSurvives
<1>1. JournalIInv => AcknowledgedSurvives
    BY AnsweredSurvives
<1> QED BY <1>1, JournalInvariant, PTL

\* What a ready service shows is what reopening it would show, but for the record it is
\* about to adopt; no record is ever in the file twice, and only a torn line makes it
\* unreadable.
THEOREM ReadyServiceServesTheFile == ASSUME NewlineWritten PROVE JournalSpec => []ServesWhatIsOnDisk
<1>1. JournalIInv => ServesWhatIsOnDisk
    BY ReadyServes
<1> QED BY <1>1, JournalInvariant, PTL

-----------------------------------------------------------------------------
(* The attempts.                                                           *)

(***************************************************************************)
(* One entry of the coordinator's map.                                     *)
(***************************************************************************)

\* The phase says what was selected; a selection heeds the cancellation before
\* it and locks it out after; and the adapter keeps pace with the execution.
Coherent(e) ==
    /\ e.selected = "none" =>
        e.phase # "terminalizing" /\ (e.cancelRequested <=> e.phase = "cancelling")
    /\ e.selected # "none" =>
        e.phase = "terminalizing" /\ (e.cancelRequested <=> e.selected = "interrupt")
    /\ e.pc \in {"resolve", "start"} => e.adapter = "idle"
    /\ e.pc \in {"execute", "settle", "finish"} => e.adapter # "idle"
    /\ e.pc = "settle" => e.winner \in {"timeout", "cancelled"}
    /\ e.winner \in {"output", "error"} => e.adapter # "running"
    /\ e.pc = "finish" =>
        /\ e.selected # "none" /\ e.outcome # "none"
        /\ e.cancelRequested => e.outcome = "interrupted"

Good(e) == e \in Entry /\ Coherent(e)

\* Admission.
LEMMA NewEntryGood ==
    ASSUME NEW c \in {"none", "fenced", "active", "unavailable"}, NEW l \in {"resolve", "done"}
    PROVE  Good([NewEntry EXCEPT !.error = c, !.pc = l])
<1> DEFINE n == [NewEntry EXCEPT !.error = c, !.pc = l]
<1>1. n \in Entry
    BY DEF NewEntry, Entry
<1>2. /\ n.phase = "running" /\ n.cancelRequested = FALSE /\ n.pc = l
      /\ n.selected = "none" /\ n.winner = "none" /\ n.adapter = "idle"
    BY DEF NewEntry
<1> HIDE DEF n
<1>3. Good(n)
    BY <1>1, <1>2 DEF Good, Coherent
<1> QED BY <1>3 DEF n

\* cancel() and the abort of shutdown() reach runs that still heed them.
LEMMA CancelledGood ==
    ASSUME NEW e, Good(e), e.phase = "running"
    PROVE  /\ Good(Cancelled(e))
           /\ Cancelled(e).pc = e.pc /\ Cancelled(e).adapter = e.adapter
           /\ Cancelled(e).cancelRequested
    BY DEF Good, Entry, Coherent, Cancelled

\* beginTerminalization is idempotent.
LEMMA BeginGood ==
    ASSUME NEW e, Good(e)
    PROVE  /\ Good(Begin(e)) /\ Begin(e).selected # "none"
           /\ Begin(e).pc = e.pc /\ Begin(e).adapter = e.adapter
           /\ Begin(e).cancelRequested = e.cancelRequested
           /\ Begin(e).winner = e.winner
<1>1. CASE e.selected # "none"
    BY <1>1 DEF Begin
<1>2. CASE e.selected = "none"
    <2> DEFINE s == IF e.cancelRequested THEN "interrupt" ELSE "keep"
               b == [e EXCEPT !.phase = "terminalizing", !.selected = s]
    <2>1. Begin(e) = b
        BY <1>2 DEF Begin
    <2>2. b \in Entry
        BY DEF Good, Entry
    <2>3. /\ b.phase = "terminalizing" /\ b.selected = s
          /\ b.cancelRequested = e.cancelRequested /\ b.pc = e.pc
          /\ b.winner = e.winner /\ b.adapter = e.adapter /\ b.outcome = e.outcome
        BY DEF Good, Entry
    <2>4. s # "none" /\ (e.cancelRequested <=> s = "interrupt")
        OBVIOUS
    <2> HIDE DEF b, s
    <2>5. Coherent(b)
        BY <1>2, <2>3, <2>4 DEF Good, Coherent
    <2> QED BY <2>1, <2>2, <2>3, <2>4, <2>5 DEF Good
<1> QED BY <1>1, <1>2

\* A run that ends: what the catch block and the normal end of run() have in common.
LEMMA EndingGood ==
    ASSUME NEW e, Good(e), e.selected # "none", e.adapter # "idle",
           NEW o \in Outcome, e.selected = "interrupt" => o = "interrupted"
    PROVE  /\ \A c \in {"none", "adapter", "cleanup", "timeout", "cancelled"} :
                Good([e EXCEPT !.pc = "finish", !.outcome = o, !.error = c])
           /\ Good([e EXCEPT !.pc = "finish", !.outcome = o])
<1> SUFFICES ASSUME NEW c \in {"none", "adapter", "cleanup", "timeout", "cancelled"}
             PROVE  /\ Good([e EXCEPT !.pc = "finish", !.outcome = o, !.error = c])
                    /\ Good([e EXCEPT !.pc = "finish", !.outcome = o])
    OBVIOUS
<1> DEFINE f == [e EXCEPT !.pc = "finish", !.outcome = o, !.error = c]
           g == [e EXCEPT !.pc = "finish", !.outcome = o]
<1>1. f \in Entry /\ g \in Entry
    BY DEF Good, Entry
<1>2. /\ f.pc = "finish" /\ f.outcome = o /\ f.phase = e.phase /\ f.selected = e.selected
      /\ f.cancelRequested = e.cancelRequested /\ f.winner = e.winner /\ f.adapter = e.adapter
    BY DEF Good, Entry
<1>3. /\ g.pc = "finish" /\ g.outcome = o /\ g.phase = e.phase /\ g.selected = e.selected
      /\ g.cancelRequested = e.cancelRequested /\ g.winner = e.winner /\ g.adapter = e.adapter
    BY DEF Good, Entry
<1>4. o # "none"
    BY DEF Outcome
<1> HIDE DEF f, g
<1>5. Coherent(f) /\ Coherent(g)
    BY <1>2, <1>3, <1>4 DEF Good, Coherent
<1> QED BY <1>1, <1>5 DEF Good, f, g

\* A run that ends on an error, on its deadline or on a cancellation.
LEMMA ConcludedGood ==
    ASSUME NEW e, Good(e), e.adapter # "idle",
           NEW cause \in {"adapter", "cleanup", "timeout", "cancelled"}
    PROVE  /\ Good(Concluded(e, cause))
           /\ Concluded(e, cause).pc = "finish" /\ Concluded(e, cause).adapter = e.adapter
           /\ Concluded(e, cause).cancelRequested = e.cancelRequested
<1> DEFINE b == Begin(e)
           o == IF b.selected = "interrupt" THEN "interrupted" ELSE "failed"
           c == IF b.selected = "interrupt" /\ cause # "cleanup" THEN "none" ELSE cause
<1>1. Good(b) /\ b.selected # "none" /\ b.adapter = e.adapter
      /\ b.cancelRequested = e.cancelRequested
    BY BeginGood
<1>2. Concluded(e, cause) = [b EXCEPT !.pc = "finish", !.outcome = o, !.error = c]
    BY DEF Concluded
<1>3. /\ o \in Outcome /\ (b.selected = "interrupt" => o = "interrupted")
      /\ c \in {"none", "adapter", "cleanup", "timeout", "cancelled"}
    BY DEF Outcome
<1>e. b.adapter # "idle"
    BY <1>1
<1> HIDE DEF b, o, c
<1>4. Good([b EXCEPT !.pc = "finish", !.outcome = o, !.error = c])
    BY <1>1, <1>3, <1>e, EndingGood, Zenon
<1> QED BY <1>1, <1>2, <1>4 DEF Good, Entry

\* A run that ends with its adapter's output.
LEMMA DeliveredGood ==
    ASSUME NEW e, Good(e), e.adapter \in Outcome
    PROVE  /\ Good(Delivered(e))
           /\ Delivered(e).pc = "finish" /\ Delivered(e).adapter = e.adapter
           /\ Delivered(e).cancelRequested = e.cancelRequested
<1> DEFINE b == Begin(e)
           o == IF b.selected = "interrupt" THEN "interrupted" ELSE e.adapter
<1>1. Good(b) /\ b.selected # "none" /\ b.adapter = e.adapter
      /\ b.cancelRequested = e.cancelRequested
    BY BeginGood
<1>2. Delivered(e) = [b EXCEPT !.pc = "finish", !.outcome = o]
    BY DEF Delivered
<1>3. /\ o \in Outcome /\ (b.selected = "interrupt" => o = "interrupted")
      /\ e.adapter # "idle"
    BY DEF Outcome
<1>e. b.adapter # "idle"
    BY <1>1, <1>3
<1> HIDE DEF b, o
<1>4. Good([b EXCEPT !.pc = "finish", !.outcome = o])
    BY <1>1, <1>3, <1>e, EndingGood
<1> QED BY <1>1, <1>2, <1>4 DEF Good, Entry

\* A run that fails before its adapter is called, or whose end is not written.
LEMMA FailedGood ==
    ASSUME NEW e, Good(e), NEW code \in {"cwd", "append", "active"}
    PROVE  /\ Good(Failed(e, code))
           /\ Failed(e, code).pc = "done" /\ Failed(e, code).adapter = e.adapter
           /\ Failed(e, code).cancelRequested = e.cancelRequested
<1> DEFINE f == Failed(e, code)
<1>1. f \in Entry
    BY DEF Good, Entry, Failed
<1>2. /\ f.pc = "done" /\ f.phase = e.phase /\ f.selected = e.selected
      /\ f.cancelRequested = e.cancelRequested /\ f.winner = e.winner /\ f.adapter = e.adapter
    BY DEF Good, Entry, Failed
<1> HIDE DEF f
<1>3. Good(f)
    BY <1>1, <1>2 DEF Good, Coherent
<1> QED BY <1>2, <1>3 DEF f

\* The adapter is called.
LEMMA ExecutingGood ==
    ASSUME NEW e, Good(e), e.pc = "start"
    PROVE  /\ Good(Executing(e))
           /\ Executing(e).pc = "execute" /\ Executing(e).adapter = "running"
           /\ Executing(e).cancelRequested = e.cancelRequested
    BY DEF Good, Entry, Coherent, Executing

\* A step of the execution that concerns neither the adapter nor the end.
LEMMA MovedGood ==
    ASSUME NEW e, Good(e)
    PROVE  /\ e.pc = "resolve" => Good([e EXCEPT !.pc = "start"])
           /\ e.pc = "finish" => Good([e EXCEPT !.pc = "done"])
           /\ e.pc = "execute" /\ e.selected # "none" /\ e.winner \in {"timeout", "cancelled"} =>
                Good([e EXCEPT !.pc = "settle"])
           /\ e.pc = "execute" => Good([e EXCEPT !.winner = "timeout"])
<1>1. ASSUME NEW l \in {"start", "settle", "done"}
      PROVE  LET f == [e EXCEPT !.pc = l]
             IN  /\ f \in Entry /\ f.pc = l /\ f.phase = e.phase /\ f.selected = e.selected
                 /\ f.cancelRequested = e.cancelRequested
                 /\ f.winner = e.winner /\ f.adapter = e.adapter
    BY DEF Good, Entry
<1>2. LET f == [e EXCEPT !.winner = "timeout"]
      IN  /\ f \in Entry /\ f.winner = "timeout" /\ f.phase = e.phase /\ f.selected = e.selected
          /\ f.cancelRequested = e.cancelRequested /\ f.pc = e.pc /\ f.adapter = e.adapter
    BY DEF Good, Entry
<1>3. ASSUME e.pc = "resolve" PROVE Good([e EXCEPT !.pc = "start"])
    BY <1>1, <1>3 DEF Good, Coherent
<1>4. ASSUME e.pc = "finish" PROVE Good([e EXCEPT !.pc = "done"])
    BY <1>1, <1>4 DEF Good, Coherent
<1>5. ASSUME e.pc = "execute", e.selected # "none", e.winner \in {"timeout", "cancelled"}
      PROVE  Good([e EXCEPT !.pc = "settle"])
    BY <1>1, <1>5 DEF Good, Coherent
<1>6. ASSUME e.pc = "execute" PROVE Good([e EXCEPT !.winner = "timeout"])
    BY <1>2, <1>6 DEF Good, Coherent
<1> QED BY <1>3, <1>4, <1>5, <1>6

\* The adapter settles.
LEMMA SettledGood ==
    ASSUME NEW e, Good(e), e.adapter = "running", NEW s \in Settled,
           NEW win \in {"none", "output", "error", "timeout", "cancelled"},
           e.winner # "none" => win = e.winner
    PROVE  Good([e EXCEPT !.adapter = s, !.winner = win])
<1> DEFINE f == [e EXCEPT !.adapter = s, !.winner = win]
<1>1. f \in Entry
    BY DEF Good, Entry
<1>2. /\ f.pc = e.pc /\ f.phase = e.phase /\ f.selected = e.selected
      /\ f.cancelRequested = e.cancelRequested /\ f.winner = win /\ f.adapter = s
      /\ f.outcome = e.outcome
    BY DEF Good, Entry
<1>3. s \notin {"idle", "running"}
    BY DEF Settled, Outcome
<1> HIDE DEF f
<1>4. Good(f)
    BY <1>1, <1>2, <1>3 DEF Good, Coherent
<1> QED BY <1>4 DEF f
-----------------------------------------------------------------------------
(***************************************************************************)
(* The inductive invariant.                                                *)
(***************************************************************************)

Entries(r) == r \in [WorkItem -> Entry \cup {None}] /\ \A w \in WorkItem : r[w] # None => Coherent(r[w])

\* The attempt of an entry was started and is to be finished.
Started(w) == run[w] # None /\ run[w].pc \in {"execute", "settle", "finish"}

\* Between admission and startAttemptIfIdle.
Admitted(w) == run[w] # None /\ run[w].pc \in {"resolve", "start"}

\* The adapter of a run that is over still works.
Leaks(w) == run[w] # None /\ run[w].pc \in {"finish", "done"} /\ run[w].adapter = "running"

Inv ==
    /\ TypeOK
    /\ Entries(run)
    /\ service = "ready" => attempts = journal
    /\ \A w \in WorkItem : Started(w) => IsRunning(attempts[w])
    /\ mode = "recovering" => \A w \in WorkItem : run[w] = None

\* What the steps of one admitted run have in common.
Moves(w) ==
    /\ run[w] # None /\ run'[w] # None /\ Good(run'[w])
    /\ run' = [run EXCEPT ![w] = run'[w]]
    /\ run[w].cancelRequested => run'[w].cancelRequested
    /\ Admitted(w)' => Admitted(w)
    /\ Leaks(w)' => Leaks(w) \/ fence'
    /\ fence' \in BOOLEAN /\ (fence => fence')
    /\ fence' /\ ~fence => ~Admitted(w)'
    /\ UNCHANGED <<accepting, awaited, lingering, mode, process>>

\* Those that append nothing.
Continues(w) ==
    /\ Moves(w)
    /\ run'[w].adapter = "idle" <=> run[w].adapter = "idle"
    /\ Started(w)' => Started(w)
    /\ UNCHANGED store

LEMMA GoodEntry ==
    ASSUME NEW r, Entries(r), NEW w \in WorkItem, r[w] # None
    PROVE  Good(r[w])
    BY DEF Entries, Good

\* A good entry is an entry, and not None.
LEMMA GoodIsEntry ==
    ASSUME NEW e, Good(e)
    PROVE  /\ e \in Entry /\ e # None
           /\ e.cancelRequested \in BOOLEAN
           /\ e.adapter \in Settled \cup {"idle", "running"}
    BY NoneAssumption DEF Good, Entry

\* One entry may be replaced by a good one.
LEMMA EntryReplaced ==
    ASSUME NEW r, Entries(r), NEW w \in WorkItem, NEW x, Good(x) \/ x = None
    PROVE  Entries([r EXCEPT ![w] = x])
    BY DEF Entries, Good

LEMMA CancelContinues ==
    ASSUME Inv, NEW w \in WorkItem, Cancel(w)
    PROVE  Continues(w)
<1> DEFINE x == Cancelled(run[w])
<1>1. Good(run[w]) /\ run[w] # None /\ run[w].phase = "running"
    BY GoodEntry DEF Inv, Cancel
<1>2. Good(x) /\ x.pc = run[w].pc /\ x.adapter = run[w].adapter /\ x.cancelRequested
    BY <1>1, CancelledGood
<1>3. run' = [run EXCEPT ![w] = x]
    BY DEF Cancel
<1>4. run'[w] = x
    BY <1>3 DEF Inv, Entries
<1> HIDE DEF x
<1>5. x # None
    BY <1>2, GoodIsEntry
<1>6. /\ Admitted(w)' => Admitted(w)
      /\ Leaks(w)' => Leaks(w)
      /\ Started(w)' => Started(w)
    BY <1>1, <1>2, <1>4 DEF Admitted, Leaks, Started
<1> QED BY <1>1, <1>2, <1>3, <1>4, <1>5, <1>6 DEF Continues, Moves, Cancel, Inv, TypeOK

\* What a step that only sets the program counter or the winner leaves alone.
LEMMA FieldsKept ==
    ASSUME NEW e \in Entry
    PROVE  /\ \A l : LET f == [e EXCEPT !.pc = l]
                     IN  f.pc = l /\ f.adapter = e.adapter /\ f.cancelRequested = e.cancelRequested
           /\ \A v : LET f == [e EXCEPT !.winner = v]
                     IN  /\ f.pc = e.pc /\ f.adapter = e.adapter
                         /\ f.cancelRequested = e.cancelRequested
    BY DEF Entry

LEMMA ResolveCwdContinues ==
    ASSUME Inv, NEW w \in WorkItem, ResolveCwd(w)
    PROVE  Continues(w)
<1> DEFINE e == run[w]
<1>1. Good(e) /\ e \in Entry /\ e # None /\ e.pc = "resolve" /\ e.adapter = "idle"
    BY GoodEntry DEF Inv, ResolveCwd, At, Good, Coherent
<1> SUFFICES ASSUME NEW x, x = [e EXCEPT !.pc = "start"] \/ x = Failed(e, "cwd"),
                    run' = [run EXCEPT ![w] = x]
             PROVE  Continues(w)
    BY DEF ResolveCwd
<1>2. run'[w] = x
    BY DEF Inv, Entries
<1>3. /\ Good(x) /\ x.pc \in {"start", "done"}
      /\ x.adapter = "idle" /\ x.cancelRequested = e.cancelRequested
    <2>1. CASE x = [e EXCEPT !.pc = "start"]
        BY <1>1, <2>1, MovedGood, FieldsKept
    <2>2. CASE x = Failed(e, "cwd")
        BY <1>1, <2>2, FailedGood
    <2> QED BY <2>1, <2>2
<1>4. x # None
    BY <1>3, GoodIsEntry
<1> HIDE DEF e
<1>5. /\ Admitted(w)' => Admitted(w)
      /\ ~Leaks(w)' /\ ~Started(w)'
    BY <1>1, <1>2, <1>3 DEF Admitted, Leaks, Started, e
<1> QED BY <1>1, <1>2, <1>3, <1>4, <1>5 DEF Continues, Moves, ResolveCwd, Inv, TypeOK, e

LEMMA AdapterSettlesContinues ==
    ASSUME Inv, NEW w \in WorkItem, AdapterSettles(w)
    PROVE  Continues(w)
<1> DEFINE e == run[w]
<1>1. Good(e) /\ e \in Entry /\ e # None /\ e.adapter = "running"
    BY GoodEntry DEF Inv, AdapterSettles, Good
<1>2. PICK s \in Settled :
        run' = [run EXCEPT ![w].adapter = s,
                           ![w].winner = IF run[w].winner # "none" THEN @
                                         ELSE IF s \in Outcome \cup {"invalid"} THEN "output"
                                         ELSE "error"]
    BY DEF AdapterSettles
<1> DEFINE win == IF e.winner # "none" THEN e.winner
                  ELSE IF s \in Outcome \cup {"invalid"} THEN "output" ELSE "error"
           x == [e EXCEPT !.adapter = s, !.winner = win]
<1>3. run' = [run EXCEPT ![w] = x] /\ run'[w] = x
    BY <1>1, <1>2 DEF Inv, Entries, Entry
<1>4. /\ e.winner # "none" => win = e.winner
      /\ win \in {"none", "output", "error", "timeout", "cancelled"}
    BY <1>1 DEF Entry
<1>5. x.adapter = s /\ x.pc = e.pc /\ x.cancelRequested = e.cancelRequested
    BY <1>1 DEF Entry
<1> HIDE DEF win
<1>6. Good(x)
    BY <1>1, <1>4, SettledGood
<1>7. s \notin {"idle", "running"}
    BY DEF Settled, Outcome
<1> HIDE DEF e, x
<1>8. x # None
    BY <1>6, GoodIsEntry
<1>9. /\ Admitted(w)' => Admitted(w)
      /\ ~Leaks(w)' /\ (Started(w)' => Started(w))
    BY <1>1, <1>3, <1>5, <1>7 DEF Admitted, Leaks, Started, e
<1> QED BY <1>1, <1>3, <1>5, <1>6, <1>7, <1>8, <1>9
        DEF Continues, Moves, AdapterSettles, Inv, TypeOK, e

LEMMA ExpireContinues ==
    ASSUME Inv, NEW w \in WorkItem, Expire(w)
    PROVE  Continues(w)
<1> DEFINE e == run[w]
           b == Begin(e)
           x == [b EXCEPT !.winner = "timeout"]
<1>1. Good(e) /\ e # None /\ e.pc = "execute" /\ run' = [run EXCEPT ![w] = x]
    BY GoodEntry DEF Inv, Expire, At
<1>2. /\ Good(b) /\ b \in Entry /\ b.pc = "execute" /\ b.adapter = e.adapter
      /\ b.cancelRequested = e.cancelRequested
    BY <1>1, BeginGood DEF Good
<1>3. run'[w] = x
    BY <1>1 DEF Inv, Entries
<1> HIDE DEF e, b
<1>4. Good(x) /\ x.pc = "execute" /\ x.adapter = e.adapter /\ x.cancelRequested = e.cancelRequested
    BY <1>2, MovedGood, FieldsKept
<1> HIDE DEF x
<1>5. x # None
    BY <1>4, GoodIsEntry
<1>6. ~Admitted(w)' /\ ~Leaks(w)' /\ Started(w)
    BY <1>1, <1>3, <1>4 DEF Admitted, Leaks, Started, e
<1> QED BY <1>1, <1>3, <1>4, <1>5, <1>6 DEF Continues, Moves, Expire, Inv, TypeOK, e
\* A run that turns to its end, with an adapter that stopped or a fence.
LEMMA EndsContinues ==
    ASSUME Inv, NEW w \in WorkItem, Started(w),
           NEW x, Good(x), x.pc \in {"settle", "finish"}, x.adapter = run[w].adapter,
           x.cancelRequested = run[w].cancelRequested,
           x.pc = "finish" /\ x.adapter = "running" => fence',
           run' = [run EXCEPT ![w] = x],
           fence' \in BOOLEAN, fence => fence',
           UNCHANGED <<accepting, awaited, lingering, store, mode, process>>
    PROVE  Continues(w)
<1>1. run'[w] = x
    BY DEF Inv, Entries
<1>2. x # None
    BY GoodIsEntry
<1>3. ~Admitted(w)' /\ (Leaks(w)' => fence')
    BY <1>1 DEF Admitted, Leaks
<1> QED BY <1>1, <1>2, <1>3 DEF Continues, Moves, Started

LEMMA DecideContinues ==
    ASSUME Inv, NEW w \in WorkItem, Decide(w)
    PROVE  Continues(w)
<1> DEFINE e == run[w]
<1>1. Good(e) /\ e # None /\ e.pc = "execute" /\ e.adapter # "idle" /\ Started(w)
    BY GoodEntry DEF Inv, Decide, At, Good, Coherent, Started
<1>2. fence \in BOOLEAN /\ UNCHANGED <<accepting, awaited, lingering, store, mode, process>>
    BY DEF Inv, TypeOK, Decide
<1>3. CASE /\ e.winner = "output" /\ e.adapter \in Outcome
           /\ run' = [run EXCEPT ![w] = Delivered(e)] /\ UNCHANGED fence
    <2>1. e.adapter # "running"
        BY <1>3 DEF Outcome
    <2> QED BY <1>1, <1>2, <1>3, <2>1, DeliveredGood, EndsContinues
<1>4. CASE /\ e.winner = "output" /\ e.adapter = "invalid"
           /\ run' = [run EXCEPT ![w] = Concluded(e, "adapter")] /\ UNCHANGED fence
    BY <1>1, <1>2, <1>4, ConcludedGood, EndsContinues
<1>5. CASE LET cause == IF e.adapter = "cleanupFailed" THEN "cleanup" ELSE "adapter" IN
           /\ e.winner = "error"
           /\ run' = [run EXCEPT ![w] = Concluded(e, cause)]
           /\ fence' = Fenced(cause)
    <2> DEFINE cause == IF e.adapter = "cleanupFailed" THEN "cleanup" ELSE "adapter"
    <2>1. cause \in {"adapter", "cleanup"} /\ e.adapter # "running"
        BY <1>1, <1>5 DEF Good, Coherent
    <2>2. run' = [run EXCEPT ![w] = Concluded(e, cause)] /\ fence' = Fenced(cause)
        BY <1>5
    <2> HIDE DEF cause
    <2>3. fence' \in BOOLEAN /\ (fence => fence')
        BY <1>2, <2>2 DEF Fenced
    <2> QED BY <1>1, <1>2, <2>1, <2>2, <2>3, ConcludedGood, EndsContinues
<1>6. CASE /\ e.winner \in {"timeout", "cancelled"}
           /\ run' = [run EXCEPT ![w] = [Begin(e) EXCEPT !.pc = "settle"]] /\ UNCHANGED fence
    <2> DEFINE b == Begin(e)
    <2>1. /\ Good(b) /\ b \in Entry /\ b.selected # "none" /\ b.pc = "execute"
          /\ b.adapter = e.adapter /\ b.cancelRequested = e.cancelRequested
          /\ b.winner \in {"timeout", "cancelled"}
        BY <1>1, <1>6, BeginGood DEF Good
    <2> HIDE DEF b
    <2> DEFINE x == [b EXCEPT !.pc = "settle"]
    <2>2. Good(x) /\ x.pc = "settle" /\ x.adapter = e.adapter
          /\ x.cancelRequested = e.cancelRequested
        BY <2>1, MovedGood, FieldsKept
    <2>3. run' = [run EXCEPT ![w] = x]
        BY <1>6 DEF b
    <2> HIDE DEF x
    <2> QED BY <1>1, <1>2, <1>6, <2>2, <2>3, EndsContinues
<1> QED BY <1>3, <1>4, <1>5, <1>6 DEF Decide

LEMMA CleanupConfirmedContinues ==
    ASSUME Inv, NEW w \in WorkItem, CleanupConfirmed(w)
    PROVE  Continues(w)
<1> DEFINE e == run[w]
           cause == IF e.adapter = "cleanupFailed" THEN "cleanup" ELSE e.winner
<1>1. /\ Good(e) /\ e # None /\ e.pc = "settle" /\ e.adapter # "idle" /\ Started(w)
      /\ e.winner \in {"timeout", "cancelled"} /\ e.adapter # "running"
    BY GoodEntry DEF Inv, CleanupConfirmed, At, Good, Coherent, Started
<1>2. /\ fence \in BOOLEAN /\ UNCHANGED <<accepting, awaited, lingering, store, mode, process>>
      /\ run' = [run EXCEPT ![w] = Concluded(e, cause)] /\ fence' = Fenced(cause)
    BY DEF Inv, TypeOK, CleanupConfirmed
<1>3. cause \in {"adapter", "cleanup", "timeout", "cancelled"}
    BY <1>1
<1> HIDE DEF cause
<1>4. fence' \in BOOLEAN /\ (fence => fence')
    BY <1>2 DEF Fenced
<1> QED BY <1>1, <1>2, <1>3, <1>4, ConcludedGood, EndsContinues

LEMMA CleanupExpiresContinues ==
    ASSUME Inv, NEW w \in WorkItem, CleanupExpires(w)
    PROVE  Continues(w)
<1> DEFINE e == run[w]
<1>1. /\ Good(e) /\ e # None /\ e.pc = "settle" /\ e.adapter # "idle" /\ Started(w)
    BY GoodEntry DEF Inv, CleanupExpires, At, Good, Coherent, Started
<1>2. /\ UNCHANGED <<accepting, awaited, lingering, store, mode, process>>
      /\ run' = [run EXCEPT ![w] = Concluded(e, "cleanup")] /\ fence' = TRUE
    BY DEF CleanupExpires, Fenced
<1> QED BY <1>1, <1>2, ConcludedGood, EndsContinues
\* The attempts of a work item, and their last.
LEMMA LastAttempt ==
    ASSUME NEW h \in Seq(AttemptStatus)
    PROVE  /\ Append(h, "running") \in Seq(AttemptStatus)
           /\ IsRunning(Append(h, "running"))
           /\ Len(Append(h, "running")) = Len(h) + 1
           /\ Len(h) \in Nat
           /\ \A o \in Outcome : IsRunning(h) =>
                /\ Ended(h, o) \in Seq(AttemptStatus)
                /\ ~IsRunning(Ended(h, o))
                /\ Len(Ended(h, o)) = Len(h)
                /\ Ended(h, o) # h
<1>1. Append(h, "running") \in Seq(AttemptStatus) /\ Len(h) \in Nat
    BY DEF AttemptStatus
<1>2. IsRunning(Append(h, "running")) /\ Len(Append(h, "running")) = Len(h) + 1
    BY DEF IsRunning
<1>3. ASSUME NEW o \in Outcome, IsRunning(h)
      PROVE  /\ Ended(h, o) \in Seq(AttemptStatus)
             /\ ~IsRunning(Ended(h, o))
             /\ Len(Ended(h, o)) = Len(h)
             /\ Ended(h, o) # h
    <2>1. Len(h) \in 1 .. Len(h) /\ h[Len(h)] = "running"
        BY <1>1, <1>3 DEF IsRunning
    <2>2. Ended(h, o) \in Seq(AttemptStatus) /\ Len(Ended(h, o)) = Len(h)
        BY <2>1, ExceptSeq DEF Ended, AttemptStatus
    <2>3. Ended(h, o)[Len(h)] = o /\ o # "running"
        BY <2>1 DEF Ended, Outcome
    <2> QED BY <2>1, <2>2, <2>3 DEF IsRunning
<1> QED BY <1>1, <1>2, <1>3

LEMMA StartAttemptMoves ==
    ASSUME Inv, NEW w \in WorkItem, StartAttempt(w)
    PROVE  \/ /\ Moves(w) /\ ~Owns(w) /\ Owns(w)' /\ Admitted(w)
              /\ run'[w].cancelRequested = run[w].cancelRequested
              /\ CanBegin(w) /\ Commit(w, Append(attempts[w], "running"))
           \/ /\ Moves(w) /\ ~Owns(w) /\ ~Owns(w)' /\ ~Started(w)' /\ Admitted(w)
              /\ run'[w].cancelRequested = run[w].cancelRequested
              /\ CanBegin(w) /\ AppendFails(w, Append(attempts[w], "running"))
           \/ Continues(w)
<1> DEFINE e == run[w]
<1>1. Good(e) /\ e # None /\ e.pc = "start" /\ e.adapter = "idle"
    BY GoodEntry DEF Inv, StartAttempt, At, Good, Coherent
<1>2. fence \in BOOLEAN /\ UNCHANGED <<accepting, awaited, fence, lingering, mode, process>>
    BY DEF Inv, TypeOK, StartAttempt
<1>3. Admitted(w) /\ ~Owns(w)
    BY <1>1 DEF Admitted, Owns
<1>4. CASE /\ CanBegin(w) /\ Commit(w, Append(attempts[w], "running"))
           /\ run' = [run EXCEPT ![w] = Executing(e)]
    <2>1. /\ Good(Executing(e)) /\ Executing(e).pc = "execute" /\ Executing(e).adapter = "running"
          /\ Executing(e).cancelRequested = e.cancelRequested
        BY <1>1, ExecutingGood
    <2>2. run'[w] = Executing(e) /\ Executing(e) # None
        BY <1>4, <2>1, GoodIsEntry DEF Inv, Entries
    <2>3. Owns(w)' /\ ~Admitted(w)' /\ ~Leaks(w)'
        BY <2>1, <2>2 DEF Owns, Admitted, Leaks
    <2> QED BY <1>1, <1>2, <1>3, <1>4, <2>1, <2>2, <2>3 DEF Moves
<1>5. ASSUME NEW code \in {"append", "active"}, run' = [run EXCEPT ![w] = Failed(e, code)]
      PROVE  /\ Moves(w) /\ ~Owns(w)' /\ ~Started(w)'
             /\ run'[w].adapter = "idle" /\ run'[w].cancelRequested = e.cancelRequested
    <2>1. /\ Good(Failed(e, code)) /\ Failed(e, code).pc = "done"
          /\ Failed(e, code).adapter = "idle"
          /\ Failed(e, code).cancelRequested = e.cancelRequested
        BY <1>1, FailedGood
    <2>2. run'[w] = Failed(e, code) /\ Failed(e, code) # None
        BY <1>5, <2>1, GoodIsEntry DEF Inv, Entries
    <2>3. ~Owns(w)' /\ ~Started(w)' /\ ~Admitted(w)' /\ ~Leaks(w)'
        BY <2>1, <2>2 DEF Owns, Started, Admitted, Leaks
    <2> QED BY <1>1, <1>2, <1>5, <2>1, <2>2, <2>3 DEF Moves
<1>6. CASE /\ CanBegin(w) /\ AppendFails(w, Append(attempts[w], "running"))
           /\ run' = [run EXCEPT ![w] = Failed(e, "append")]
    BY <1>3, <1>5, <1>6
<1>7. CASE run' = [run EXCEPT ![w] = Failed(e, "active")] /\ UNCHANGED store
    BY <1>1, <1>5, <1>7 DEF Continues
<1> QED BY <1>4, <1>6, <1>7 DEF StartAttempt

LEMMA FinishMoves ==
    ASSUME Inv, NEW w \in WorkItem, Finish(w)
    PROVE  /\ Moves(w) /\ Owns(w) /\ Owns(w)' /\ Started(w) /\ ~Started(w)'
           /\ run'[w].cancelRequested = run[w].cancelRequested
           /\ run[w].outcome \in Outcome
           /\ run[w].cancelRequested => run[w].outcome = "interrupted"
           /\ \/ Commit(w, Ended(attempts[w], run[w].outcome))
              \/ AppendFails(w, Ended(attempts[w], run[w].outcome))
<1> DEFINE e == run[w]
<1>1. /\ Good(e) /\ e \in Entry /\ e # None /\ e.pc = "finish" /\ e.adapter # "idle"
      /\ e.outcome \in Outcome /\ (e.cancelRequested => e.outcome = "interrupted")
    BY GoodEntry DEF Inv, Finish, At, Good, Coherent, Entry
<1>2. fence \in BOOLEAN /\ UNCHANGED <<accepting, awaited, fence, lingering, mode, process>>
    BY DEF Inv, TypeOK, Finish
<1>3. Started(w) /\ Owns(w)
    BY <1>1 DEF Started, Owns
<1>4. PICK x \in {[e EXCEPT !.pc = "done"], Failed(e, "append")} : run' = [run EXCEPT ![w] = x]
    BY <1>1 DEF Finish
<1>5. /\ Good(x) /\ x.pc = "done" /\ x.adapter = e.adapter
      /\ x.cancelRequested = e.cancelRequested
    <2>1. CASE x = [e EXCEPT !.pc = "done"]
        BY <1>1, <2>1, MovedGood, FieldsKept
    <2>2. CASE x = Failed(e, "append")
        BY <1>1, <2>2, FailedGood
    <2> QED BY <1>4, <2>1, <2>2
<1>6. run'[w] = x /\ x # None
    BY <1>4, <1>5, GoodIsEntry DEF Inv, Entries
<1> HIDE DEF e
<1>7. /\ Owns(w)' /\ ~Started(w)' /\ ~Admitted(w)' /\ (Leaks(w)' => Leaks(w))
    BY <1>1, <1>5, <1>6 DEF Owns, Started, Admitted, Leaks, e
<1>8. Moves(w)
    BY <1>1, <1>2, <1>4, <1>5, <1>6, <1>7 DEF Moves, e
<1> QED BY <1>1, <1>3, <1>5, <1>6, <1>7, <1>8 DEF Finish, e
\* A step that moves one run keeps the entries, whatever it appends.
LEMMA MovesEntries ==
    ASSUME Inv, NEW w \in WorkItem, Moves(w)
    PROVE  /\ Entries(run')
           /\ \A v \in WorkItem : v # w => run'[v] = run[v]
           /\ mode = mode' /\ mode # "recovering"
           /\ run' \in [WorkItem -> Entry \cup {None}]
<1>1. Entries(run')
    BY EntryReplaced DEF Inv, Moves
<1>2. \A v \in WorkItem : v # w => run'[v] = run[v]
    BY DEF Moves, Inv, Entries
<1>3. mode' = mode /\ mode # "recovering"
    BY DEF Moves, Inv
<1> QED BY <1>1, <1>2, <1>3 DEF Entries

\* An append that succeeds or fails.
LEMMA AppendKeeps ==
    ASSUME Inv, NEW w \in WorkItem, NEW h \in Seq(AttemptStatus),
           Commit(w, h) \/ AppendFails(w, h)
    PROVE  /\ attempts' \in [WorkItem -> Seq(AttemptStatus)]
           /\ journal' \in [WorkItem -> Seq(AttemptStatus)]
           /\ service' \in {"ready", "fenced"}
           /\ service' = "ready" => attempts' = journal'
           /\ \A v \in WorkItem : v # w => attempts'[v] = attempts[v] /\ journal'[v] = journal[v]
           /\ Commit(w, h) => attempts'[w] = h /\ journal'[w] = h
           /\ journal'[w] \in {journal[w], h}
           /\ journal' # journal => service = "ready"
    BY DEF Inv, TypeOK, Commit, AppendFails

LEMMA StartedKept ==
    ASSUME Inv, NEW w \in WorkItem, Moves(w), Started(w)' => IsRunning(attempts'[w]),
           \A v \in WorkItem : v # w => attempts'[v] = attempts[v]
    PROVE  \A v \in WorkItem : Started(v)' => IsRunning(attempts'[v])
    BY MovesEntries DEF Inv, Started

LEMMA ContinuesInv ==
    ASSUME Inv, NEW w \in WorkItem, Continues(w)
    PROVE  Inv'
<1>1. Moves(w) /\ UNCHANGED store
    BY DEF Continues
<1>2. \A v \in WorkItem : Started(v)' => IsRunning(attempts'[v])
    BY <1>1, StartedKept DEF Continues, store, Inv
<1>3. TypeOK'
    BY <1>1, MovesEntries DEF Inv, TypeOK, Moves, store, process
<1> QED BY <1>1, <1>2, <1>3, MovesEntries DEF Inv, store

LEMMA StartAttemptInv ==
    ASSUME Inv, NEW w \in WorkItem, StartAttempt(w)
    PROVE  Inv'
<1> DEFINE h == Append(attempts[w], "running")
<1>1. attempts[w] \in Seq(AttemptStatus)
    BY DEF Inv, TypeOK
<1>2. h \in Seq(AttemptStatus) /\ IsRunning(h)
    BY <1>1, LastAttempt
<1>3. CASE Continues(w)
    BY <1>3, ContinuesInv
<1>4. CASE Moves(w) /\ (Commit(w, h) \/ (AppendFails(w, h) /\ ~Started(w)'))
    <2> HIDE DEF h
    <2>1. Started(w)' => IsRunning(attempts'[w])
        BY <1>2, <1>4, AppendKeeps
    <2>2. \A v \in WorkItem : Started(v)' => IsRunning(attempts'[v])
        BY <1>2, <1>4, <2>1, AppendKeeps, StartedKept
    <2>3. TypeOK'
        BY <1>2, <1>4, AppendKeeps, MovesEntries DEF Inv, TypeOK, Moves, process
    <2> QED BY <1>2, <1>4, <2>2, <2>3, AppendKeeps, MovesEntries DEF Inv
<1> QED BY <1>3, <1>4, StartAttemptMoves

LEMMA FinishInv ==
    ASSUME Inv, NEW w \in WorkItem, Finish(w)
    PROVE  Inv'
<1> DEFINE h == Ended(attempts[w], run[w].outcome)
<1>1. attempts[w] \in Seq(AttemptStatus) /\ IsRunning(attempts[w])
    BY FinishMoves DEF Inv, TypeOK
<1>2. h \in Seq(AttemptStatus)
    BY <1>1, FinishMoves, LastAttempt
<1>3. Moves(w) /\ ~Started(w)' /\ (Commit(w, h) \/ AppendFails(w, h))
    BY FinishMoves
<1> HIDE DEF h
<1>4. \A v \in WorkItem : Started(v)' => IsRunning(attempts'[v])
    BY <1>2, <1>3, AppendKeeps, StartedKept
<1>5. TypeOK'
    BY <1>2, <1>3, AppendKeeps, MovesEntries DEF Inv, TypeOK, Moves, process
<1> QED BY <1>2, <1>3, <1>4, <1>5, AppendKeeps, MovesEntries DEF Inv

\* start()
LEMMA StartInv ==
    ASSUME Inv, NEW w \in WorkItem, Start(w)
    PROVE  /\ Inv' /\ run' = [run EXCEPT ![w] = run'[w]] /\ run'[w] # None
           /\ ~run'[w].cancelRequested /\ run'[w].adapter = "idle"
           /\ fence => ~Admitted(w)'
<1> DEFINE x == [NewEntry EXCEPT !.error = Refusal(w),
                                 !.pc = IF Refusal(w) = "none" THEN "resolve" ELSE "done"]
<1>1. run' = [run EXCEPT ![w] = x]
    BY DEF Start
<1>2. Refusal(w) \in {"none", "fenced", "active", "unavailable"}
    BY DEF Refusal
<1>3. Good(x)
    BY <1>2, NewEntryGood
<1>4. /\ x.pc = (IF Refusal(w) = "none" THEN "resolve" ELSE "done")
      /\ x.cancelRequested = FALSE /\ x.adapter = "idle"
    BY DEF NewEntry
<1> HIDE DEF x
<1>5. run'[w] = x /\ x # None
    BY <1>1, <1>3, GoodIsEntry DEF Inv, Entries
<1>6. Entries(run')
    BY <1>1, <1>3, EntryReplaced DEF Inv
<1>7. \A v \in WorkItem : v # w => run'[v] = run[v]
    BY <1>1 DEF Inv, Entries
<1>8. ~Started(w)' /\ (fence => ~Admitted(w)')
    BY <1>4, <1>5 DEF Started, Admitted, Refusal
<1>9. \A v \in WorkItem : Started(v)' => IsRunning(attempts'[v])
    BY <1>7, <1>8 DEF Inv, Started, Start, store
<1>10. Inv'
    BY <1>6, <1>9 DEF Inv, TypeOK, Start, store, process, Entries
<1> QED BY <1>1, <1>4, <1>5, <1>8, <1>10

LEMMA ReleaseInv ==
    ASSUME Inv, NEW w \in WorkItem, Release(w)
    PROVE  /\ Inv' /\ run' = [run EXCEPT ![w] = None] /\ run'[w] = None
<1>1. run' = [run EXCEPT ![w] = None] /\ run'[w] = None
    BY DEF Release, Inv, Entries
<1>2. Entries(run')
    BY <1>1, EntryReplaced DEF Inv
<1>3. \A v \in WorkItem : v # w => run'[v] = run[v]
    BY <1>1 DEF Inv, Entries
<1>4. \A v \in WorkItem : Started(v)' => IsRunning(attempts'[v])
    BY <1>1, <1>3 DEF Inv, Started, Release, store
<1>5. lingering' \subseteq WorkItem
    BY DEF Release, Inv, TypeOK
<1>6. \A v \in WorkItem : run[v] = None => run'[v] = None
    BY <1>1, <1>3
<1> QED BY <1>1, <1>2, <1>4, <1>5, <1>6 DEF Inv, TypeOK, Release, store, process, Entries

\* recoverRunningAttempts
LEMMA RecoverInv ==
    ASSUME Inv, NEW w \in WorkItem, Recover(w)
    PROVE  Inv'
<1>1. /\ attempts[w] \in Seq(AttemptStatus) /\ IsRunning(attempts[w])
      /\ Ended(attempts[w], "interrupted") \in Seq(AttemptStatus)
    BY LastAttempt DEF Inv, TypeOK, Recover, Outcome
<1>2. \A v \in WorkItem : ~Started(v)'
    BY DEF Recover, Inv, Started
<1> QED BY <1>1, <1>2, AppendKeeps DEF Inv, TypeOK, Recover, process, Entries

\* shutdown()
LEMMA ShutdownEntries ==
    ASSUME Inv, AbortRunning
    PROVE  /\ Entries(run')
           /\ \A w \in WorkItem :
                /\ run'[w] = None <=> run[w] = None
                /\ run[w] # None =>
                    /\ run'[w].pc = run[w].pc /\ run'[w].adapter = run[w].adapter
                    /\ run[w].cancelRequested => run'[w].cancelRequested
<1>1. run' = [w \in WorkItem |->
                IF run[w] # None /\ run[w].phase = "running" THEN Cancelled(run[w]) ELSE run[w]]
    BY DEF AbortRunning
<1>2. ASSUME NEW w \in WorkItem
      PROVE  /\ Good(run'[w]) \/ run'[w] = None
             /\ run'[w] = None <=> run[w] = None
             /\ run[w] # None =>
                    /\ run'[w].pc = run[w].pc /\ run'[w].adapter = run[w].adapter
                    /\ run[w].cancelRequested => run'[w].cancelRequested
    <2>1. CASE run[w] # None /\ run[w].phase = "running"
        <3>1. Good(run[w]) /\ run'[w] = Cancelled(run[w])
            BY <1>1, <2>1, GoodEntry DEF Inv
        <3> QED BY <2>1, <3>1, CancelledGood, GoodIsEntry
    <2>2. CASE ~(run[w] # None /\ run[w].phase = "running")
        <3>1. run'[w] = run[w]
            BY <1>1, <2>2
        <3> QED BY <3>1, GoodEntry DEF Inv
    <2> QED BY <2>1, <2>2
<1>3. Entries(run')
    BY <1>1, <1>2 DEF Entries, Good
<1> QED BY <1>2, <1>3

LEMMA ShutdownInv ==
    ASSUME Inv, Shutdown
    PROVE  Inv'
<1>1. Entries(run') /\ \A v \in WorkItem : Started(v)' => Started(v)
    BY ShutdownEntries DEF Shutdown, Started
<1> QED BY <1>1 DEF Inv, TypeOK, Shutdown, Active, store, process, Entries

\* A restart is left with what is on disk.
LEMMA RestartInv ==
    ASSUME Inv, Restart
    PROVE  Inv'
<1>1. Entries(run') /\ \A v \in WorkItem : run'[v] = None
    BY DEF Restart, Entries
<1>2. restarts' \in 0 .. MaxRestarts
    BY BoundAssumption DEF Inv, TypeOK, Restart
<1>3. TypeOK'
    BY <1>1, <1>2 DEF Inv, TypeOK, Restart, Entries
<1> QED BY <1>1, <1>3 DEF Inv, Restart, Started
LEMMA InitInv == Init => Inv
<1> SUFFICES ASSUME Init PROVE Inv
    OBVIOUS
<1>1. <<>> \in Seq(AttemptStatus) /\ 0 \in 0 .. MaxRestarts
    BY BoundAssumption
<1>2. TypeOK
    BY <1>1 DEF Init, TypeOK
<1> QED BY <1>2 DEF Init, Inv, Entries, Started

\* Every step is one of these.
LEMMA NextInv ==
    ASSUME Inv, [Next]_vars
    PROVE  Inv'
<1>1. ASSUME NEW w \in WorkItem, Start(w) PROVE Inv'
    BY <1>1, StartInv
<1>2. ASSUME NEW w \in WorkItem, Cancel(w) PROVE Inv'
    BY <1>2, CancelContinues, ContinuesInv
<1>3. ASSUME NEW w \in WorkItem, Progress(w) PROVE Inv'
    BY <1>3, ResolveCwdContinues, StartAttemptInv, ExpireContinues, DecideContinues,
       CleanupConfirmedContinues, CleanupExpiresContinues, FinishInv, ReleaseInv, ContinuesInv
    DEF Progress
<1>4. ASSUME NEW w \in WorkItem, AdapterSettles(w) PROVE Inv'
    BY <1>4, AdapterSettlesContinues, ContinuesInv
<1>5. ASSUME NEW w \in WorkItem, Recover(w) PROVE Inv'
    BY <1>5, RecoverInv
<1>6. CASE Shutdown
    BY <1>6, ShutdownInv
<1>7. CASE ShutdownDone \/ Serve
    BY <1>7 DEF ShutdownDone, Serve, Inv, TypeOK, Started, store, process
<1>8. CASE LingeringEnds
    BY <1>8 DEF LingeringEnds, Inv, TypeOK, Started, store, process
<1>9. CASE Restart
    BY <1>9, RestartInv
<1>10. CASE UNCHANGED vars
    BY <1>10 DEF vars, Inv, TypeOK, Started
<1> QED BY <1>1, <1>2, <1>3, <1>4, <1>5, <1>6, <1>7, <1>8, <1>9, <1>10 DEF Next

\* The state of coordinator, host and service has its type, through every failed
\* append, shutdown and restart.
THEOREM RunsAreTyped == Spec => []TypeOK
<1>1. Inv => TypeOK
    BY DEF Inv
<1> QED BY <1>1, InitInv, NextInv, PTL DEF Spec
-----------------------------------------------------------------------------
(***************************************************************************)
(* The journal, and what a cancellation was promised.                      *)
(***************************************************************************)

\* Which steps write: an attempt begins, or the running one ends - interrupted,
\* when its run was cancelled or is gone.
Writes(w) ==
    /\ \A v \in WorkItem : v # w => journal'[v] = journal[v] /\ run'[v] = run[v]
    /\ \/ /\ ~IsRunning(journal[w]) /\ journal'[w] = Append(journal[w], "running")
          /\ run[w] # None /\ run'[w] # None /\ ~Owns(w)
          /\ run'[w].cancelRequested = run[w].cancelRequested
       \/ /\ IsRunning(journal[w])
          /\ run[w] # None /\ run'[w] # None /\ Owns(w) /\ Owns(w)'
          /\ run'[w].cancelRequested = run[w].cancelRequested
          /\ run[w].outcome \in Outcome
          /\ run[w].cancelRequested => run[w].outcome = "interrupted"
          /\ journal'[w] = Ended(journal[w], run[w].outcome)
       \/ /\ IsRunning(journal[w])
          /\ run[w] = None /\ run'[w] = None
          /\ journal'[w] = Ended(journal[w], "interrupted")

\* Nothing a work item was promised is taken back.
KeepsFor(w) ==
    run'[w] # None =>
        /\ run[w] # None /\ run[w].cancelRequested => run'[w].cancelRequested
        /\ Owns(w)' => Owns(w)

\* A step writes for one work item, or keeps the promises to all.
LEMMA JournalStep ==
    ASSUME Inv, [Next]_vars
    PROVE  \/ \E w \in WorkItem : Writes(w)
           \/ UNCHANGED journal /\ \A w \in WorkItem : KeepsFor(w)
<1> DEFINE Kept == UNCHANGED journal /\ \A w \in WorkItem : KeepsFor(w)
<1>0. ASSUME NEW w \in WorkItem, Continues(w)
      PROVE  Kept
    <2>1. KeepsFor(w)
        BY <1>0 DEF Continues, Moves, KeepsFor, Owns
    <2>2. \A v \in WorkItem : v # w => KeepsFor(v)
        BY <1>0, MovesEntries DEF Continues, KeepsFor, Owns
    <2> QED BY <1>0, <2>1, <2>2 DEF Continues, store
<1>1. ASSUME NEW w \in WorkItem, Start(w) PROVE Kept
    <2>1. \A v \in WorkItem : v # w => run'[v] = run[v]
        BY <1>1, StartInv DEF Inv, Entries
    <2>2. KeepsFor(w)
        BY <1>1, StartInv DEF Start, KeepsFor, Owns
    <2> QED BY <1>1, <2>1, <2>2 DEF Start, store, KeepsFor, Owns
<1>2. ASSUME NEW w \in WorkItem, Release(w) PROVE Kept
    <2>1. \A v \in WorkItem : v # w => run'[v] = run[v]
        BY <1>2, ReleaseInv DEF Inv, Entries
    <2> QED BY <1>2, <2>1, ReleaseInv DEF Release, store, KeepsFor, Owns
<1>3. ASSUME Shutdown PROVE Kept
    BY <1>3, ShutdownEntries DEF Shutdown, store, KeepsFor, Owns
<1>4. ASSUME Restart PROVE Kept
    BY <1>4 DEF Restart, KeepsFor
<1>5. ASSUME ShutdownDone \/ Serve \/ LingeringEnds \/ UNCHANGED vars PROVE Kept
    BY <1>5 DEF ShutdownDone, Serve, LingeringEnds, vars, store, KeepsFor, Owns
<1>6. ASSUME NEW w \in WorkItem, NEW h \in Seq(AttemptStatus), Moves(w),
             Commit(w, h) \/ AppendFails(w, h), journal'[w] # h,
             run'[w].cancelRequested = run[w].cancelRequested, Owns(w)' => Owns(w)
      PROVE  Kept
    <2>1. UNCHANGED journal
        BY <1>6 DEF Commit, AppendFails, Inv, TypeOK
    <2>2. \A v \in WorkItem : v # w => KeepsFor(v)
        BY <1>6, MovesEntries DEF KeepsFor, Owns
    <2> QED BY <1>6, <2>1, <2>2 DEF KeepsFor
<1>7. ASSUME NEW w \in WorkItem, StartAttempt(w)
      PROVE  Kept \/ Writes(w)
    <2> DEFINE h == Append(attempts[w], "running")
    <2>1. /\ attempts[w] \in Seq(AttemptStatus) /\ journal[w] \in Seq(AttemptStatus)
          /\ h \in Seq(AttemptStatus) /\ h # attempts[w]
        BY LastAttempt DEF Inv, TypeOK
    <2>2. CASE Continues(w)
        BY <1>0, <2>2
    <2>3. CASE /\ Moves(w) /\ CanBegin(w) /\ ~Owns(w)
               /\ run'[w].cancelRequested = run[w].cancelRequested
               /\ Commit(w, h) \/ (~Owns(w)' /\ AppendFails(w, h))
        <3> HIDE DEF h
        <3>1. CASE journal'[w] # h
            <4>1. ~Commit(w, h)
                BY <2>1, <3>1, AppendKeeps
            <4> QED BY <1>6, <2>1, <2>3, <3>1, <4>1
        <3>2. CASE journal'[w] = h /\ journal[w] # h
            <4>1. service = "ready" /\ attempts[w] = journal[w]
                BY <2>1, <2>3, <3>2, AppendKeeps DEF Inv
            <4>2. \A v \in WorkItem : v # w => journal'[v] = journal[v] /\ run'[v] = run[v]
                BY <2>1, <2>3, AppendKeeps, MovesEntries
            <4> QED BY <2>3, <3>2, <4>1, <4>2 DEF Writes, CanBegin, Moves, h
        <3>3. CASE journal'[w] = h /\ journal[w] = h
            <4>1. ~Commit(w, h)
                BY <2>1, <3>3 DEF Commit, Inv
            <4>2. UNCHANGED journal
                BY <2>3, <3>3, <4>1 DEF AppendFails, Inv, TypeOK
            <4>3. \A v \in WorkItem : v # w => KeepsFor(v)
                BY <2>3, MovesEntries DEF KeepsFor, Owns
            <4> QED BY <2>3, <4>1, <4>2, <4>3 DEF KeepsFor
        <3> QED BY <3>1, <3>2, <3>3
    <2> QED BY <1>7, <2>2, <2>3, StartAttemptMoves
<1>8. ASSUME NEW w \in WorkItem, Finish(w)
      PROVE  Kept \/ Writes(w)
    <2> DEFINE h == Ended(attempts[w], run[w].outcome)
    <2>1. /\ Moves(w) /\ Owns(w) /\ Owns(w)' /\ Started(w)
          /\ run'[w].cancelRequested = run[w].cancelRequested
          /\ run[w].outcome \in Outcome
          /\ run[w].cancelRequested => run[w].outcome = "interrupted"
          /\ Commit(w, h) \/ AppendFails(w, h)
        BY <1>8, FinishMoves
    <2>2. /\ attempts[w] \in Seq(AttemptStatus) /\ IsRunning(attempts[w])
          /\ h \in Seq(AttemptStatus) /\ h # attempts[w]
        BY <2>1, LastAttempt DEF Inv, TypeOK
    <2> HIDE DEF h
    <2>3. CASE journal'[w] # h
        BY <1>6, <2>1, <2>2, <2>3
    <2>4. CASE journal'[w] = h /\ service = "ready"
        <3>1. attempts[w] = journal[w]
            BY <2>4 DEF Inv
        <3>2. \A v \in WorkItem : v # w => journal'[v] = journal[v] /\ run'[v] = run[v]
            BY <2>1, <2>2, AppendKeeps, MovesEntries
        <3> QED BY <2>1, <2>2, <2>4, <3>1, <3>2 DEF Writes, Moves, h
    <2>5. CASE service # "ready"
        <3>1. UNCHANGED journal
            BY <2>1, <2>5 DEF Commit, AppendFails
        <3>2. \A v \in WorkItem : v # w => KeepsFor(v)
            BY <2>1, MovesEntries DEF KeepsFor, Owns
        <3> QED BY <2>1, <3>1, <3>2 DEF KeepsFor
    <2> QED BY <2>3, <2>4, <2>5
<1>9. ASSUME NEW w \in WorkItem, Recover(w)
      PROVE  Writes(w)
    <2>1. /\ service = "ready" /\ attempts[w] = journal[w] /\ IsRunning(journal[w])
          /\ run[w] = None /\ run' = run
          /\ journal' = [journal EXCEPT ![w] = Ended(journal[w], "interrupted")]
        BY <1>9 DEF Recover, Commit, Inv
    <2> QED BY <2>1 DEF Writes, Inv, TypeOK
<1>10. ASSUME NEW w \in WorkItem, Cancel(w) \/ AdapterSettles(w) PROVE Kept
    BY <1>0, <1>10, CancelContinues, AdapterSettlesContinues
<1>11. ASSUME NEW w \in WorkItem, Progress(w) PROVE Kept \/ Writes(w)
    BY <1>0, <1>2, <1>7, <1>8, <1>11, ResolveCwdContinues, ExpireContinues, DecideContinues,
       CleanupConfirmedContinues, CleanupExpiresContinues
    DEF Progress
<1> HIDE DEF Kept
<1>12. ASSUME Next PROVE Kept \/ \E w \in WorkItem : Writes(w)
    BY <1>1, <1>3, <1>4, <1>5, <1>9, <1>10, <1>11, <1>12 DEF Next
<1>13. Kept \/ \E w \in WorkItem : Writes(w)
    BY <1>5, <1>12
<1> QED BY <1>13 DEF Kept

\* An attempt whose run was asked to cancel ends interrupted, whatever its
\* adapter still delivers, and however appends fail and processes restart.
THEOREM CancelInterrupts == Spec => AcceptedCancelInterrupts
<1> DEFINE P == \A w \in WorkItem :
                  (run[w] # None /\ run[w].cancelRequested /\ IsRunning(journal[w])
                      /\ journal'[w] # journal[w])
                  => journal'[w] = Ended(journal[w], "interrupted")
<1>1. Inv /\ [Next]_vars => P
    BY JournalStep DEF Writes
<1>2. Inv /\ [Next]_vars => Inv'
    BY NextInv
<1> QED BY <1>1, <1>2, InitInv, PTL DEF Spec, AcceptedCancelInterrupts
-----------------------------------------------------------------------------
(***************************************************************************)
(* The runs implement the ledger of attempts.                              *)
(***************************************************************************)

\* The work items whose attempt can only become interrupted.
Promised == {w \in WorkItem :
                \/ run[w] # None /\ run[w].cancelRequested
                \/ ~Owns(w) /\ IsRunning(journal[w])}

\* Nobody else's promise changes when one work item's attempt is written.
LEMMA OthersPromised ==
    ASSUME NEW w \in WorkItem, Writes(w)
    PROVE  \A v \in WorkItem : v # w => (v \in Promised' <=> v \in Promised)
    BY DEF Writes, Promised, Owns

\* An attempt begins there as here.
LEMMA BeginIsLedgerBegin ==
    ASSUME Inv, Inv', NEW w \in WorkItem, Writes(w), ~IsRunning(journal[w])
    PROVE  Ledger!Begin(w)
<1>1. /\ journal'[w] = Append(journal[w], "running")
      /\ run[w] # None /\ run'[w] # None /\ ~Owns(w)
      /\ run'[w].cancelRequested = run[w].cancelRequested
    BY DEF Writes
<1>2. w \in Promised => w \in Promised'
    BY <1>1 DEF Promised
<1>3. Promised' \in {Promised, Promised \cup {w}}
    BY <1>2, OthersPromised DEF Promised
<1>4. journal' = [journal EXCEPT ![w] = Append(journal[w], "running")]
    BY <1>1 DEF Writes, Inv, TypeOK
<1> QED BY <1>3, <1>4 DEF Ledger!Begin, Ledger!IsRunning, IsRunning, Promised

\* And it ends as promised.
LEMMA EndIsLedgerEnd ==
    ASSUME Inv, Inv', NEW w \in WorkItem, Writes(w), IsRunning(journal[w])
    PROVE  Ledger!End(w)
<1>1. PICK o \in Outcome :
        /\ journal'[w] = Ended(journal[w], o)
        /\ w \in Promised => o = "interrupted"
    <2>1. CASE run[w] = None
        BY <2>1 DEF Writes, Outcome
    <2>2. CASE run[w] # None
        BY <2>2 DEF Writes, Promised
    <2> QED BY <2>1, <2>2
<1>2. ~IsRunning(journal'[w])
    BY <1>1, LastAttempt DEF Inv, TypeOK
<1>3. w \in Promised' => w \in Promised
    BY <1>2 DEF Writes, Promised
<1>4. Promised' \in {Promised, Promised \ {w}}
    BY <1>3, OthersPromised DEF Promised
<1>5. journal' = [journal EXCEPT ![w] = [journal[w] EXCEPT ![Len(journal[w])] = o]]
    BY <1>1 DEF Writes, Inv, TypeOK, Ended
<1>6. journal' = [journal EXCEPT ![w][Len(journal[w])] = o]
    BY <1>5
<1> QED BY <1>1, <1>4, <1>6 DEF Ledger!End, Ledger!IsRunning, IsRunning, Promised

\* Every other step makes promises, or drops those about nothing.
LEMMA KeptIsLedgerPromise ==
    ASSUME UNCHANGED journal, \A w \in WorkItem : KeepsFor(w)
    PROVE  Ledger!Promise
<1>1. ASSUME NEW w \in Promised, w \notin Promised'
      PROVE  ~IsRunning(journal[w])
    BY <1>1 DEF Promised, KeepsFor, Owns
<1>2. Promised' \in SUBSET WorkItem
    BY DEF Promised
<1> QED BY <1>1, <1>2 DEF Ledger!Promise, Ledger!IsRunning, IsRunning, Promised

\* Whatever coordinator, host, adapters, journal and restarts do, the attempts on
\* disk follow the ledger: one after the other, never changed once ended, and
\* interrupted where that was promised.
THEOREM RunsImplementLedger == Spec => ImplementsLedger
<1>1. Init => Ledger!Init
    BY DEF Init, Ledger!Init, IsRunning
<1>2. Inv /\ [Next]_vars => [Ledger!Next]_<<journal, Promised>>
    <2> SUFFICES ASSUME Inv, [Next]_vars PROVE Ledger!Next
        OBVIOUS
    <2>1. Inv'
        BY NextInv
    <2>2. ASSUME NEW w \in WorkItem, Writes(w) PROVE Ledger!Next
        BY <2>1, <2>2, BeginIsLedgerBegin, EndIsLedgerEnd DEF Ledger!Next
    <2>3. CASE UNCHANGED journal /\ \A w \in WorkItem : KeepsFor(w)
        BY <2>3, KeptIsLedgerPromise DEF Ledger!Next
    <2> QED BY <2>2, <2>3, JournalStep
<1>3. Inv /\ [Next]_vars => Inv'
    BY NextInv
<1> QED BY <1>1, <1>2, <1>3, InitInv, PTL DEF Spec, ImplementsLedger, Ledger!Spec, Promised
-----------------------------------------------------------------------------
(***************************************************************************)
(* The capacity and the cleanup fence.                                     *)
(***************************************************************************)

\* No more entries than configured, and a fence up before any adapter is left
\* behind; at a capacity of one, the fence leaves nobody admitted.
Bounded ==
    /\ IsFiniteSet(Active) /\ Cardinality(Active) <= maxConcurrentRuns
    /\ lingering # {} => fence
    /\ \A w \in WorkItem : Leaks(w) => fence
    /\ maxConcurrentRuns = 1 /\ fence => \A w \in WorkItem : ~Admitted(w)

\* A run that moves stays in the map, and brings nobody in.
LEMMA MovesBounded ==
    ASSUME Inv, Bounded, NEW w \in WorkItem, Moves(w)
    PROVE  Bounded'
<1>1. \A v \in WorkItem : v # w => run'[v] = run[v]
    BY MovesEntries
<1>2. Active' = Active /\ w \in Active
    BY <1>1 DEF Active, Moves
<1>3. \A v \in WorkItem : Leaks(v)' => fence'
    BY <1>1 DEF Leaks, Moves, Bounded
<1>4. ASSUME maxConcurrentRuns = 1, fence', NEW v \in WorkItem
      PROVE  ~Admitted(v)'
    <2>1. CASE fence
        BY <1>1, <1>4, <2>1 DEF Bounded, Moves, Admitted
    <2>2. CASE ~fence
        <3>1. {w} \subseteq Active /\ Cardinality({w}) = 1
            BY <1>2, FS_Singleton
        <3>2. Cardinality(Active) \in Nat /\ Cardinality(Active) = 1
            BY <1>4, <3>1, FS_Subset, FS_CardinalityType DEF Bounded
        <3>3. Active = {w}
            BY <3>1, <3>2, FS_Subset DEF Bounded
        <3> QED BY <1>1, <1>4, <2>2, <3>3 DEF Moves, Active, Admitted
    <2> QED BY <2>1, <2>2
<1> QED BY <1>2, <1>3, <1>4 DEF Bounded, Moves, process

\* start() counts the entries; and meets the fence.
LEMMA StartBounded ==
    ASSUME Inv, Bounded, NEW w \in WorkItem, Start(w)
    PROVE  Bounded'
<1>1. \A v \in WorkItem : v # w => run'[v] = run[v]
    BY StartInv DEF Inv, Entries
<1>2. Active' = Active \cup {w} /\ w \notin Active
    BY <1>1, StartInv DEF Active, Start
<1>3. maxConcurrentRuns \in Nat /\ Cardinality(Active) \in Nat
    BY CapacityAssumption, FS_CardinalityType DEF Inv, TypeOK, Bounded
<1>a. Cardinality(Active) < maxConcurrentRuns
    BY DEF Start, HasCapacity
<1>b. IsFiniteSet(Active') /\ Cardinality(Active') = Cardinality(Active) + 1
    BY <1>2, FS_AddElement DEF Bounded
<1>4. IsFiniteSet(Active') /\ Cardinality(Active') <= maxConcurrentRuns
    BY <1>3, <1>a, <1>b
<1>5. \A v \in WorkItem : Leaks(v)' => Leaks(v)
    BY <1>1, StartInv DEF Leaks
<1>6. fence => \A v \in WorkItem : Admitted(v)' => Admitted(v)
    BY <1>1, StartInv DEF Admitted
<1> QED BY <1>4, <1>5, <1>6 DEF Bounded, Start, process

\* An adapter that outlives its run was fenced before.
LEMMA ReleaseBounded ==
    ASSUME Inv, Bounded, NEW w \in WorkItem, Release(w)
    PROVE  Bounded'
<1>1. \A v \in WorkItem : v # w => run'[v] = run[v]
    BY ReleaseInv DEF Inv, Entries
<1>2. Active' = Active \ {w} /\ w \in Active
    BY <1>1, ReleaseInv DEF Active, Release
<1>3. maxConcurrentRuns \in Nat /\ Cardinality(Active) \in Nat
    BY CapacityAssumption, FS_CardinalityType DEF Inv, TypeOK, Bounded
<1>4. IsFiniteSet(Active') /\ Cardinality(Active') <= maxConcurrentRuns
    BY <1>2, <1>3, FS_RemoveElement DEF Bounded
<1>5. lingering' # {} => fence
    BY DEF Release, Leaks, Bounded
<1>6. \A v \in WorkItem : (Leaks(v)' => Leaks(v)) /\ (Admitted(v)' => Admitted(v))
    BY <1>1, ReleaseInv DEF Leaks, Admitted
<1> QED BY <1>4, <1>5, <1>6 DEF Bounded, Release, process

\* No step of any actor exceeds the bound.
LEMMA BoundedStep ==
    ASSUME Inv, Bounded, [Next]_vars
    PROVE  Bounded'
<1>1. ASSUME NEW w \in WorkItem, Cancel(w) \/ Progress(w) \/ AdapterSettles(w) PROVE Bounded'
    BY <1>1, CancelContinues, AdapterSettlesContinues, ResolveCwdContinues, ExpireContinues,
       DecideContinues, CleanupConfirmedContinues, CleanupExpiresContinues, StartAttemptMoves,
       FinishMoves, ReleaseBounded, MovesBounded
    DEF Progress, Continues
<1>2. ASSUME NEW w \in WorkItem, Start(w) PROVE Bounded'
    BY <1>2, StartBounded
<1>3. CASE Shutdown
    <2>1. \A w \in WorkItem : /\ w \in Active' <=> w \in Active
                              /\ Leaks(w)' => Leaks(w)
                              /\ Admitted(w)' => Admitted(w)
        BY <1>3, ShutdownEntries DEF Shutdown, Active, Leaks, Admitted
    <2>2. Active' = Active
        BY <2>1 DEF Active
    <2> QED BY <1>3, <2>1, <2>2 DEF Bounded, Shutdown, process
<1>4. CASE Restart
    <2>1. Active' = {} /\ \A w \in WorkItem : ~Leaks(w)' /\ ~Admitted(w)'
        BY <1>4 DEF Restart, Active, Leaks, Admitted
    <2>2. maxConcurrentRuns' \in Nat
        BY <1>4, CapacityAssumption DEF Restart
    <2> QED BY <1>4, <2>1, <2>2, FS_EmptySet DEF Bounded, Restart
<1>5. ASSUME UNCHANGED <<run, fence, maxConcurrentRuns>>, lingering' \subseteq lingering
      PROVE  Bounded'
    BY <1>5 DEF Bounded, Active, Leaks, Admitted
<1>6. CASE (\E w \in WorkItem : Recover(w)) \/ ShutdownDone \/ Serve \/ LingeringEnds
           \/ UNCHANGED vars
    BY <1>5, <1>6 DEF Recover, ShutdownDone, Serve, LingeringEnds, vars, process
<1> QED BY <1>1, <1>2, <1>3, <1>4, <1>6 DEF Next

LEMMA InitBounded == Init => Bounded
<1> SUFFICES ASSUME Init PROVE Bounded
    OBVIOUS
<1>1. Active = {} /\ maxConcurrentRuns \in Nat
    BY CapacityAssumption DEF Init, Active
<1> QED BY <1>1, FS_EmptySet DEF Init, Bounded, Leaks, Admitted

\* Adapters at work, those that outlived their run included, fit the capacity
\* for as long as the host is not fenced.
THEOREM AdaptersFitCapacity == Spec => []AdaptersWithinCapacity
<1>1. ASSUME Inv, Bounded PROVE AdaptersWithinCapacity
    <2> SUFFICES ASSUME ~fence
                 PROVE  Cardinality({w \in Active : run[w].adapter = "running"})
                            + Cardinality(lingering) <= maxConcurrentRuns
        BY DEF AdaptersWithinCapacity
    <2> DEFINE R == {w \in Active : run[w].adapter = "running"}
    <2>1. lingering = {} /\ Cardinality(lingering) = 0
        BY <1>1, FS_EmptySet DEF Bounded
    <2>2. R \subseteq Active
        OBVIOUS
    <2> HIDE DEF R
    <2>3. /\ Cardinality(R) \in Nat /\ Cardinality(R) <= Cardinality(Active)
          /\ Cardinality(Active) \in Nat
        BY <1>1, <2>2, FS_Subset, FS_CardinalityType DEF Bounded
    <2>4. maxConcurrentRuns \in Nat
        BY <1>1, CapacityAssumption DEF Inv, TypeOK
    <2>5. Cardinality(R) + Cardinality(lingering) <= maxConcurrentRuns
        BY <1>1, <2>1, <2>3, <2>4 DEF Bounded
    <2> QED BY <2>5 DEF R
<1>2. Inv /\ Bounded /\ [Next]_vars => Inv' /\ Bounded'
    BY NextInv, BoundedStep
<1> QED BY <1>1, <1>2, InitInv, InitBounded, PTL DEF Spec

\* At the default capacity a fenced host dispatches nothing: the run that raised
\* the fence was the only one there was.
THEOREM FenceStopsDispatch == Spec => NoDispatchOneAtATime
<1>1. ASSUME Inv, Bounded, [Next]_vars, maxConcurrentRuns = 1, fence, fence', NEW w \in WorkItem
      PROVE  Len(attempts'[w]) = Len(attempts[w])
    <2>1. ASSUME UNCHANGED attempts PROVE Len(attempts'[w]) = Len(attempts[w])
        BY <2>1
    <2>2. ASSUME NEW v \in WorkItem, NEW o \in Outcome, IsRunning(attempts[v]),
                 \/ Commit(v, Ended(attempts[v], o))
                 \/ AppendFails(v, Ended(attempts[v], o))
          PROVE  Len(attempts'[w]) = Len(attempts[w])
        <3>1. attempts[v] \in Seq(AttemptStatus)
            BY <1>1 DEF Inv, TypeOK
        <3>2. Len(Ended(attempts[v], o)) = Len(attempts[v])
            BY <2>2, <3>1, LastAttempt
        <3>3. attempts' = attempts \/ attempts' = [attempts EXCEPT ![v] = Ended(attempts[v], o)]
            BY <2>2 DEF Commit, AppendFails
        <3> QED BY <1>1, <3>2, <3>3 DEF Inv, TypeOK
    <2>3. ASSUME NEW v \in WorkItem, Cancel(v) \/ Progress(v) \/ AdapterSettles(v)
          PROVE  Len(attempts'[w]) = Len(attempts[w])
        <3>1. CASE Continues(v)
            BY <2>1, <3>1 DEF Continues, store
        <3>2. CASE StartAttempt(v)
            BY <1>1, <3>1, <3>2, StartAttemptMoves DEF Bounded
        <3>3. CASE Finish(v)
            BY <1>1, <2>2, <3>3, FinishMoves DEF Inv
        <3>4. CASE Release(v)
            BY <2>1, <3>4 DEF Release, store
        <3> QED BY <1>1, <2>3, <3>1, <3>2, <3>3, <3>4, CancelContinues, AdapterSettlesContinues,
                   ResolveCwdContinues, ExpireContinues, DecideContinues,
                   CleanupConfirmedContinues, CleanupExpiresContinues
                DEF Progress
    <2>4. CASE \E v \in WorkItem : Recover(v)
        BY <2>2, <2>4 DEF Recover, Outcome
    <2>5. CASE (\E v \in WorkItem : Start(v)) \/ Shutdown \/ ShutdownDone \/ LingeringEnds \/ Serve
               \/ UNCHANGED vars
        BY <2>1, <2>5 DEF Start, Shutdown, ShutdownDone, LingeringEnds, Serve, vars, store
    <2>6. CASE Restart
        BY <1>1, <2>6 DEF Restart
    <2> QED BY <1>1, <2>3, <2>4, <2>5, <2>6 DEF Next
<1>2. Inv /\ Bounded /\ [Next]_vars => (maxConcurrentRuns = 1 => DispatchesUnfenced)
    BY <1>1 DEF DispatchesUnfenced
<1>3. Inv /\ Bounded /\ [Next]_vars => Inv' /\ Bounded'
    BY NextInv, BoundedStep
<1> QED BY <1>2, <1>3, InitInv, InitBounded, PTL DEF Spec, NoDispatchOneAtATime
=============================================================================
