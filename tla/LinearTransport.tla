--------------------------- MODULE LinearTransport ---------------------------
(***************************************************************************)
(* One call to Linear and what its answer is worth:                        *)
(* src/connectors/linear-graphql-http-exchange.ts under the transports      *)
(* linear-write-transport.ts (create an issue, look for it) and             *)
(* linear-transition-transport.ts (read an issue, move it).                 *)
(*                                                                         *)
(* fetch, the reader of the body and a timer race for a call.  The timer    *)
(* ends a call, not what was sent: Linear takes it at any time, or never.   *)
(* The timer's event may come late; whoever reads the body looks at the     *)
(* clock as well.  Linear answers what it found when it took the request,   *)
(* after its effect, or with errors, with or without the effect; on the way *)
(* the answer may be replaced, cut or lost.                                 *)
(*                                                                         *)
(* ControlledWrite and LinearTransition choose the answers of their calls   *)
(* by what AnswersAreTrue says of them.  The v2 form of a create differs in *)
(* what its placement consists of.  Abstracted: the text of requests and    *)
(* answers, the headers; sizes are in units of the limit.              *)
(***************************************************************************)
EXTENDS Naturals

CONSTANTS
    Nothing,
    Call,     \* the calls that are made, in this order: 1..n
    LinearRequest,  \* what they may ask: [kind, id, place]; of a move, place is the state
    IssueId,
    Place

Issue == [place : Place, rev : Nat]
Shown == [id : IssueId, place : Place, rev : Nat]
Reply == [errors : BOOLEAN, success : BOOLEAN, issue : Shown \cup {Nothing}]
Taken == [before : Issue \cup {Nothing}, after : Issue \cup {Nothing}]

ASSUME TransportAssumption ==
    /\ LinearRequest \subseteq [kind : {"create", "query", "update", "read"}, id : IssueId, place : Place]
    /\ Nothing \notin Issue /\ Nothing \notin Shown /\ Nothing \notin Reply /\ Nothing \notin Taken

VARIABLES
    exchange,  \* [Call -> how far it is and what it answered]
    wire,      \* [Call -> what became of its request: "none", "sent" or "taken"]
    reply,     \* [Call -> what Linear answers it, or Nothing]
    held,      \* [Call -> the issue when Linear took the request: before, after]
    linear     \* [IssueId -> the issue there, or Nothing]

transportVars == <<exchange, wire, reply, held, linear>>

LINEAR_WRITE_REQUEST_BYTE_LIMIT == 1
LINEAR_GRAPHQL_REQUEST_BYTE_LIMIT == 1
LINEAR_GRAPHQL_RESPONSE_BYTE_LIMIT == 1

Unasked == [at |-> "idle", request |-> Nothing, late |-> FALSE, bytes |-> 0,
            status |-> 0, answer |-> Nothing]

TransportInit ==
    /\ exchange = [c \in Call |-> Unasked]
    /\ wire = [c \in Call |-> "none"]
    /\ reply = [c \in Call |-> Nothing]
    /\ held = [c \in Call |-> Nothing]
    /\ linear \in [IssueId -> {Nothing} \cup {[place |-> p, rev |-> 1] : p \in Place}]

-----------------------------------------------------------------------------
(* What an answer is taken for.                                            *)

NotDispatched == [kind |-> "not_dispatched"]
Lost == [kind |-> "response_lost"]

Result(kind, issue) == [kind |-> kind, issue |-> issue]
Only(kind) == Result(kind, Nothing)

\* Mutant: data that came with errors is used.
IsDataAnyway(r) == r.kind = "response" /\ r.status = 200 /\ r.body # Nothing

\* parseGraphqlData and the shape that was asked for
IsData(r) == r.kind = "response" /\ r.status = 200 /\ r.body # Nothing /\ ~r.body.errors

\* Mutant: an issue is taken for the one that was asked for by its id.
MatchesId(issue, request) == issue.id = request.id

Matches(issue, request) == issue.id = request.id /\ issue.place = request.place

\* A mutation that says it worked, with the issue.
Worked(r) == IsData(r) /\ r.body.success /\ r.body.issue # Nothing

CreateAnswer(r, request) ==
    IF r = NotDispatched THEN Only("not_dispatched")
    ELSE IF ~Worked(r) THEN Only("outcome_unknown")
    ELSE IF Matches(r.body.issue, request) THEN Only("created") ELSE Only("outcome_unknown")

QueryAnswer(r, request) ==
    IF ~IsData(r) THEN Only("failed")
    ELSE IF r.body.issue = Nothing THEN Only("absent")
    ELSE IF Matches(r.body.issue, request) THEN Only("found") ELSE Only("ambiguous")

UpdateAnswer(r, request) ==
    IF r = NotDispatched THEN Only("not_dispatched")
    ELSE IF ~Worked(r) THEN Only("outcome_unknown")
    ELSE IF r.body.issue.id = request.id THEN Only("dispatched") ELSE Only("outcome_unknown")

ReadAnswer(r, request) ==
    IF ~IsData(r) THEN Only("failed")
    ELSE IF r.body.issue = Nothing THEN Only("missing")
    ELSE IF r.body.issue.id = request.id THEN Result("found", r.body.issue) ELSE Only("failed")

Answer(r, request) ==
    CASE request.kind = "create" -> CreateAnswer(r, request)
      [] request.kind = "query"  -> QueryAnswer(r, request)
      [] request.kind = "update" -> UpdateAnswer(r, request)
      [] request.kind = "read"   -> ReadAnswer(r, request)

Answers(c, r) ==
    exchange' = [exchange EXCEPT ![c] = [@ EXCEPT !.at = "answered", !.bytes = 0, !.status = 0,
                                                  !.answer = Answer(r, exchange[c].request)]]

-----------------------------------------------------------------------------
(* The call.                                                               *)

\* Nothing is sent.
Refuses(c, request, answer) ==
    /\ exchange' = [exchange EXCEPT ![c] = [@ EXCEPT !.at = "answered", !.request = request,
                                                     !.answer = answer]]
    /\ UNCHANGED wire

\* A coordinator waits for one call before it makes the next; what the first one sent
\* may still be on its way.  The transport refuses a request over its limit; the
\* exchange looks again.
BeginCall(c, request, size) ==
    /\ exchange[c].at = "idle"
    /\ \A d \in 1..(c - 1) : exchange[d].at = "answered"
    /\ \/ /\ size > LINEAR_WRITE_REQUEST_BYTE_LIMIT
          /\ Refuses(c, request, Only("invalid_input"))
       \/ /\ size <= LINEAR_WRITE_REQUEST_BYTE_LIMIT
          /\ IF size > LINEAR_GRAPHQL_REQUEST_BYTE_LIMIT
             THEN Refuses(c, request, Answer(NotDispatched, request))
             ELSE /\ exchange' = [exchange EXCEPT ![c] = [@ EXCEPT !.at = "dispatched",
                                                                   !.request = request]]
                  /\ wire' = [wire EXCEPT ![c] = "sent"]
    /\ UNCHANGED <<reply, held, linear>>

Keeps == UNCHANGED <<wire, reply, held, linear>>

Runs(c) == exchange[c].at \in {"dispatched", "body"}

\* The time is up; the timer's event is still to come.
DeadlinePasses(c) ==
    /\ Runs(c) /\ ~exchange[c].late
    /\ exchange' = [exchange EXCEPT ![c].late = TRUE]
    /\ Keeps

\* settleBeforeAbort: the abort wins over a fetch or a body that is still awaited.
AbortCall(c) ==
    /\ Runs(c) /\ exchange[c].late
    /\ Answers(c, Lost)
    /\ Keeps

\* fetch or the reader rejects, or the response is none.
Fails(c) ==
    /\ Runs(c)
    /\ Answers(c, Lost)
    /\ Keeps

\* The head of a response; it may be that of someone on the way.
ResponseHead(c, status) ==
    /\ exchange[c].at = "dispatched"
    /\ exchange' = [exchange EXCEPT ![c] = [@ EXCEPT !.at = "body", !.status = status]]
    /\ Keeps

\* readBoundedBody: what is read after the deadline, nothing at all, or more than the
\* limit ends it.
Chunk(c, size) ==
    /\ exchange[c].at = "body"
    /\ IF \/ exchange[c].late \/ size = 0
          \/ exchange[c].bytes + size > LINEAR_GRAPHQL_RESPONSE_BYTE_LIMIT
       THEN Answers(c, Lost)
       ELSE exchange' = [exchange EXCEPT ![c].bytes = @ + size]
    /\ Keeps

\* Mutant: the end of the body is taken whenever it comes.
EndsLate(c, body) ==
    /\ exchange[c].at = "body"
    /\ body # Nothing => exchange[c].bytes > 0
    /\ Answers(c, [kind |-> "response", status |-> exchange[c].status, body |-> body])
    /\ Keeps

\* The body ends: it is Linear's reply, or nothing that can be made out.
Ends(c, body) ==
    /\ exchange[c].at = "body"
    /\ body # Nothing => exchange[c].bytes > 0
    /\ Answers(c, IF exchange[c].late THEN Lost
                  ELSE [kind |-> "response", status |-> exchange[c].status, body |-> body])
    /\ Keeps

-----------------------------------------------------------------------------
(* Linear.                                                                 *)

Accepts(request) ==
    CASE request.kind = "create" -> linear[request.id] = Nothing
      [] request.kind = "update" -> linear[request.id] # Nothing
      [] OTHER -> FALSE

\* A created or moved issue is where Linear's own rules put it.
Changed(request, place) ==
    [place |-> place, rev |-> IF request.kind = "create" THEN 1 ELSE linear[request.id].rev + 1]

\* What Linear says of an issue; of a mutation that it refuses, nothing.
Content(request, issue, says) ==
    LET shown == /\ issue # Nothing /\ says # "errors"
                 /\ request.kind \in {"create", "update"} => says = "success"
    IN  [errors |-> says = "errors", success |-> says = "success",
         issue |-> IF shown THEN [id |-> request.id, place |-> issue.place, rev |-> issue.rev]
                   ELSE Nothing]

\* Linear takes a request.  Errors may hide that it had an effect, or what is there.
Take(c, place, works, says) ==
    LET request == exchange[c].request IN
    /\ wire[c] = "sent"
    /\ LET done == works /\ Accepts(request)
           issue == IF done THEN Changed(request, place) ELSE linear[request.id]
       IN  /\ request.kind \in {"create", "update"} /\ says = "success" => done
           /\ wire' = [wire EXCEPT ![c] = "taken"]
           /\ held' = [held EXCEPT ![c] = [before |-> linear[request.id], after |-> issue]]
           /\ linear' = [linear EXCEPT ![request.id] = issue]
           /\ reply' = [reply EXCEPT ![c] = Content(request, issue, says)]
    /\ UNCHANGED exchange

-----------------------------------------------------------------------------
Timer(c) == DeadlinePasses(c) \/ AbortCall(c)

TransportNext ==
    \E c \in Call :
        \/ \E request \in LinearRequest, size \in 1..2 : BeginCall(c, request, size)
        \/ Timer(c) \/ Fails(c)
        \/ \E status \in {200, 500} : ResponseHead(c, status)
        \/ \E size \in 0..2 : Chunk(c, size)
        \/ \E body \in {reply[c], Nothing} : Ends(c, body)
        \/ \E place \in Place, works \in BOOLEAN, says \in {"success", "refused", "errors"} :
            Take(c, place, works, says)

TransportSpec == TransportInit /\ [][TransportNext]_transportVars

-----------------------------------------------------------------------------
AnswerKind ==
    {"not_dispatched", "invalid_input", "outcome_unknown", "failed", "created", "found",
     "absent", "ambiguous", "dispatched", "missing"}
Given == [kind : AnswerKind, issue : Shown \cup {Nothing}]

Exchange ==
    [at : {"idle", "dispatched", "body", "answered"}, request : LinearRequest \cup {Nothing},
     late : BOOLEAN, bytes : Nat, status : {0, 200, 500},
     answer : Given \cup {Nothing}]

\* Calls, what is on its way, and what Linear holds.
TransportTypeOK ==
    /\ exchange \in [Call -> Exchange]
    /\ wire \in [Call -> {"none", "sent", "taken"}]
    /\ reply \in [Call -> Reply \cup {Nothing}]
    /\ held \in [Call -> Taken \cup {Nothing}]
    /\ linear \in [IssueId -> Issue \cup {Nothing}]

\* docs/specs/0011: an answer other than "unknown" and "failed" can be relied on.
\* An issue is created or found only where it was asked for, and absent only when
\* Linear held none; it is dispatched only when Linear moved it, and read as Linear
\* held it; "not dispatched" left nothing on its way; and nothing is taken from an
\* answer that was not whole within its time.
AnswersAreTrue ==
    \A c \in Call : exchange[c].at = "answered" =>
        LET request == exchange[c].request
            answer == exchange[c].answer
            was == held[c]
        IN  /\ answer.kind \in {"not_dispatched", "invalid_input"} => wire[c] = "none"
            /\ answer.kind \in {"created", "found", "dispatched", "absent", "missing"} =>
                /\ was # Nothing /\ ~exchange[c].late
                /\ (was.after = Nothing) <=> (answer.kind \in {"absent", "missing"})
            /\ answer.kind = "created" => was.before = Nothing
            /\ answer.kind = "dispatched" => was.after.rev > was.before.rev
            /\ answer.kind = "created" \/ (answer.kind = "found" /\ request.kind = "query") =>
                was.after.place = request.place
            /\ answer.kind = "found" /\ request.kind = "read" =>
                answer.issue = [id |-> request.id, place |-> was.after.place, rev |-> was.after.rev]
=============================================================================
