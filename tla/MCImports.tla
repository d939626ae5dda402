------------------------------ MODULE MCImports ------------------------------
(* A small instance of SnapshotImport, GitHubDelivery and ReadyWork for TLC: *)
(* imports are planned by hand, or a delivery is reconciled, or tasks are    *)
(* taken in from Linear.                                                     *)
EXTENDS GitHubDelivery, ReadyWork, TLC

CONSTANTS i1, i2, a1, a2, pr, A, B, repo, renamed, gitee, team, crew, home, away, tests,
          review, reviewer

VARIABLE part

Issue(n, title, state, project) ==
    [rev |-> n, at |-> n, title |-> title, createdAt |-> 0, state |-> state, project |-> project]

\* Issue 1 is edited twice in one second, then gets its first title back.  Pull
\* request 7 has head B for a while; its check 8 is run again under the same id.  In Linear 11, which is done, is archived;
\* 12 is ready, gets done and leaves the project.
MCVersions ==
    1 :> <<[rev |-> 1, at |-> 1, title |-> "A", createdAt |-> 0],
           [rev |-> 1, at |-> 1, title |-> "B", createdAt |-> 0],
           [rev |-> 2, at |-> 2, title |-> "A", createdAt |-> 0]>>
    @@ 2 :> <<[rev |-> 1, at |-> 1, title |-> "B", createdAt |-> 1]>>
    @@ 3 :> <<[rev |-> 2, at |-> 2, head |-> A, artifact |-> pr]>>
    @@ 4 :> <<[rev |-> 3, at |-> 3, head |-> A, artifact |-> pr, criterion |-> review,
               status |-> "completed", outcome |-> "passed"]>>
    @@ 5 :> <<[rev |-> 1, at |-> 1, title |-> "A", createdAt |-> 0],
              [rev |-> 2, at |-> 2, title |-> "B", createdAt |-> 0]>>
    @@ 6 :> <<[rev |-> 1, at |-> 1, title |-> "A", createdAt |-> 0]>>
    @@ 7 :> <<[at |-> 1, head |-> A, artifact |-> pr, mapped |-> TRUE],
              [at |-> 2, head |-> B, artifact |-> pr, mapped |-> TRUE],
              [at |-> 3, head |-> A, artifact |-> pr, mapped |-> TRUE]>>
    @@ 8 :> <<[at |-> 1, head |-> A, status |-> "completed", outcome |-> "failed"],
              [at |-> 2, head |-> A, status |-> "completed", outcome |-> "passed"],
              [at |-> 3, head |-> A, status |-> "completed", outcome |-> "failed"]>>
    @@ 9 :> <<[head |-> A, submitted |-> 1, state |-> "approved"],
              [head |-> A, submitted |-> 1, state |-> "dismissed"]>>
    @@ 10 :> <<Issue(1, "A", "todo", home), Issue(2, "B", "todo", home)>>
    @@ 11 :> <<Issue(1, "A", "done", home), Issue(2, "A", "archived", home)>>
    @@ 12 :> <<Issue(1, "A", "todo", home), Issue(2, "A", "done", home),
               Issue(3, "A", "done", away)>>

MCTypeOf ==
    [o \in Object |-> CASE o \in {1, 2, 5, 6, 10, 11, 12} -> "issue"
                        [] o \in {3, 7} -> "pull_request"
                        [] o \in {4, 8} -> "check"
                        [] o = 9 -> "pull_request_review"]

MCProviderOf == repo :> "github" @@ renamed :> "github" @@ gitee :> "gitee" @@ team :> "linear" @@ crew :> "linear"

TestRun == [kind |-> "check_run"]
ReviewOf == [kind |-> "pull_request_review", reviewer |-> reviewer]
MCSourceOf == [o \in Object |-> CASE o = 8 -> TestRun [] o = 9 -> ReviewOf [] OTHER -> None]

MCIndex == {[item |-> i1, issue |-> 6, scope |-> repo, pull |-> 7,
             evidence |-> tests :> TestRun @@ review :> ReviewOf]}

Mapping(item, scope, managed, objects) ==
    [item |-> item, scope |-> scope, managed |-> managed, attempt |-> a1, revision |-> A,
     objects |-> objects]

MCMappings ==
    {Mapping(i1, repo, TRUE, {1}), Mapping(i1, repo, TRUE, {1, 2}),
     Mapping(i1, repo, TRUE, {2}), Mapping(i2, gitee, TRUE, {5}), Mapping(i2, repo, FALSE, {1}),
     Mapping(i1, repo, FALSE, {3, 4}), Mapping(i1, renamed, TRUE, {1})}

MCPolicies ==
    {[s \in Scope |->
        [types |-> IF s = gitee THEN {"issue"} ELSE {"issue", "pull_request", "check"},
         capability |-> c]] :
        c \in {"preview", "apply"}}

Direct(type, item, at, payload) ==
    [type |-> type, item |-> item, at |-> at, payload |-> payload, id |-> <<"direct", type, item>>]

MCDirectEvents ==
    {Direct("work_item.created", i, 1,
            [title |-> "A", required |-> RequiredEvidence, link |-> LegacyLink(1)]) :
        i \in {i1, i2}}
    \cup {Direct("attempt.started", i1, 1, [attempt |-> a1])}

\* While a delivery is reconciled another attempt begins.
MCRunEvents ==
    {[Direct("attempt.started", i1, 2, [attempt |-> a2]) EXCEPT !.id = <<"direct", "again", i1>>]}

\* The issue of the delivery was imported, and an attempt begun.
Begun ==
    LET created == Direct("work_item.created", i1, 0,
            [title |-> "A", required |-> RequiredEvidence,
             link |-> RichLink(6, team, FALSE, [rev |-> 1, at |-> 1, title |-> "A"])])
        started == Direct("attempt.started", i1, 0, [attempt |-> a1])
    IN  Applied(Applied(EmptyWorkflow, created), started)

\* The configuration, and Linear's lists: as they should be, with a second team of
\* the name on the next page, and with a project that left the team.
MCConfigured ==
    [workspace |-> "w", team |-> "core", project |-> "seal", ready |-> "todo", completed |-> "done"]

StateList ==
    <<[id |-> "todo", name |-> "todo", type |-> "unstarted"],
      [id |-> "done", name |-> "done", type |-> "completed"]>>

ProperLists ==
    [org |-> [name |-> "w", urlKey |-> "w"],
     teams |-> <<[id |-> team, name |-> "core", key |-> "c"], [id |-> crew, name |-> "x", key |-> "x"]>>,
     projects |-> <<[id |-> home, name |-> "seal"]>>,
     members |-> [p \in {home, away} |-> <<[id |-> team]>>],
     states |-> [t \in {team, crew} |-> StateList]]

MCLists ==
    {ProperLists, [ProperLists EXCEPT !.teams[2].name = "core"],
     [ProperLists EXCEPT !.members[home] = <<[id |-> crew]>>]}

\* The index declares 11 before 10; of 12 it knows nothing.
MCTickets ==
    [T1 |-> [issue |-> 10, dependsOn |-> {"T2"}], T2 |-> [issue |-> 11, dependsOn |-> {}]]

MCRelations == {[blocking |-> "T2", blocked |-> "T1", issue |-> 11, relatedIssue |-> 10]}

MCBlockings ==
    {[o \in {10, 11, 12} |-> IF o = 10 THEN b ELSE {}] : b \in {{}, {12}, {11, 12}}}

MCSelections ==
    {[issue |-> o, item |-> i, criteria |-> RequiredEvidence] : o \in {10, 12}, i \in {i1}}
    \cup {[issue |-> 10, item |-> i2, criteria |-> RequiredEvidence],
          [issue |-> 10, item |-> i1, criteria |-> {tests}]}

MCOtherWriters ==
    {Direct("work_item.created", i2, 1,
            [title |-> "A", required |-> RequiredEvidence, link |-> LegacyLink(10)])}

NotDelivering == session = None
NotTakingIn == command = None

Init ==
    \/ part = "imports" /\ ImportInit /\ NotDelivering /\ NotTakingIn
    \/ part = "delivery" /\ DeliveryInit(Begun) /\ NotTakingIn
    \/ part = "ready" /\ ReadyInit /\ NotDelivering

Next ==
    /\ UNCHANGED part
    /\ \/ part = "imports" /\ ImportNext /\ UNCHANGED <<session, command>>
       \/ part = "delivery" /\ DeliveryNext /\ UNCHANGED command
       \/ part = "ready" /\ ReadyNext /\ UNCHANGED session

Spec == Init /\ [][Next]_<<importVars, session, command, part>>
=============================================================================
