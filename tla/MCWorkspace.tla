----------------------------- MODULE MCWorkspace -----------------------------
(* What several processes and requests share in one workspace directory: the *)
(* lock of its Control Room, the file of provider observations, the          *)
(* configuration files, and the decomposition plans.  They share no state: a *)
(* behaviour runs one of them, and the sizes of their state spaces add up.   *)
EXTENDS ControlRoomLock, ProviderObservation, ConfigurationControl, Decomposition, TLC

CONSTANTS p1, p2, p3, o1, o2, o3, a, b, c, x, y, plan1, plan2

VARIABLES
    part,  \* which of them runs
    draft  \* the draft that is prepared, or None

planVars == vars

\* A Linear inspection and a preview of the same team, and a Gitee health check.
MCKind == o1 :> "snapshot" @@ o2 :> "health" @@ o3 :> "preview"
MCProvider == o1 :> "linear" @@ o2 :> "gitee" @@ o3 :> "linear"
MCConfigured == o1 :> TRUE @@ o2 :> TRUE @@ o3 :> TRUE
MCSeeds == <<[provider |-> "linear", kind |-> "team", key |-> "ref"]>>

\* Two writers in workspace x and one in y, who share the user's file.
Document(project, repository) == [project |-> project] @@ ("github.repository" :> repository)
Change(key, value) == [kind |-> "change", key |-> key, value |-> value]

MCWorkspaceOf == a :> x @@ b :> x @@ c :> y
MCRequests == a :> {Change("github.repository", 2), Change("ui.locale", 2)}
                @@ b :> {[kind |-> "draft", scope |-> "project", document |-> Document(2, Missing)],
                         Change("runtime.port", 2), Change("project", Missing)}
                @@ c :> {Change("ui.locale", 3)}
MCHandEdits == {<< <<x, "project">>, Broken >>}
MCInitial == [f \in {<<Missing, "user">>} \cup ({x, y} \X {"project", "local"}) |->
                    IF f[2] = "project" THEN Document(1, 1) ELSE Missing]

\* plan1 breaks 1 into 2 and 3, where 3 waits for 2; plan2 breaks 3 into 1 and 2,
\* which wait for nothing but may not run at once.
MCRoot == plan1 :> 1 @@ plan2 :> 3
MCNode == plan1 :> {2, 3} @@ plan2 :> {1, 2}
MCDependsOn == plan1 :> (2 :> {} @@ 3 :> {2}) @@ plan2 :> (1 :> {} @@ 2 :> {})
MCOrder == plan1 :> <<2, 3>> @@ plan2 :> <<1, 2>>
MCMaxParallelism == plan1 :> 2 @@ plan2 :> 1
MCMaxAttempts == plan1 :> 1 @@ plan2 :> 2

Drafting == INSTANCE DecompositionPlan WITH MaxNodes <- 3, MaxEdges <- 3

\* Three nodes in any order, waiting for each other in any way.
Nodes(ids, dependsOn) ==
    [k \in 1..3 |-> [nodeId |-> ids[k], workItemId |-> 10 + ids[k], dependsOn |-> dependsOn[k],
                     owner |-> "codex", skills |-> {"repository"}, criteria |-> {"review"}]]
Registry == "codex" :> [revision |-> 1, skills |-> {"repository", "handoff"}]
MCRequired == [id \in 10..13 |-> {"review"}]
Drafts ==
    {[root |-> 10, maxQueued |-> 3, nodes |-> Nodes(ids, dependsOn)] :
        ids \in Permutations(1..3), dependsOn \in [1..3 -> SUBSET (1..3)]}

WorkspaceInit ==
    /\ LockInit /\ ObsInit /\ ConfInit /\ Init
    /\ part \in {"lock", "observations", "configuration", "decomposition", "drafting"}
    /\ IF part = "drafting" THEN draft \in Drafts ELSE draft = None
    /\ part # "decomposition" => records = {}

WorkspaceNext ==
    \/ part = "lock" /\ LockNext /\ UNCHANGED <<part, obsVars, confVars, planVars, draft>>
    \/ part = "observations" /\ ObsNext /\ UNCHANGED <<part, lockVars, confVars, planVars, draft>>
    \/ part = "configuration" /\ ConfNext /\ UNCHANGED <<part, lockVars, obsVars, planVars, draft>>
    \/ part = "decomposition" /\ Next /\ UNCHANGED <<part, lockVars, obsVars, confVars, draft>>

WorkspaceSpec ==
    WorkspaceInit /\ [][WorkspaceNext]_<<part, lockVars, obsVars, confVars, planVars, draft>>

\* What is prepared can be parsed again and is found the same, in an order that
\* respects and breaks ties as the reference says; a draft has an order exactly
\* when its graph has no cycle and no unknown node.
PlansAreOrdered ==
    draft # None => Drafting!OrderIsRight(draft, Registry, MCRequired)
=============================================================================
