SPECIFICATION WorkspaceSpec
CONSTANTS
    None = None
    Nothing = Nothing
    Broken = Broken
    p1 = p1
    p2 = p2
    p3 = p3
    o1 = o1
    o2 = o2
    o3 = o3
    a = a
    b = b
    c = c
    x = x
    y = y
    plan1 = plan1
    plan2 = plan2
    Absent = Absent
    Operation = {o1, o2, o3}
    Kind <- MCKind
    Provider <- MCProvider
    Configured <- MCConfigured
    Required = {"review"}
    Errors = {"sync_failed"}
    Seeds <- MCSeeds
    MAX_OBSERVATIONS = 2
    MaxClock = 1
    MaxObsRestarts = 1
    Missing = Missing
    Writer = {a, b, c}
    WorkspaceOf <- MCWorkspaceOf
    Requests <- MCRequests
    HandEdits <- MCHandEdits
    CrashableWriter = {b}
    Initial <- MCInitial
    Process = {p1, p2, p3}
    Crashable = {p1, p2, p3}
    WorkItem = {1, 2, 3}
    Plan = {plan1, plan2}
    Root <- MCRoot
    Node <- MCNode
    DependsOn <- MCDependsOn
    Order <- MCOrder
    MaxParallelism <- MCMaxParallelism
    MaxAttempts <- MCMaxAttempts
    PlanLimit = 2
    MaxRuns = 2
    MaxHistory = 2
    MaxRequests = 4
    MaxRestarts = 1
INVARIANTS
    RunningOwnsLock
    ObservationsAreTrue
    LocksAreReleased
    PlansStayApart
    ClaimsAreExclusive
    RunsFollowPlans
    PlansAreOrdered
PROPERTIES
    NewestWins
    NothingIsOverwritten
    AcceptedInOrder
CHECK_DEADLOCK FALSE
