SPECIFICATION Spec
CONSTANTS
    None = None
    i1 = i1
    i2 = i2
    a1 = a1
    pr = pr
    a2 = a2
    A = A
    B = B
    repo = repo
    renamed = renamed
    gitee = gitee
    team = team
    crew = crew
    home = home
    away = away
    tests = tests
    reviewer = reviewer
    review = review
    ItemId = {i1, i2}
    AttemptId = {a1, a2}
    ArtifactId = {pr}
    Revision = {A, B}
    Criterion = {tests, review}
    RequiredEvidence = {tests, review}
    OtherEvidence = {}
    EvidenceId = {40, 80, 91, 92, 93}
    DecisionId = {}
    Time = {0, 1, 2, 3}
    Object = {1, 2, 3, 4, 5, 6, 7, 8, 9, 10, 11, 12}
    Scope = {repo, renamed, gitee, team, crew}
    RevisionId = {1, 2, 3}
    Title = {"A", "B"}
    TypeOf <- MCTypeOf
    ProviderOf <- MCProviderOf
    Versions <- MCVersions
    Mappings <- MCMappings
    Policies <- MCPolicies
    DirectEvents <- MCDirectEvents
    Index <- MCIndex
    SourceOf <- MCSourceOf
    RunEvents <- MCRunEvents
    Configured <- MCConfigured
    PAGE_SIZE = 1
    MAXIMUM_PAGES = 2
    MAXIMUM_DEPENDENCIES = 2
    Tickets <- MCTickets
    Relations <- MCRelations
    Selections <- MCSelections
    LinearIssue = {10, 11, 12}
    Lists <- MCLists
    Blockings <- MCBlockings
    OtherWriters <- MCOtherWriters
    MaxIntakes = 2
    MAX_CLAIMS = 8
    MaxPlans = 1
    MaxReceipts = 3
INVARIANTS
    UpToDateIsRepresented
CHECK_DEADLOCK FALSE
