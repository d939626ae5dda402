SPECIFICATION MCSpec
CONSTANTS
    None = None
    o1 = o1
    o2 = o2
    plan1 = plan1
    plan2 = plan2
    w1 = w1
    w2 = w2
    q1 = q1
    q2 = q2
    k1 = k1
    k2 = k2
    k3 = k3
    Operation = {o1, o2}
    Plan = {plan1, plan2}
    RecordLimit = 12
    Revision <- MCRevision
    Move = {o1}
    MoveLimit = 7
    MovedItem = {w1}
    ItemOf <- MCItemOf
    MoveRequest = {q1, q2}
    Coordinator = {k1, k2, k3}
    Dispatcher = FALSE
    MaxDrift = 1
    WorkItem = {w1, w2}
    First = w1
    MaxChanges = 2
    MaxCommands = 2
    MaxPolls = 0
    MaxFailures = 1
    Nothing = Nothing
INVARIANTS
    OneCreate
    OneUpdate
    RecordsAreTrue
    JournalAcceptsTransitions
    PageIsCurrent
    DecidedAsRead
PROPERTIES
    CreateIsRecorded
    RecordsSurvive
SYMMETRY Symmetries
