SPECIFICATION Spec
CONSTANTS
    None = None
    o1 = o1
    o2 = o2
    w1 = w1
    w2 = w2
    q1 = q1
    q2 = q2
    k1 = k1
    k2 = k2
    k3 = k3
    k4 = k4
    Operation = {o1, o2}
    WorkItem = {w1, w2}
    ItemOf <- MCItemEach
    Request = {q1, q2}
    Coordinator = {k1, k2, k3, k4}
    Dispatcher = TRUE
    MaxDrift = 0
    RecordLimit = 6
    Plan <- MCRevisions
INVARIANTS
    OnlyLeftoversAreRecovered
SYMMETRY Symmetries
