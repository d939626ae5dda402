SPECIFICATION Spec
CONSTANTS
    None = None
    w1 = w1
    w2 = w2
    WorkItem = {w1, w2}
    Capacity = {2}
    MaxAttempts <- MCMaxAttempts
    MaxRestarts = 0
PROPERTIES
    NoDispatchAfterFence
CHECK_DEADLOCK FALSE
