SPECIFICATION LockSpec
CONSTANTS
    Nothing = Nothing
    Process = {p1, p2, p3}
    Crashable = {p1}
INVARIANTS
    OneControlRoom
CHECK_DEADLOCK FALSE
