SPECIFICATION ConfSpec
CONSTANTS
    Missing = Missing
    Broken = Broken
    a = a
    x = x
    Writer = {a}
    WorkspaceOf <- MCWorkspaceOf
    Requests <- MCRequests
    HandEdits <- MCHandEdits
    CrashableWriter = {}
    Initial <- MCInitial
PROPERTIES
    RestartIsAnnounced
CHECK_DEADLOCK FALSE
