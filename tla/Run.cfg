SPECIFICATION RuntimeSpec
CONSTANTS
    None = None
    Nothing = Nothing
    w1 = w1
    w2 = w2
    WorkItem = {w1, w2}
    Capacity = {1, 2}
    MaxAttempts <- MCMaxAttempts
    MaxRestarts = 1
    Transcript <- MCTranscript
    MaxStrays = 1
    c1 = c1
    c2 = c2
    e1 = e1
    e2 = e2
    i1 = i1
    b1 = b1
    Caller = {c1, c2}
    DirectEvent = {e1, e2}
    Importer = {c1}
    Batch = {b1}
    BatchEvents <- MCBatchEvents
    Needs <- MCNeeds
    PartialWrite = {"part", "whole"}
    Absent = Absent
    u1 = u1
    Call = {1, 2}
    LinearRequest <- MCRequest
    IssueId = {u1}
    Place = {p1, p2}
    p1 = p1
    p2 = p2
INVARIANTS
    AdaptersWithinCapacity
    AcknowledgedSurvives
    ServesWhatIsOnDisk
    NoProcessIsLeft
    TurnDecides
    AnswersAreTrue
PROPERTIES
    NoDispatchOneAtATime
    AcceptedCancelInterrupts
    ImplementsLedger
    EverythingSettles
CHECK_DEADLOCK FALSE
