SPECIFICATION JournalSpec
CONSTANTS
    Absent = Absent
    c1 = c1
    c2 = c2
    e1 = e1
    e2 = e2
    i1 = i1
    b1 = b1
    Caller = {c1, c2}
    DirectEvent = {e1, e2}
    Importer = {c1, c2}
    Batch = {b1}
    BatchEvents <- MCBatchEvents
    Needs <- MCNeeds
    PartialWrite = {"nothing", "allButNewline", "whole"}
INVARIANTS
    AcknowledgedSurvives
SYMMETRY Symmetries
CHECK_DEADLOCK FALSE
