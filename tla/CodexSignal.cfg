SPECIFICATION TurnSpec
CONSTANTS
    Transcript <- MCTranscript
    MaxStrays = 0
PROPERTIES
    CleanupFailsForTheLiving
CHECK_DEADLOCK FALSE
