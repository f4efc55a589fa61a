SPECIFICATION Spec
CONSTANTS
    Size = 3
    ChunkSize = 2
    UserOps <- AcceptOrDecline
    Faults = {}
CHECK_DEADLOCK FALSE
INVARIANT SourceKept
