SPECIFICATION Spec
CONSTANTS
    Size = 3
    ChunkSize = 2
    UserOps <- Decisions
    Faults = {"drop", "edit", "timeout", "crash"}
CHECK_DEADLOCK FALSE
INVARIANTS
    TypeOK
    ConsentFirst
    ContiguousPrefix
    IntactCopy
    CompleteMeansCopied
