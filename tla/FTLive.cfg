SPECIFICATION FairSpec
CONSTANTS
    Size = 3
    ChunkSize = 2
    UserOps <- AcceptCancelTexts
    Faults = {"timeout", "refuse"}
CHECK_DEADLOCK FALSE
PROPERTIES
    SendEndsOrJams
    Delivered
    StopIsFinal
