SPECIFICATION Spec
CONSTANTS
    Size = 0
    ChunkSize = 2
    UserOps <- AnswersAndTexts
    Faults = {"refuse", "refuseReceipt", "drop", "timeout", "crash", "torn"}
CHECK_DEADLOCK FALSE
INVARIANT CompleteMeansCopied
