SPECIFICATION FairSpec
CONSTANTS
    Devices <- TwoDevices
    Admins = {}
    Unseen = {}
    Kinds = {"text"}
    MaxSent = 2
    Faults = {"stop"}
    MaxFaults = 1
    Forgetful = {}
    JournalSize = 2
CHECK_DEADLOCK FALSE
PROPERTY QueuedArrive
