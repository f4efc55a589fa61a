SPECIFICATION FairSpec
CONSTANTS
    Devices <- TwoDevices
    Admins = {"a"}
    Unseen <- AUnseen
    Kinds = {"text", "broadcast"}
    MaxSent = 2
    Faults = {"stop", "fail", "lose", "hang", "tear"}
    MaxFaults = 1
    Forgetful = {"b"}
    JournalSize = 1
CHECK_DEADLOCK FALSE
INVARIANTS
    TypeOK
    TextOnce
    BroadcastOnce
    NothingForgotten
PROPERTY QueueDrainsOrSticks
