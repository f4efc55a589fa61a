SPECIFICATION FairSpec
CONSTANTS
    Devices <- TwoDevices
    Reach <- OneWay
    Skew <- AheadByOne
    Timeout = 1
    Tolerance = 0
    MaxTime = 4
    MaxStarts = 3
    MaxFaults = 1
CHECK_DEADLOCK FALSE
INVARIANTS
    TypeOK
    GoneInTime
    AnswersApart
PROPERTY ListsBack
