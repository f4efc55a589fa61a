SPECIFICATION FairSpec
CONSTANTS
    Senders <- Both
    Flushers = {"a"}
    MaxTexts = 1
    MaxFaults = 2
CHECK_DEADLOCK FALSE
INVARIANTS
    TypeOK
    DeliveredMeansKept
PROPERTY TextsArrive
