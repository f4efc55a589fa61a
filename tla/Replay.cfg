SPECIFICATION Spec
CONSTANTS
    Bursts <- MCBursts
    Probes <- MCProbes
    MaxSealed = 1088
CHECK_DEADLOCK FALSE
INVARIANTS
    WindowExact
PROPERTY OpenedOnce
