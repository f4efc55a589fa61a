SPECIFICATION Spec
CONSTANTS
    o = o
    a = a
    b = b
    g = g
    h = h
    Devices <- ThreeDevices
    Owner = o
    Groups <- OneGroup
    Given <- TwoRoles
    Kinds <- AllKinds
    Faults = {"offline"}
    MaxClock = 2
SYMMETRY Others
CHECK_DEADLOCK FALSE
INVARIANTS
    TypeOK
    RolesGranted
    MembersAgree
    HoldersBelong
    DeletionHolds
    DemotionHolds
