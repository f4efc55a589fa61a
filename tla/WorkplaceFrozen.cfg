SPECIFICATION Spec
CONSTANTS
    o = o
    a = a
    b = b
    g = g
    h = h
    Devices <- TwoDevices
    Owner = o
    Groups <- TwoGroups
    Given = {"Manager"}
    Kinds <- GroupsAndTexts
    Faults = {}
    MaxClock = 4
CHECK_DEADLOCK FALSE
INVARIANT OwnerIsFollowed
