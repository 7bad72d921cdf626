SPECIFICATION LruSpec
CONSTANTS
    None = None
    Procs = {p1, p2}
    Writers = {p1, p2}
    Keys = {k1, k2, k3}
    Sizes = {1, 2}
    Capacity = 2
    MaxElems = 6
INVARIANT CapacityHeld
CHECK_DEADLOCK FALSE
