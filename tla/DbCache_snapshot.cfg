SPECIFICATION Spec
CONSTANTS
    NoVal = NoVal
    NoProc = NoProc
    Procs = {p1, p2}
    Keys = {k1}
    Values = {v1}
INVARIANTS
    SnapshotAtomic
