SYMMETRY Symmetry
SPECIFICATION Spec
CONSTANTS
    NoVal = NoVal
    NoProc = NoProc
    Procs = {p1, p2}
    Keys = {k1, k2}
    Values = {v1}
INVARIANTS
    IndInv
    WriterSeesCommitted
    SnapshotAtomicUnlessFlushed
    CloseLosesNothing
PROPERTIES
    ImplementsKVStore
