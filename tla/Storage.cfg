SPECIFICATION StorageSpec
CONSTANTS
    g = g
    a1 = a1
    a2 = a2
    b1 = b1
    None = None
    Garbage = Garbage
    Genesis = g
    Blocks <- MCBlocks
    Prev <- MCPrev
    Height <- MCHeight
    MaxHeaders = 3
    MaxFaults = 1
    Failures = {"crash", "index", "write", "truncate", "power"}
    d1 = d1
    d2 = d2
    NoLoc = NoLoc
INVARIANTS
    HeadersSound
    PowerLossHarmless
    
    TreapsSound
    BucketsSound
PROPERTIES
    RepairKeepsIndexed
CHECK_DEADLOCK FALSE
