SPECIFICATION Spec
CONSTANTS
    b1 = b1
    b2 = b2
    NoLoc = NoLoc
    Blocks <- MCBlocks
    RecLen <- LongRecLen
    MaxFileSize = 4
    MaxFileNum = 1
    PowerLoss = FALSE
INVARIANTS
    IndInv
    IndexReadable
    NeverCorrupt
    DurableIsACommit
    CursorBeyondIndex
PROPERTIES
    ViewChangesByCommit
