SPECIFICATION Spec
CONSTANTS
    Addresses = {1, 2, 3, 4, 5, 6, 7, 8, 9, 10, 11, 12, 13}
    Span = 13
    nodeFieldsSize = 2
    staticDepth = 2
    NKeys = 2
    NNames = 1
    Values = {0}
    Priorities = {1, 2}
    MaxDepth = 2
    MaxID = 3
    MaxChanges = 4
INVARIANT NoOrphans
CHECK_DEADLOCK FALSE
