SPECIFICATION FairSpec
CONSTANTS
    p1 = p1
    c1 = c1
    parent = parent
    child = child
    NoItem = NoItem
    NoTx = NoTx
    t1 = t1
    t2 = t2
    k1 = k1
    v1 = v1
    NoVal = NoVal
    NoProc = NoProc
PROPERTIES
    
    WorkIsDone
CHECK_DEADLOCK FALSE
