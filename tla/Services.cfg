SPECIFICATION ServicesSpec
SYMMETRY Symmetry
CONSTANTS
    Messages <- SomeMessages
    Follow <- SomeFollow
    Conns <- SomeConns
    MaxFrames = 2
    p1 = p1
    p2 = p2
    k1 = k1
    k2 = k2
    k3 = k3
    c1 = c1
    c2 = c2
    parent = parent
    child = child
    NoElement = NoElement
    NoItem = NoItem
    NoTx = NoTx
INVARIANTS
    ReadsBack
    Exchanged
    Consistent
    CacheSound
    SubscriptionsClosed
    WorkKept
    HeaderListSound
    AddressesSound
    StallsFound
    SessionsAgree
    
    FiltersSound
    CoinsSelected
    
CHECK_DEADLOCK FALSE
