SPECIFICATION FairSpec
CONSTANTS
    MaxReqs = 2
    MaxFails = 1
    Target = 1
    a = a
    r = r
    Msgs = {a, r}
    Reject = r
    Plain = Plain
    NoMsg = NoMsg
    MaxPlain = 1
    MaxReceived = 1
    MaxTrickle = 1
INVARIANTS
    LateResultsHarmless
    RequestsServed
    MessagesAccounted
    PeersAgree
PROPERTIES
    RequestsEnd
    GoroutinesEnd
    HandshakesEnd
CHECK_DEADLOCK FALSE
