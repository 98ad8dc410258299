CONSTANTS
    c1 = c1
    c2 = c2
    Conns = {c1}
    SendBuffer = 1
    MaxSeq = 4
SPECIFICATION FairSpec
INVARIANTS
    TypeOK
    NoLostWakeup
PROPERTIES
    SubscribersCatchUp
    BrokenConnectionsAreReleased
    NotifyReturns
