SPECIFICATION FairSpec
CONSTANTS
    Genesis = Genesis
    b1 = b1
    b2 = b2
    b3 = b3
    x = x
    y = y
    Block = {b1, b2, b3}
    Payload = {x, y}
    ParentOf <- ChainParent
    PayloadOf <- ChainPayload
    RoundOf <- ChainRounds
    InnerCapacity = 1
    SyncCapacity = 1
    CoreCapacity = 1
    Reliable = {b1, b2, b3}
    Foreign = {b2}
    MaxShows = 2
CHECK_DEADLOCK FALSE
INVARIANTS
    DependenciesFirst
    NothingForgotten
PROPERTY AllProcessed
