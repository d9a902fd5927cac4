SPECIFICATION MempoolFairSpec
CONSTANTS
    t1 = t1
    t2 = t2
    big = big
    Tx = {t1, t2, big}
    TooBig = {big}
    QueueCapacity = 4
    PerBlock = 1
    CoreCapacity = 3
    NetworkCapacity = 2
    InboundCapacity = 2
    MaxSubmits = 2
    MaxArrivals = 1
CHECK_DEADLOCK FALSE
INVARIANTS
    ProposedAreKnown
    NoPayloadLost
PROPERTY EveryTxGoesOut
