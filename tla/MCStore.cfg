SPECIFICATION FairSpec
CONSTANTS
    Request = {r1, r2}
    Key = {k1, k2}
    Value = {v1, v2}
    Absent = Absent
    New = New
    Asked = Asked
    Dropped = Dropped
    ChannelCapacity = 3
CHECK_DEADLOCK FALSE
INVARIANT NoLostWakeup
PROPERTIES
    ImplementsAtomicStore
    EveryRequestEnds
