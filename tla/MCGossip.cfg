SPECIFICATION GossipFairSpec
CONSTANTS
    consensus = consensus  lcblocks = lcblocks  m1 = m1  m2 = m2
    Topic = {consensus, lcblocks}
    Msg = {m1, m2}
    Ephemeral = {consensus}
    CmdCapacity = 1
    OutboundCapacity = 1
    OwnerCapacity = 1
    MaxRecords = 1
    MaxSent <- MostOnBlocks
    Foreign <- OnePerTopic
    Ending = {consensus}
CHECK_DEADLOCK FALSE
INVARIANT ReplayedInOrder
PROPERTY SentIsReplayed
