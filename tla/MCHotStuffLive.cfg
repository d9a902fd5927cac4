CONSTANTS
    a1 = a1  a2 = a2  a3 = a3  f = f  x1 = x1  x2 = x2
    Authority = {a1, a2, a3}
    Faulty = {}
    Stake <- EqualStake
    Leader <- Turns
    Payload = {x1}
    Offered <- OnePayload
    MayBeMissing = {x1}
    NoTC = NoTC
    MaxRound = 4
    Forging = "nothing"
    TimerRounds = {1}
    StrayTCs <- NoTCs
    StrayLoopBacks <- NoBlocks
SPECIFICATION FairSpec
PROPERTIES EveryoneCommits
CHECK_DEADLOCK FALSE
