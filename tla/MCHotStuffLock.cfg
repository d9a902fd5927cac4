SPECIFICATION Spec
CONSTANTS
    a1 = a1  a2 = a2  a3 = a3  f = f  x1 = x1  x2 = x2
    Authority = {a1, a2, f}
    Faulty = {f}
    Stake <- TwoAndOne
    Leader <- MostlyFaulty
    Payload = {x1, x2}
    Offered <- OnePayload
    MayBeMissing = {}
    NoTC = NoTC
    MaxRound = 5
    Forging = "votable"
    TimerRounds = {2}
    StrayTCs <- EarlyTC
    StrayLoopBacks <- StrayBlock
CHECK_DEADLOCK FALSE
INVARIANTS
    OneVotePerRound
    LockedBlocksStay
    CommitsAgree
