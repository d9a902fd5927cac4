SPECIFICATION RSpec
CONSTANTS
    a1 = a1  a2 = a2  a3 = a3  f = f  x1 = x1  x2 = x2
    Authority = {a1, a2, a3, f}
    Faulty = {}
    Stake <- MCStake
    Leader <- HonestLeader
    Payload = {x1, x2}
    Offered <- OneChoice
    MayBeMissing = {}
    NoTC = NoTC
    MaxRound = 4
    Forging = "nothing"
    TimerRounds = {}
    StrayTCs <- NoTCs
    StrayLoopBacks <- NoBlocks
    MaxRestarts = 1
SYMMETRY Symmetry
CHECK_DEADLOCK FALSE
INVARIANTS
    RestartsKeepCommits
    OnlyRestartsForget
