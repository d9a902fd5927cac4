CONSTANTS
    Node = {n1, n2}
    Transaction = {t1, t2}
    MaxRound = 4
    MaxPayload = 1
    MaxCommits = 1
SPECIFICATION LedgerSpec
INVARIANT WholeBlocksOnce
PROPERTY CommitsReachLedger
SYMMETRY Symmetry
CHECK_DEADLOCK FALSE
