SPECIFICATION FairSpec
CONSTANTS
    n1 = n1
    n2 = n2
    n3 = n3
    outsider = outsider
    r1 = r1
    r2 = r2
    b1 = b1
    b2 = b2
    Replica <- MCReplica
    Author <- MCAuthor
    Committee <- MCCommittee
    Stake <- MCStake
    Block <- MCBlock
    NoCheckpoint = NoCheckpoint
    NoVote = NoVote
    RejectVote = RejectVote
    Undecodable = Undecodable
    Submitted <- VotesAndJunk
    MaxLedger = 4
    MaxIteration = 1
CHECK_DEADLOCK FALSE
INVARIANTS
    Agreement
    DecisionsHaveEvidence
    LatestVoteCounts
PROPERTIES
    ImplementsCheckpointLog
    EveryoneDecides
