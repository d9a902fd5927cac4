SPECIFICATION FairSpec
CONSTANTS
    self = self
    other = other
    b1 = b1
    Self = self
    Authority <- Nodes
    Leader <- LeadsFirst
    boycott_proposals = FALSE
    Block <- OneBlock
    NoCheckpoint = NoCheckpoint
    NoProposal = NoProposal
    NoVote = NoVote
    RejectVote = RejectVote
    Running = Running
    MaxIteration = 1
    MaxQueue = 2
CHECK_DEADLOCK FALSE
INVARIANTS
    AssertNeverFires
    NeverBlocksItself
    NoProposalLost
PROPERTIES
    VoteDiscipline
    ConsensusResumes
    
