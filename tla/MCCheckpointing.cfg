SPECIFICATION Spec
CONSTANTS
    Node = {n1, n2, n3}
    Faulty = {f}
    Digest = {0, 1, 2}
    Genesis = 0
    NoParent = none
    Minted <- SmallFork
    NoCheckpoint = NoCheckpoint
    Reject = Reject
    MaxIteration = 1
    ManagerKeepsUp = TRUE
SYMMETRY Symmetry
CHECK_DEADLOCK FALSE
INVARIANTS
    CheckpointsFormChain
    CheckpointsAvailable
