SPECIFICATION NodeSpec
CONSTANTS
    MaxDigest = 3
    Digest <- MCDigest
    Genesis <- MCGenesis
    NoParent = NoParent
    Slot = {0, 1}
    propose_k_deep = 1
    lctree_logava_k_deep = 2
    TipCapacity = 1
    MaxCheckpoints = 1
    MaxDeferred = 1
    produce_adversarial_blocks = FALSE
CHECK_DEADLOCK FALSE
INVARIANTS
    TreeIsTrue
    TipIsBest
    OwnProposalIsValid
    AccIsPrefixOfAva
    NewestTipExtendsCheckpoint
    TipNotLost
PROPERTIES
    OwnSlotsNeverDecrease
    DuplicatesAreHarmless
