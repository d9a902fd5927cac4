------------------------- MODULE LcBlockTreeManager -------------------------
(***************************************************************************)
(* One node's block tree manager (mynode/src/lcblocktreemanager.rs): one task  *)
(* that owns the tree and the list of checkpoints.  It takes, in any order,     *)
(* gossiped blocks, checkpoint events and commands, and tells the miner which    *)
(* tip to mine on.  A block without a known parent, and a checkpoint that the      *)
(* tree does not have, make the task panic.                                        *)
(*                                                                               *)
(* The environment mines blocks, anywhere and at any time, and gossip delivers      *)
(* them in any order, never, or again and again.  The checkpoints that are decided   *)
(* extend each other (see Checkpointing for the protocol that makes them do so).      *)
(***************************************************************************)
EXTENDS LcBlockTree, Sequences

CONSTANTS Slot,             \* the slots of blocks
          propose_k_deep,
          lctree_logava_k_deep,
          TipCapacity,      \* bound: capacity of the channel tx_tip_mining
          MaxCheckpoints    \* bound: decisions for a block

ASSUME ManagerAssumption ==
    /\ Slot \subseteq Nat /\ 0 \in Slot
    /\ propose_k_deep \in Nat
    /\ lctree_logava_k_deep \in Nat
    /\ TipCapacity \in Nat \ {0}
    /\ MaxCheckpoints \in Nat

VARIABLES minted,       \* every block there is, whoever mined it: digest -> block
          tree,         \* lcblocktree
          checkpoints,  \* the checkpoints, oldest first
          tip_mining,   \* tx_tip_mining: tips the miner has not taken
          panicked      \* the task has ended with a panic

vars == <<minted, tree, checkpoints, tip_mining, panicked>>

LatestCheckpoint ==
    IF checkpoints = << >> THEN Genesis ELSE checkpoints[Len(checkpoints)]

Init ==
    /\ minted = [d \in {Genesis} |-> GenesisBlock]
    /\ tree = NewTree
    /\ checkpoints = << >>
    /\ tip_mining = << >>
    /\ panicked = FALSE

(* Somebody mines a block on some block; its digest may be any that is free.    *)
Mint ==
    /\ \E d \in Digest \ DOMAIN minted, p \in DOMAIN minted,
          s \in Slot, adv \in BOOLEAN :
         minted' = With(minted, d, [parent |-> p, slot |-> s, adversarial |-> adv])
    /\ UNCHANGED <<tree, checkpoints, tip_mining, panicked>>

(* tx_tip_mining.send, which waits for room in the channel.                     *)
SendTip(t, cp) ==
    /\ Len(tip_mining) < TipCapacity
    /\ \E tip \in LeadingTips(t, cp) :
          tip_mining' = Append(tip_mining, [tip |-> tip, slot |-> t.lcblocks[tip].slot])

(* The answers to the commands GetCurrentProposal and ValidateProposal, and the  *)
(* available log that is only written to the node's log.                          *)
CurrentProposal(t, cp) == HigherOf(t, cp, KDeep(t, propose_k_deep, LeadingTip(t, cp)))

LogAva(t, cp) == HigherOf(t, cp, KDeep(t, lctree_logava_k_deep, LeadingTip(t, cp)))

ValidateProposal(t, cp, b) ==
    /\ {cp, b} \subseteq Known(t)
    /\ IsPrefixOf(t, cp, b)
    /\ IsPrefixOf(t, b, LeadingTip(t, cp))

(* A block arrives whose parent the tree knows.                                 *)
AddBlock ==
    /\ ~ panicked
    /\ \E d \in DOMAIN minted \ {Genesis} :
         /\ CanAdd(tree, minted[d])
         /\ tree' = Add(tree, d, minted[d])
         /\ SendTip(tree', LatestCheckpoint)
    /\ UNCHANGED <<minted, checkpoints, panicked>>

(* panic!("Error when adding block to tree")                                     *)
AddOrphan ==
    /\ ~ panicked
    /\ \E d \in DOMAIN minted \ {Genesis} : ~ CanAdd(tree, minted[d])
    /\ panicked' = TRUE
    /\ UNCHANGED <<minted, tree, checkpoints, tip_mining>>

(* Mutant of AddCheckpoint: the miner is not told of the decision.                 *)
MutAddCheckpointSilent ==
    /\ ~ panicked
    /\ Len(checkpoints) < MaxCheckpoints
    /\ \E cp \in Known(tree) :
         /\ Extends(minted, LatestCheckpoint, cp)
         /\ checkpoints' = Append(checkpoints, cp)
    /\ UNCHANGED <<minted, tree, tip_mining, panicked>>

(* CheckpointEvent::NewCheckpoint(i, Some(cp)): decided was a block that extends    *)
(* the last checkpoint. For None nothing happens.                                  *)
AddCheckpoint ==
    /\ ~ panicked
    /\ Len(checkpoints) < MaxCheckpoints
    /\ \E cp \in DOMAIN minted :
         /\ Extends(minted, LatestCheckpoint, cp)
         /\ cp \in Known(tree)
         /\ checkpoints' = Append(checkpoints, cp)
         /\ SendTip(tree, cp)
    /\ UNCHANGED <<minted, tree, panicked>>

(* tie_break's height(d2).unwrap() on a checkpoint the tree does not have.          *)
AddUnknownCheckpoint ==
    /\ ~ panicked
    /\ Len(checkpoints) < MaxCheckpoints
    /\ \E cp \in DOMAIN minted :
         /\ Extends(minted, LatestCheckpoint, cp)
         /\ cp \notin Known(tree)
         /\ checkpoints' = Append(checkpoints, cp)
    /\ panicked' = TRUE
    /\ UNCHANGED <<minted, tree, tip_mining>>

-----------------------------------------------------------------------------
(***************************************************************************)
(* Properties                                                               *)
(***************************************************************************)

(* In whatever order and however often blocks arrive, the tree is closed under      *)
(* parents, it has the blocks as they were mined, every precomputed height is the   *)
(* length of the chain back to genesis, and idx_tips has every known block that no   *)
(* known block extends (lcblocks.rs:118-144).                                         *)
TreeIsTrue ==
    \A d \in Known(tree) :
        /\ d \in DOMAIN minted /\ tree.lcblocks[d] = minted[d]
        /\ minted[d].parent # NoParent => minted[d].parent \in Known(tree)
        /\ tree.precomputed_height[d] = Depth(minted, d)
        /\ d \in tree.idx_tips \/ \E c \in Known(tree) : minted[c].parent = d

(* a is the better tip: higher, or as high and adversarial where b is honest, or      *)
(* alike and with the smaller digest.                                                  *)
Beats(a, b) ==
    \/ Depth(minted, a) > Depth(minted, b)
    \/ /\ Depth(minted, a) = Depth(minted, b)
       /\ \/ minted[a].adversarial /\ ~ minted[b].adversarial
          \/ minted[a].adversarial = minted[b].adversarial /\ a < b

(* leading_tip_extending (lcblocks.rs:203-214) only looks at the tips, in the order      *)
(* of a hash set, and never undoes a choice; still its result is the best of all known    *)
(* blocks that extend the checkpoint, whatever the order.                                  *)
TipIsBest ==
    ~ panicked =>
        \A tip \in LeadingTips(tree, LatestCheckpoint) :
            /\ Extends(minted, LatestCheckpoint, tip)
            /\ \A d \in Known(tree) \ {tip} :
                  Extends(minted, LatestCheckpoint, d) => Beats(tip, d)

(* What a node would propose as leader it would accept as a voter, as long as its       *)
(* tree does not change: GetCurrentProposal against ValidateProposal.                     *)
OwnProposalIsValid ==
    ~ panicked =>
        ValidateProposal(tree, LatestCheckpoint, CurrentProposal(tree, LatestCheckpoint))

(* The accountable log is always a prefix of the available one (73-90, 117-134), also    *)
(* right after a checkpoint on a branch that was not the longest.                          *)
AccIsPrefixOfAva ==
    ~ panicked => Extends(minted, LatestCheckpoint, LogAva(tree, LatestCheckpoint))

(* The newest tip on its way to the miner extends the latest checkpoint: a decision        *)
(* for another branch redirects the miner at once.                                          *)
NewestTipExtendsCheckpoint ==
    ~ panicked /\ tip_mining # << >> =>
        Extends(minted, LatestCheckpoint, tip_mining[Len(tip_mining)].tip)

(* "worst case we get duplicate gossip msg propagation, but that is OK"                      *)
(* (myadversarialnode.rs:255-258): a block that arrives again may become a tip again,         *)
(* but it never changes the tip the node follows.                                              *)
DuplicatesAreHarmless ==
    [][Known(tree') = Known(tree) /\ ~ panicked' /\ checkpoints' = checkpoints =>
          LeadingTips(tree', LatestCheckpoint) = LeadingTips(tree, LatestCheckpoint)]_vars
=============================================================================
