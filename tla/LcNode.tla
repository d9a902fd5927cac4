------------------------------- MODULE LcNode -------------------------------
(***************************************************************************)
(* The longest chain part of one node: the block tree manager and the miner,   *)
(* joined by the channel of tips and by gossip, which replays the node's own    *)
(* blocks to it like everybody else's.                                           *)
(***************************************************************************)
EXTENDS LcBlockTreeManager

CONSTANTS produce_adversarial_blocks, MaxDeferred

ASSUME NodeAssumption ==
    /\ produce_adversarial_blocks \in BOOLEAN
    /\ MaxDeferred \in Nat \ {0}

VARIABLES current_parent, accept_blocks_for_slot, blocks_from_future_slots,
          latest_slot

M == INSTANCE Miner

minerVars == <<current_parent, accept_blocks_for_slot, blocks_from_future_slots,
               latest_slot>>
nodeVars == <<minted, tree, checkpoints, tip_mining, panicked, minerVars>>

NodeInit == Init /\ M!Init

NodeNext ==
    \/ (Mint \/ AddBlock \/ AddOrphan \/ AddCheckpoint \/ AddUnknownCheckpoint)
         /\ UNCHANGED minerVars
    \/ (M!TakeTip \/ M!Tick) /\ UNCHANGED <<tree, checkpoints, panicked>>

NodeSpec == NodeInit /\ [][NodeNext]_nodeVars

-----------------------------------------------------------------------------
(***************************************************************************)
(* Properties                                                               *)
(***************************************************************************)

(* The values of the state variables.                                          *)
TypeOK ==
    /\ DOMAIN minted \subseteq Digest
    /\ \A d \in DOMAIN minted : minted[d] \in Block
    /\ DOMAIN tree.lcblocks = DOMAIN tree.precomputed_height
    /\ \A d \in Known(tree) : /\ tree.lcblocks[d] \in Block
                              /\ tree.precomputed_height[d] \in Nat
    /\ tree.idx_tips \subseteq Known(tree)
    /\ checkpoints \in Seq(DOMAIN minted)
    /\ tip_mining \in Seq([tip : DOMAIN minted, slot : Nat])
    /\ panicked \in BOOLEAN
    /\ current_parent \in DOMAIN minted
    /\ accept_blocks_for_slot \in Slot
    /\ blocks_from_future_slots \in Seq([tip : DOMAIN minted, slot : Slot])
    /\ latest_slot \in Slot

(* The node never mines on a block of a slot that has not begun on its clock,    *)
(* although such blocks are gossiped by nodes whose clocks are ahead                *)
(* (miner.rs:57-63, 93-105): a block that it mines is of no earlier slot than its    *)
(* parent, unless its clock has been set back and shows a slot that had passed.      *)
OwnSlotsNeverDecrease ==
    [][M!Tick => \A d \in DOMAIN minted' \ DOMAIN minted :
                    minted'[d].slot >= latest_slot =>
                       minted'[minted'[d].parent].slot <= minted'[d].slot]_nodeVars

(* No tip is lost: when no message is under way, the node mines on the leading    *)
(* tip of its tree, or that tip waits for its slot, or it was overtaken by a tip    *)
(* of a later slot that had to wait and was let in after it (miner.rs:95-98). So     *)
(* the parent can be stale, but only with a block of a later slot.                    *)
TipNotLost ==
    tip_mining = << >> /\ ~ panicked /\ Known(tree) # {Genesis} =>
        LET leading == LeadingTip(tree, LatestCheckpoint) IN
        \/ current_parent = leading
        \/ \E k \in 1 .. Len(blocks_from_future_slots) :
              blocks_from_future_slots[k].tip = leading
        \/ minted[current_parent].slot > minted[leading].slot
=============================================================================
