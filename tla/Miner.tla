------------------------------- MODULE Miner -------------------------------
(***************************************************************************)
(* One node's miner (mynode/src/miner.rs).  It is told which tip to mine on,  *)
(* and at the start of every slot it may win the lottery and mine a block.     *)
(* A tip of a slot that has not begun on this node is kept until it has.        *)
(*                                                                           *)
(* The clock is SystemTime (74), read at every tick and compared with nothing: it  *)
(* may stand still between two ticks (a burst of ticks that were missed), skip       *)
(* slots, or be set back.                                                             *)
(***************************************************************************)
EXTENDS LcBlockTree, Sequences

CONSTANTS Slot,                       \* slots of the clock
          produce_adversarial_blocks,
          MaxDeferred                 \* bound: tips kept for later

VARIABLES minted,                    \* every block there is
          tip_mining,                \* rx_tip_mining
          current_parent,
          accept_blocks_for_slot,
          blocks_from_future_slots,  \* the tips kept for later, in order of arrival
          latest_slot                \* history: the latest slot the clock has shown

Init ==
    /\ current_parent = Genesis
    /\ accept_blocks_for_slot = 0
    /\ blocks_from_future_slots = << >>
    /\ latest_slot = 0

(* Mutant of HasBegun: a tip of the next slot is taken at once.                *)
MutHasBegunEarly(e, slot) == e.slot <= slot + 1

HasBegun(e, slot) == e.slot <= slot

TakeTip ==
    /\ tip_mining # << >>
    /\ tip_mining' = Tail(tip_mining)
    /\ LET e == Head(tip_mining) IN
       IF HasBegun(e, accept_blocks_for_slot)
       THEN /\ current_parent' = e.tip
            /\ UNCHANGED blocks_from_future_slots
       ELSE /\ Len(blocks_from_future_slots) < MaxDeferred
            /\ blocks_from_future_slots' = Append(blocks_from_future_slots, e)
            /\ UNCHANGED current_parent
    /\ UNCHANGED <<minted, accept_blocks_for_slot, latest_slot>>

(* A block is mined on the current parent and published.                                        *)
MineBlock(t_slot) ==
    \E d \in Digest \ DOMAIN minted :
        minted' = With(minted, d, [parent      |-> current_parent,
                                   slot        |-> t_slot,
                                   adversarial |-> produce_adversarial_blocks])

(* Mutant of ApplyDeferred: the tips kept for later are forgotten.              *)
MutDeferredForgotten(t_slot) ==
    /\ blocks_from_future_slots' = << >>
    /\ UNCHANGED current_parent

(* The kept tips whose slot has begun are applied in the order they came: the    *)
(* last of them becomes the parent.                                               *)
Waiting(kept, slot) ==
    LET rest[k \in 0 .. Len(kept)] ==
            IF k = 0 THEN << >>
            ELSE IF HasBegun(kept[k], slot) THEN rest[k - 1] ELSE Append(rest[k - 1], kept[k])
    IN rest[Len(kept)]

ApplyDeferred(t_slot) ==
    LET kept == blocks_from_future_slots
        begun == {k \in 1 .. Len(kept) : HasBegun(kept[k], t_slot)}
    IN /\ current_parent' = IF begun = {} THEN current_parent
                            ELSE kept[CHOOSE k \in begun : \A j \in begun : j <= k].tip
       /\ blocks_from_future_slots' = Waiting(kept, t_slot)

(* interval_lc.tick(): the lottery is drawn, a block is mined on the parent of    *)
(* the slot before, and only then the tips of this slot are let in.               *)
Tick ==
    /\ \E t_slot \in Slot :
         /\ MineBlock(t_slot) \/ UNCHANGED minted
         /\ accept_blocks_for_slot' = t_slot
         /\ latest_slot' = IF t_slot > latest_slot THEN t_slot ELSE latest_slot
         /\ ApplyDeferred(t_slot)
    /\ UNCHANGED tip_mining
=============================================================================
