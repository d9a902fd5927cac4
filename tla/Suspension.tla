------------------------------ MODULE Suspension ------------------------------
(***************************************************************************)
(* How a node's consensus core gets through blocks whose payloads or parents     *)
(* are late (consensus/src/core.rs, handle_proposal and process_block), with the   *)
(* two synchronizers that keep these blocks meanwhile, and the bounded channels       *)
(* between the three.  Rounds, votes and commits are in HotStuff.                       *)
(*                                                                                   *)
(* Gossip shows a proposal up to MaxShows times, and delivers payloads, in any order;    *)
(* the mempool core stores them.  The core waits for the mempool's answer to a Verify,    *)
(* and commands to the mempool are answered in order: the two cores are one task here,     *)
(* which waits where the mempool's core waits to tell its synchronizer.  A peer may also    *)
(* gossip a LoopBack (consensus.rs:153-163), which the core takes for its synchronizer's.    *)
(***************************************************************************)
EXTENDS Integers, Sequences

CONSTANTS Block, Genesis, ParentOf, Payload, PayloadOf, RoundOf,
          InnerCapacity, SyncCapacity, CoreCapacity,
          Reliable,     \* the proposals that gossip delivers for sure
          Foreign,      \* bound: the blocks that a peer gossips a LoopBack of, once
          MaxShows      \* bound: how often gossip delivers a proposal

ASSUME SuspensionAssumption ==
    /\ Genesis \notin Block
    /\ ParentOf \in [Block -> Block \cup {Genesis}]
    /\ PayloadOf \in [Block -> SUBSET Payload]
    /\ RoundOf \in [Block -> Nat]
    /\ {InnerCapacity, SyncCapacity, CoreCapacity} \subseteq Nat \ {0}
    /\ Reliable \subseteq Block /\ Foreign \subseteq Block /\ MaxShows \in Nat

VARIABLES stored, core_channel,
          core_hand,    \* what the core waits to send to a synchronizer, if anything
          inner_channel, suspended, requests, hand,
          payload_store, sync_channel, pending, cancelled, payload_requests, payload_hand,
          shown,        \* shown[b]: how often b was delivered
          looped        \* the blocks that a peer has gossiped a LoopBack of

B == INSTANCE BlockSynchronizer
P == INSTANCE PayloadSynchronizer

blockTask == <<suspended, requests, hand>>
payloadTask == <<pending, cancelled, payload_requests, payload_hand>>
blockSync == <<inner_channel, blockTask>>
payloadSync == <<sync_channel, payloadTask>>
vars == <<stored, core_channel, core_hand, payload_store, shown, looped, blockSync, payloadSync>>

Init ==
    /\ stored = {}
    /\ core_channel = << >> /\ core_hand = {}
    /\ payload_store = {}
    /\ shown = [b \in Block |-> 0] /\ looped = {}
    /\ B!Init /\ P!Init

-----------------------------------------------------------------------------
(* The environment                                                            *)
Show(b) ==
    /\ shown[b] < MaxShows
    /\ Len(core_channel) < CoreCapacity
    /\ shown' = [shown EXCEPT ![b] = @ + 1]
    /\ core_channel' = Append(core_channel, [kind |-> "Propose", block |-> b])
    /\ UNCHANGED <<stored, core_hand, payload_store, looped, blockSync, payloadSync>>

ForeignLoopBack(b) ==
    /\ b \in Foreign \ looped
    /\ Len(core_channel) < CoreCapacity
    /\ looped' = looped \cup {b}
    /\ core_channel' = Append(core_channel, [kind |-> "LoopBack", block |-> b])
    /\ UNCHANGED <<stored, core_hand, payload_store, shown, blockSync, payloadSync>>

(* The mempool's core stores it, unless it waits to tell its synchronizer something.  *)
PayloadArrives(x) ==
    /\ x \notin payload_store
    /\ \A m \in core_hand : m.kind = "Suspend"
    /\ payload_store' = payload_store \cup {x}
    /\ UNCHANGED <<stored, core_channel, core_hand, shown, looped, blockSync, payloadSync>>

-----------------------------------------------------------------------------
(* The core                                                                   *)
CoreFree == core_hand = {}

(* process_block: store the block and clean up the mempool, or wait for the parent. *)
ProcessBlock(b) ==
    IF B!HasParent(b)
    THEN stored' = stored \cup {b} /\ core_hand' = {P!Clean(RoundOf[b])}
    ELSE core_hand' = {[kind |-> "Suspend", block |-> b]} /\ UNCHANGED stored

(* handle_proposal, from the mempool's verification on.                            *)
HandleProposal ==
    /\ CoreFree
    /\ core_channel # << >>
    /\ core_channel' = Tail(core_channel)
    /\ LET m == Head(core_channel) IN
         /\ m.kind = "Propose"
         /\ IF P!Missing(m.block) = {}
            THEN ProcessBlock(m.block)
            ELSE core_hand' = {P!Sync(m.block)} /\ UNCHANGED stored
    /\ UNCHANGED <<payload_store, shown, looped, blockSync, payloadSync>>

HandleLoopBack ==
    /\ CoreFree
    /\ core_channel # << >>
    /\ core_channel' = Tail(core_channel)
    /\ Head(core_channel).kind = "LoopBack"
    /\ ProcessBlock(Head(core_channel).block)
    /\ UNCHANGED <<payload_store, shown, looped, blockSync, payloadSync>>

(* There is room for what the core waits to send.                                  *)
CoreSends ==
    /\ \E m \in core_hand :
          IF m.kind = "Suspend" THEN B!Suspend(m.block) /\ UNCHANGED sync_channel
                                ELSE P!Tell(m) /\ UNCHANGED inner_channel
    /\ core_hand' = {}
    /\ UNCHANGED <<stored, core_channel, payload_store, shown, looped, blockTask, payloadTask>>

othersThanBlockSync == <<core_hand, payload_store, shown, looped, payloadSync>>
othersThanPayloadSync == <<stored, core_hand, shown, looped, blockSync>>

Next ==
    \/ \E b \in Block : Show(b) \/ ForeignLoopBack(b)
    \/ \E x \in Payload : PayloadArrives(x)
    \/ HandleProposal
    \/ HandleLoopBack
    \/ CoreSends
    \/ B!Step /\ UNCHANGED othersThanBlockSync
    \/ P!Step /\ UNCHANGED othersThanPayloadSync

Spec == Init /\ [][Next]_vars

(* What is reliable is shown once at least, every payload arrives, and every branch of  *)
(* a task's select that is ready again and again is taken in the end, as tokio picks at   *)
(* random; what a task waits to send is sent once there is room.                           *)
FairSpec ==
    /\ Spec
    /\ \A b \in Reliable : WF_vars(shown[b] = 0 /\ Show(b))
    /\ \A x \in Payload : WF_vars(PayloadArrives(x))
    /\ WF_vars(HandleProposal \/ HandleLoopBack \/ CoreSends)
    /\ SF_vars(B!Take /\ UNCHANGED othersThanBlockSync)
    /\ SF_vars(B!Resumed /\ UNCHANGED othersThanBlockSync)
    /\ WF_vars(B!Send /\ UNCHANGED othersThanBlockSync)
    /\ SF_vars(P!Take /\ UNCHANGED othersThanPayloadSync)
    /\ SF_vars(P!WaiterEnds /\ UNCHANGED othersThanPayloadSync)
    /\ WF_vars(P!Send /\ UNCHANGED othersThanPayloadSync)

-----------------------------------------------------------------------------
(***************************************************************************)
(* Properties                                                               *)
(***************************************************************************)
Under(channel, kind) ==
    {channel[k].block : k \in {j \in 1 .. Len(channel) : channel[j].kind = kind}}
Held(messages, kind) == {m.block : m \in {n \in messages : n.kind = kind}}

(* The messages.                                                              *)
CoreMessage == [kind : {"Propose", "LoopBack"}, block : Block]
SyncMessage == [kind : {"Sync"}, block : Block, missing : SUBSET Payload]
                 \cup [kind : {"Clean"}, round : Nat]
FromCore == SyncMessage \cup [kind : {"Suspend"}, block : Block]
LoopBacks == [kind : {"LoopBack"}, block : Block]
AtMostOne(messages) == \A m, n \in messages : m = n

(* The values of the state variables; the channels keep their capacities.     *)
TypeOK ==
    /\ stored \subseteq Block /\ suspended \subseteq Block /\ pending \subseteq Block
    /\ payload_store \subseteq Payload
    /\ core_channel \in Seq(CoreMessage) /\ Len(core_channel) <= CoreCapacity
    /\ inner_channel \in Seq(Block) /\ Len(inner_channel) <= InnerCapacity
    /\ sync_channel \in Seq(SyncMessage) /\ Len(sync_channel) <= SyncCapacity
    /\ core_hand \subseteq FromCore /\ AtMostOne(core_hand)
    /\ hand \subseteq LoopBacks \cup {B!SyncRequest} /\ AtMostOne(hand)
    /\ payload_hand \subseteq LoopBacks \cup {P!PayloadRequest} /\ AtMostOne(payload_hand)
    /\ requests \subseteq Block \cup {Genesis}
    /\ DOMAIN payload_requests \subseteq Payload
    /\ cancelled \in [Block -> Nat]
    /\ shown \in [Block -> 0 .. MaxShows] /\ looped \subseteq Block

(* Whatever is late and in whatever order it comes, a processed block has its parent in *)
(* the store, also when a peer has gossiped a LoopBack of it; and its payloads, unless a   *)
(* peer has, as a LoopBack goes to process_block without a second look at the payloads       *)
(* (core.rs:453): analyze_block expects both ("Failed to retrieve payload (2)",                *)
(* mynode.rs:221).                                                                              *)
DependenciesFirst ==
    \A b \in stored :
        /\ B!HasParent(b)
        /\ b \in looped \/ PayloadOf[b] \subseteq payload_store

(* A block that came and is not processed is in somebody's hands: it is in a channel, a   *)
(* task waits to send it, or a waiter has it. The one exception is a block whose waiter was *)
(* cancelled because a block of its round or a later one had been processed.                 *)
NoneForgotten ==
    \A b \in Block :
        (shown[b] > 0 \/ b \in looped) /\ b \notin stored =>
            \/ b \in Under(core_channel, "Propose") \cup Under(core_channel, "LoopBack")
            \/ b \in Held(core_hand, "Sync") \cup Under(sync_channel, "Sync") \cup pending
            \/ b \in Held(core_hand, "Suspend")
            \/ \E k \in 1 .. Len(inner_channel) : inner_channel[k] = b
            \/ b \in suspended
            \/ b \in Held(hand, "LoopBack") \cup Held(payload_hand, "LoopBack")
            \/ \E c \in stored : RoundOf[c] >= RoundOf[b]

(* Whatever parent a suspended block waits for is being asked for until it is stored: a  *)
(* request that is removed for one child (synchronizer.rs:72) is not needed by another.    *)
MissingParentsRequested ==
    \A b \in suspended : ~ B!HasParent(b) => ParentOf[b] \in requests

(* No block and no parent falls between the two synchronizers and the core.               *)
NothingForgotten == TypeOK /\ NoneForgotten /\ MissingParentsRequested

(* The core waits for room in the channel of a synchronizer that waits for room in the    *)
(* channel of the core, which nobody empties then.                                          *)
MutualWait ==
    /\ Len(core_channel) = CoreCapacity
    /\ \/ /\ Held(hand, "LoopBack") # {}
          /\ Len(inner_channel) = InnerCapacity /\ Held(core_hand, "Suspend") # {}
       \/ /\ Held(payload_hand, "LoopBack") # {}
          /\ Len(sync_channel) = SyncCapacity
          /\ \E m \in core_hand : m.kind \in {"Sync", "Clean"}

(* With blocks that form one chain all blocks are processed, whatever comes late, and     *)
(* nobody waits for ever on a full channel but in one way: core and synchronizer wait for   *)
(* each other (consensus/src/synchronizer.rs:73 and 143, mempool/src/synchronizer.rs:113       *)
(* and 211), and then they do so for good.                                                      *)
AllProcessed == <>[](stored = Block \/ MutualWait)
=============================================================================
