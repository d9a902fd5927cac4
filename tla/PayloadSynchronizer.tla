------------------------- MODULE PayloadSynchronizer -------------------------
(***************************************************************************)
(* The synchronizer of the mempool (mempool/src/synchronizer.rs): a task that   *)
(* keeps the blocks some of whose payloads are not stored, and loops them back    *)
(* to the consensus core when they are.  A waiter is a future: it ends when the     *)
(* payloads are there or when it is cancelled, and when both is so, either way.       *)
(*                                                                                 *)
(* A waiter's handler is in pending, under the block; pending without the block means *)
(* that the waiter has been cancelled, or that its handler has been dropped, which is  *)
(* the same to it.  Of one block there can be one live waiter and any number of         *)
(* cancelled ones.  Requests to other nodes are ignored by the task that should send      *)
(* them (mempool/src/mempool.rs:169): what is modelled is the wait for room on its channel. *)
(***************************************************************************)
EXTENDS Integers, Sequences

CONSTANTS Block, Payload,
          PayloadOf,       \* Block::payload, as a set
          RoundOf,         \* Block::round
          SyncCapacity, CoreCapacity

VARIABLES payload_store,    \* the payloads in the store
          core_channel,     \* messages for the consensus core
          sync_channel,     \* messages for the synchronizer
          pending,          \* the blocks with a live waiter
          cancelled,        \* cancelled[b]: cancelled waiters of b that have not ended
          payload_requests, \* the payloads asked for -> the round they were asked for in
          payload_hand      \* the message that the task waits to send, if there is one

Init ==
    /\ sync_channel = << >>
    /\ pending = {}
    /\ cancelled = [b \in Block |-> 0]
    /\ payload_requests = [x \in {} |-> 0]
    /\ payload_hand = {}

(* verify_payload and cleanup, at the mempool core's end                      *)
Missing(b) == PayloadOf[b] \ payload_store

Sync(b) == [kind |-> "Sync", block |-> b, missing |-> Missing(b)]
Clean(r) == [kind |-> "Clean", round |-> r]

Tell(message) ==
    /\ Len(sync_channel) < SyncCapacity
    /\ sync_channel' = Append(sync_channel, message)

LoopBack(b) == [kind |-> "LoopBack", block |-> b]
PayloadRequest == [kind |-> "PayloadRequest"]

-----------------------------------------------------------------------------
(* The task.  It waits inside a branch of its select for room in a channel, and   *)
(* takes nothing else meanwhile.                                                   *)
Free == payload_hand = {}

Without(f, S) == [x \in DOMAIN f \ S |-> f[x]]

TakeSync ==
    /\ Free
    /\ sync_channel # << >>
    /\ sync_channel' = Tail(sync_channel)
    /\ LET m == Head(sync_channel)
           new == m.missing \ DOMAIN payload_requests
       IN /\ m.kind = "Sync"
          /\ pending' = pending \cup {m.block}
          /\ IF m.block \in pending \/ new = {}
             THEN UNCHANGED <<payload_requests, payload_hand>>
             ELSE /\ payload_requests' = [x \in DOMAIN payload_requests \cup new |->
                        IF x \in new THEN RoundOf[m.block] ELSE payload_requests[x]]
                  /\ payload_hand' = {PayloadRequest}
    /\ UNCHANGED <<payload_store, core_channel, cancelled>>

TakeClean ==
    /\ Free
    /\ sync_channel # << >>
    /\ sync_channel' = Tail(sync_channel)
    /\ LET m == Head(sync_channel)
           old == {b \in pending : RoundOf[b] <= m.round}
       IN /\ m.kind = "Clean"
          /\ pending' = pending \ old
          /\ cancelled' = [b \in Block |-> cancelled[b] + (IF b \in old THEN 1 ELSE 0)]
          /\ payload_requests' = Without(payload_requests,
                {x \in DOMAIN payload_requests : payload_requests[x] <= m.round})
    /\ UNCHANGED <<payload_store, core_channel, payload_hand>>

(* Mutant of WaiterReady: the first payload is enough.                          *)
MutWaiterReady(b) == PayloadOf[b] \cap payload_store # {}

(* try_join_all: what was there at the time of the Sync is there for good.       *)
WaiterReady(b) == Missing(b) = {}

(* The payloads are there: the block goes back to the core.                      *)
Return(b) ==
    /\ Free
    /\ WaiterReady(b)
    /\ pending' = pending \ {b}
    /\ payload_requests' = Without(payload_requests, PayloadOf[b])
    /\ payload_hand' = {LoopBack(b)}
    /\ UNCHANGED <<payload_store, core_channel, sync_channel>>

Deliver(b) ==
    /\ b \in pending
    /\ Return(b)
    /\ UNCHANGED cancelled

(* A cancelled waiter finds the payloads all the same.  Removing its block from    *)
(* pending drops the handler of a younger waiter of this block, if there is one.     *)
DeliverCancelled(b) ==
    /\ cancelled[b] > 0
    /\ Return(b)
    /\ cancelled' = [cancelled EXCEPT ![b] = @ - 1 + (IF b \in pending THEN 1 ELSE 0)]

Discard(b) ==
    /\ Free
    /\ cancelled[b] > 0
    /\ cancelled' = [cancelled EXCEPT ![b] = @ - 1]
    /\ UNCHANGED <<payload_store, core_channel, sync_channel, pending,
                   payload_requests, payload_hand>>

(* The timer: one request for all that has been asked for too long ago.            *)
Retry ==
    /\ Free
    /\ DOMAIN payload_requests # {}
    /\ payload_hand' = {PayloadRequest}
    /\ UNCHANGED <<payload_store, core_channel, sync_channel, pending, cancelled,
                   payload_requests>>

SendLoopBack ==
    /\ \E b \in Block :
          /\ LoopBack(b) \in payload_hand
          /\ core_channel' = Append(core_channel, LoopBack(b))
    /\ Len(core_channel) < CoreCapacity
    /\ payload_hand' = {}
    /\ UNCHANGED <<payload_store, sync_channel, pending, cancelled,
                   payload_requests>>

(* The task at the other end of the network channel ignores the request, and so    *)
(* there is room in the end.                                                        *)
SendRequest ==
    /\ PayloadRequest \in payload_hand
    /\ payload_hand' = {}
    /\ UNCHANGED <<payload_store, core_channel, sync_channel, pending, cancelled,
                   payload_requests>>

Take == TakeSync \/ TakeClean
WaiterEnds == \E b \in Block : Deliver(b) \/ DeliverCancelled(b) \/ Discard(b)
Send == SendLoopBack \/ SendRequest
Step == Take \/ WaiterEnds \/ Retry \/ Send
=============================================================================
