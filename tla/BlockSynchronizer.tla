-------------------------- MODULE BlockSynchronizer --------------------------
(***************************************************************************)
(* The synchronizer of the consensus core (consensus/src/synchronizer.rs): a    *)
(* task that keeps the blocks whose parent is not stored, asks the other nodes   *)
(* for the parents, and loops the blocks back to the core when the parents are     *)
(* stored.  The requests are ignored by the task at the other end of the channel to    *)
(* the network (consensus/src/consensus.rs:175): what is modelled is the wait for room.  *)
(***************************************************************************)
EXTENDS Integers, Sequences

CONSTANTS Block, Genesis,
          ParentOf,         \* Block::parent
          InnerCapacity, CoreCapacity

VARIABLES stored,        \* the blocks in the store
          core_channel,  \* tx_core: messages for the core
          inner_channel, \* blocks for the synchronizer
          suspended,     \* pending: the blocks it has a waiter for
          requests,      \* the parents it has asked for
          hand           \* the message that the task waits to send, if there is one

Init ==
    /\ inner_channel = << >>
    /\ suspended = {}
    /\ requests = {}
    /\ hand = {}

(* get_parent_block, at the core's end                                        *)
HasParent(b) == ParentOf[b] = Genesis \/ ParentOf[b] \in stored

(* The send of a block that waits for its parent, at the core's end            *)
Suspend(b) ==
    /\ Len(inner_channel) < InnerCapacity
    /\ inner_channel' = Append(inner_channel, b)

LoopBack(b) == [kind |-> "LoopBack", block |-> b]
SyncRequest == [kind |-> "SyncRequest"]

-----------------------------------------------------------------------------
(* The task.  It waits inside a branch of its select for room in a channel, and   *)
(* takes nothing else meanwhile.                                                   *)
Free == hand = {}

(* Mutant of Take: one request at a time.                                      *)
MutTake ==
    /\ Free
    /\ inner_channel # << >>
    /\ inner_channel' = Tail(inner_channel)
    /\ LET b == Head(inner_channel) IN
         /\ suspended' = suspended \cup {b}
         /\ IF b \in suspended \/ requests # {}
            THEN UNCHANGED <<requests, hand>>
            ELSE /\ requests' = requests \cup {ParentOf[b]}
                 /\ hand' = {SyncRequest}
    /\ UNCHANGED <<stored, core_channel>>

Take ==
    /\ Free
    /\ inner_channel # << >>
    /\ inner_channel' = Tail(inner_channel)
    /\ LET b == Head(inner_channel) IN
         /\ suspended' = suspended \cup {b}
         /\ IF b \in suspended \/ ParentOf[b] \in requests
            THEN UNCHANGED <<requests, hand>>
            ELSE /\ requests' = requests \cup {ParentOf[b]}
                 /\ hand' = {SyncRequest}
    /\ UNCHANGED <<stored, core_channel>>

(* Mutant of Resume: the block is not sent back.                               *)
MutResume(b) ==
    /\ Free
    /\ b \in suspended
    /\ HasParent(b)
    /\ suspended' = suspended \ {b}
    /\ requests' = requests \ {ParentOf[b]}
    /\ UNCHANGED <<stored, core_channel, inner_channel, hand>>

(* The waiter's notify_read of the parent returns.                             *)
Resume(b) ==
    /\ Free
    /\ b \in suspended
    /\ HasParent(b)
    /\ suspended' = suspended \ {b}
    /\ requests' = requests \ {ParentOf[b]}
    /\ hand' = {LoopBack(b)}
    /\ UNCHANGED <<stored, core_channel, inner_channel>>

(* The timer: what has been asked for too long ago is asked for again, one        *)
(* request after the other.                                                        *)
Retry ==
    /\ Free
    /\ requests # {}
    /\ hand' = {SyncRequest}
    /\ UNCHANGED <<stored, core_channel, inner_channel, suspended, requests>>

SendLoopBack ==
    /\ \E b \in Block : LoopBack(b) \in hand /\ core_channel' = Append(core_channel, LoopBack(b))
    /\ Len(core_channel) < CoreCapacity
    /\ hand' = {}
    /\ UNCHANGED <<stored, inner_channel, suspended, requests>>

(* The task at the other end of the network channel ignores the request, and so    *)
(* there is room in the end.                                                        *)
SendRequest ==
    /\ SyncRequest \in hand
    /\ hand' = {}
    /\ UNCHANGED <<stored, core_channel, inner_channel, suspended, requests>>

Resumed == \E b \in Block : Resume(b)
Send == SendLoopBack \/ SendRequest
Step == Take \/ Resumed \/ Retry \/ Send
=============================================================================
