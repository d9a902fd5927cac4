-------------------------------- MODULE Mempool --------------------------------
(***************************************************************************)
(* The mempool of one node: the runner that makes a payload of every             *)
(* transaction (mempool/src/payload.rs), the core with its queue                   *)
(* (mempool/src/core.rs), the two tasks that hook them up to gossip                  *)
(* (mempool/src/mempool.rs, myrun), and the requests of the consensus core              *)
(* (consensus/src/mempool.rs).  Verify and the waiting blocks are in                      *)
(* PayloadSynchronizer.                                                                   *)
(*                                                                                       *)
(* The digest of a payload is the hash of its transactions, and the runner makes a         *)
(* payload at once of every transaction: payload, digest and transaction are the same        *)
(* thing here, a member of Tx.  Gossip replays what a node publishes to the node itself,      *)
(* and delivers what the others publish.                                                       *)
(***************************************************************************)
EXTENDS Naturals, SequencesExt, Selection

CONSTANTS Tx,
          TooBig,           \* payloads of more than max_payload_size
          QueueCapacity,    \* parameters.queue_capacity
          PerBlock,         \* how many digests fit into a block's max_payload_size
          CoreCapacity, NetworkCapacity, InboundCapacity,
          MaxSubmits, MaxArrivals   \* bounds: transactions, payloads of other nodes

ASSUME MempoolAssumption ==
    /\ TooBig \subseteq Tx
    /\ {QueueCapacity, PerBlock, CoreCapacity, NetworkCapacity, InboundCapacity}
         \subseteq Nat \ {0}
    /\ {MaxSubmits, MaxArrivals} \subseteq Nat

VARIABLES client,        \* client_channel: transactions of this node
          runner,        \* its place, and the payload it holds
          core_channel,  \* messages for the core
          core,          \* its place, and the payload it holds
          queue, payload_store,
          get,           \* is the consensus core waiting for the answer to a Get?
          network,       \* payloads on their way to gossip
          inbound,       \* payloads delivered by gossip
          published, heard,    \* payloads given to gossip, and got from other nodes
          proposed, cleaned,   \* digests handed out, and cleaned up
          submits, arrivals    \* how many there were

tasks == <<client, runner, core_channel, core, queue, payload_store, get>>
gossip == <<network, inbound, published, heard, arrivals>>
mempoolVars == <<tasks, gossip, proposed, cleaned, submits>>

At(place) == [at |-> place]
Holds(place, x) == [at |-> place, payload |-> x]
OwnPayload(x) == [kind |-> "OwnPayload", payload |-> x]
OthersPayload(x) == [kind |-> "Payload", payload |-> x]

MempoolInit ==
    /\ client = << >> /\ core_channel = << >> /\ network = << >> /\ inbound = << >>
    /\ runner = At("select") /\ core = At("select")
    /\ queue = << >>
    /\ payload_store = {} /\ published = {} /\ heard = {}
    /\ proposed = {} /\ cleaned = {}
    /\ get = FALSE
    /\ submits = 0 /\ arrivals = 0

-----------------------------------------------------------------------------
(* The runner                                                                 *)
Submit(x) ==
    /\ submits < MaxSubmits
    /\ submits' = submits + 1
    /\ client' = Append(client, x)
    /\ UNCHANGED <<runner, core_channel, core, queue, payload_store, get,
                   gossip, proposed, cleaned>>

RunnerTake ==
    /\ runner.at = "select"
    /\ client # << >>
    /\ client' = Tail(client)
    /\ runner' = Holds("sending", Head(client))
    /\ UNCHANGED <<core_channel, core, queue, payload_store, get,
                   gossip, proposed, cleaned, submits>>

RunnerSend ==
    /\ runner.at = "sending"
    /\ Len(core_channel) < CoreCapacity
    /\ core_channel' = Append(core_channel, OwnPayload(runner.payload))
    /\ runner' = At("sleeping")
    /\ UNCHANGED <<client, core, queue, payload_store, get,
                   gossip, proposed, cleaned, submits>>

(* min_block_delay is over.                                                   *)
RunnerWake ==
    /\ runner.at = "sleeping"
    /\ runner' = At("select")
    /\ UNCHANGED <<client, core_channel, core, queue, payload_store, get,
                   gossip, proposed, cleaned, submits>>

(* The core's request for a payload: no transaction ever stays with the runner, so  *)
(* the payload is empty, make() returns None, and the Get is answered with nothing.   *)
RunnerAnswer ==
    /\ runner.at = "select"
    /\ core = At("making")
    /\ core' = At("select")
    /\ get' = FALSE
    /\ UNCHANGED <<client, runner, core_channel, queue, payload_store,
                   gossip, proposed, cleaned, submits>>

-----------------------------------------------------------------------------
(* The core                                                                   *)

(* A message leaves the core channel.                                          *)
Receive(kind) ==
    /\ core = At("select")
    /\ core_channel # << >>
    /\ Head(core_channel).kind = kind
    /\ core_channel' = Tail(core_channel)

(* handle_own_payload up to transmit; a full queue drops the payload.            *)
CoreOwn ==
    /\ Receive("OwnPayload")
    /\ LET x == Head(core_channel).payload IN
       IF Len(queue) < QueueCapacity
       THEN /\ payload_store' = payload_store \cup {x}
            /\ core' = Holds("transmitting", x)
       ELSE UNCHANGED <<payload_store, core>>
    /\ UNCHANGED <<client, runner, queue, get, gossip, proposed, cleaned, submits>>

(* Mutant of CoreTransmitted: the payload is queued, but not sent.               *)
MutCoreTransmitted ==
    /\ core.at = "transmitting"
    /\ Len(network) < NetworkCapacity
    /\ queue' = Append(queue, core.payload)
    /\ core' = At("select")
    /\ UNCHANGED <<client, runner, core_channel, payload_store, get, gossip,
                   proposed, cleaned, submits>>

CoreTransmitted ==
    /\ core.at = "transmitting"
    /\ Len(network) < NetworkCapacity
    /\ network' = Append(network, core.payload)
    /\ queue' = Append(queue, core.payload)
    /\ core' = At("select")
    /\ UNCHANGED <<client, runner, core_channel, payload_store, get, inbound,
                   published, heard, arrivals, proposed, cleaned, submits>>

(* Mutant of CoreOthers: the payload is queued first and checked then.            *)
MutCoreOthers ==
    /\ Receive("Payload")
    /\ LET x == Head(core_channel).payload IN
         /\ queue' = Append(queue, x)
         /\ payload_store' = IF x \in TooBig THEN payload_store ELSE payload_store \cup {x}
    /\ UNCHANGED <<client, runner, core, get, gossip, proposed, cleaned, submits>>

(* handle_others_payload                                                          *)
CoreOthers ==
    /\ Receive("Payload")
    /\ LET x == Head(core_channel).payload IN
       IF x \in TooBig
       THEN UNCHANGED <<queue, payload_store>>
       ELSE /\ queue' = Append(queue, x)
            /\ payload_store' = payload_store \cup {x}
    /\ UNCHANGED <<client, runner, core, get, gossip, proposed, cleaned, submits>>

Without(digests) == Picked(queue, {k \in DOMAIN queue : queue[k] \notin digests})

(* A Get of the consensus core, in generate_proposal                               *)
AskPayload ==
    /\ ~ get
    /\ get' = TRUE
    /\ UNCHANGED <<client, runner, core_channel, core, queue, payload_store,
                   gossip, proposed, cleaned, submits>>

(* Mutant of Taken: one digest more than fits is removed.                          *)
MutTaken(digests) == SubSeq(Without(digests), 2, Len(Without(digests)))

(* get_payload removes every copy of what it hands out.                             *)
Taken(digests) == Without(digests)

CoreGet ==
    /\ core = At("select")
    /\ get
    /\ IF queue = << >>
       THEN /\ core' = At("making")
            /\ UNCHANGED <<get, queue, proposed>>
       ELSE LET digests == ToSet(SubSeq(queue, 1, Min({PerBlock, Len(queue)}))) IN
            /\ proposed' = proposed \cup digests
            /\ queue' = Taken(digests)
            /\ get' = FALSE
            /\ UNCHANGED core
    /\ UNCHANGED <<client, runner, core_channel, payload_store, gossip, cleaned, submits>>

(* A Cleanup, for blocks that are verified: their payloads are stored.              *)
CoreCleanup(digests) ==
    /\ core = At("select")
    /\ queue' = Without(digests)
    /\ cleaned' = cleaned \cup digests
    /\ UNCHANGED <<client, runner, core_channel, core, payload_store, get,
                   gossip, proposed, submits>>

-----------------------------------------------------------------------------
(* The tasks that hook the mempool up to gossip                               *)
Publish ==
    /\ network # << >>
    /\ Len(inbound) < InboundCapacity
    /\ network' = Tail(network)
    /\ inbound' = Append(inbound, Head(network))
    /\ published' = published \cup {Head(network)}
    /\ UNCHANGED <<tasks, heard, arrivals, proposed, cleaned, submits>>

Arrive(x) ==
    /\ arrivals < MaxArrivals
    /\ Len(inbound) < InboundCapacity
    /\ arrivals' = arrivals + 1
    /\ inbound' = Append(inbound, x)
    /\ heard' = heard \cup {x}
    /\ UNCHANGED <<tasks, network, published, proposed, cleaned, submits>>

Forward ==
    /\ inbound # << >>
    /\ Len(core_channel) < CoreCapacity
    /\ inbound' = Tail(inbound)
    /\ core_channel' = Append(core_channel, OthersPayload(Head(inbound)))
    /\ UNCHANGED <<client, runner, core, queue, payload_store, get, network,
                   published, heard, arrivals, proposed, cleaned, submits>>

Runner == RunnerTake \/ RunnerSend \/ RunnerWake \/ RunnerAnswer
Core == CoreOwn \/ CoreTransmitted \/ CoreOthers

MempoolNext ==
    \/ \E x \in Tx : Submit(x) \/ Arrive(x)
    \/ Runner
    \/ Core
    \/ AskPayload \/ CoreGet
    \/ \E digests \in SUBSET payload_store : CoreCleanup(digests)
    \/ Publish \/ Forward

MempoolSpec == MempoolInit /\ [][MempoolNext]_mempoolVars

(* Every task gets its turns; the core's select picks among its ready branches at      *)
(* random, so that a Get, too, is taken in the end however many messages there are.      *)
MempoolFairSpec ==
    /\ MempoolSpec
    /\ WF_mempoolVars(RunnerTake) /\ WF_mempoolVars(RunnerSend) /\ WF_mempoolVars(RunnerWake)
    /\ WF_mempoolVars(CoreTransmitted) /\ SF_mempoolVars(CoreOwn \/ CoreOthers) /\ SF_mempoolVars(CoreGet)
    /\ SF_mempoolVars(RunnerAnswer)
    /\ WF_mempoolVars(Publish) /\ WF_mempoolVars(Forward)

-----------------------------------------------------------------------------
(***************************************************************************)
(* Properties                                                               *)
(***************************************************************************)

(* The values of the state variables.                                        *)
MempoolTypeOK ==
    /\ {client, queue, network, inbound} \subseteq Seq(Tx)
    /\ core_channel \in Seq([kind : {"OwnPayload", "Payload"}, payload : Tx])
    /\ Len(core_channel) <= CoreCapacity
    /\ Len(network) <= NetworkCapacity /\ Len(inbound) <= InboundCapacity
    /\ runner \in [at : {"select", "sleeping"}] \cup [at : {"sending"}, payload : Tx]
    /\ core \in [at : {"select", "making"}] \cup [at : {"transmitting"}, payload : Tx]
    /\ core = At("making") => get /\ queue = << >>
    /\ UNION {payload_store, published, heard, proposed, cleaned} \subseteq Tx
    /\ get \in BOOLEAN /\ submits \in Nat /\ arrivals \in Nat

(* What consensus is told to propose is stored here, so that the node can verify its    *)
(* own block and analyze_block finds the payload; and because nobody serves a             *)
(* PayloadRequest (mempool.rs:169), it has been given to gossip, here or elsewhere.          *)
ProposedAreKnown ==
    /\ proposed \cup ToSet(queue) \subseteq payload_store
    /\ proposed \cup ToSet(queue) \subseteq published \cup heard \cup ToSet(network)

(* A stored payload is proposed, or in the queue to be, or in somebody's block: none      *)
(* falls between process_own_payload, the queue and what get_payload and cleanup remove.   *)
NoPayloadLost ==
    \A x \in payload_store :
        \/ x \in ToSet(queue) \cup proposed \cup cleaned
        \/ core = Holds("transmitting", x)

(* "make sure every tx goes out as a payload immediately!" (payload.rs:64): what is          *)
(* submitted is published, as long as the queue has room.                                     *)
EveryTxGoesOut ==
    \A x \in Tx : x \in ToSet(client) ~> x \in published
=============================================================================
