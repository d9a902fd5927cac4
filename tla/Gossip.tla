--------------------------------- MODULE Gossip ---------------------------------
(***************************************************************************)
(* The gossip unit of a node (gossip/src/lib.rs): a task that owns the swarm,       *)
(* commands it gets through a channel, and for each topic a forwarder of outbound     *)
(* messages and the owner's channel of inbound ones.  What a node publishes is          *)
(* replayed to itself; what gossipsub delivers goes to the same channel.                   *)
(*                                                                                       *)
(* gossipsub and Kademlia's MemoryStore are external: gossipsub takes a content it has     *)
(* seen for a duplicate (the message id is the hash of the data), a publish may fail, and    *)
(* the store refuses a new key when it is full.  Retrieve is sent by nobody.                  *)
(***************************************************************************)
EXTENDS Naturals, FiniteSets, SequencesExt, Selection

CONSTANTS Topic, Msg,
          Ephemeral,        \* topics whose messages are not put into Kademlia
          CmdCapacity, OutboundCapacity, OwnerCapacity,   \* of the channels
          MaxRecords,       \* external: of the MemoryStore
          MaxSent,          \* bound: MaxSent[t] messages are sent on topic t
          Foreign,          \* bound: what other nodes publish, <<topic, content>>
          Ending            \* bound: topics whose owner may end

ASSUME GossipAssumption ==
    /\ Ephemeral \subseteq Topic /\ Ending \subseteq Topic
    /\ Foreign \subseteq Topic \X Msg
    /\ {CmdCapacity, OutboundCapacity, OwnerCapacity} \subseteq Nat \ {0}
    /\ MaxRecords \in Nat /\ MaxSent \in [Topic -> Nat]

VARIABLES cmds,         \* commands on their way to the task
          task,         \* where the task is, and what it is about to deliver
          subscriptions, joined,    \* topics in the map, and in gossipsub
          records, seen,    \* external: keys in the store, contents gossipsub has seen
          owned,        \* the topics whose owner has called subscribe
          closed,       \* the topics whose owner has dropped its receiver
          outbound_msgs, hand,   \* outbound messages, and the one its forwarder holds
          inbound_msgs,
          sent, delivered   \* all that was sent and delivered, for the properties

channels == <<cmds, outbound_msgs, hand, inbound_msgs>>
swarm == <<joined, records, seen>>
gossipVars == <<channels, swarm, task, subscriptions, owned, closed, sent,
                delivered>>

Select == [at |-> "select"]
Panic(why) == [at |-> "panicked", why |-> why]

GossipInit ==
    /\ cmds = << >>
    /\ task = Select
    /\ subscriptions = {} /\ joined = {}
    /\ records = {} /\ seen = {}
    /\ owned = {} /\ closed = {}
    /\ outbound_msgs = [t \in Topic |-> << >>]
    /\ hand = [t \in Topic |-> << >>]
    /\ inbound_msgs = [t \in Topic |-> << >>]
    /\ sent = [t \in Topic |-> << >>]
    /\ delivered = [t \in Topic |-> << >>]

-----------------------------------------------------------------------------
(* The owner of a topic                                                       *)

Subscribe(t) ==
    /\ t \notin owned
    /\ Len(cmds) < CmdCapacity
    /\ cmds' = Append(cmds, [cmd |-> "Subscribe", topic |-> t])
    /\ owned' = owned \cup {t}
    /\ UNCHANGED <<outbound_msgs, hand, inbound_msgs, swarm, task, subscriptions, closed, sent, delivered>>

(* External.                                                                  *)
SendOutbound(t, m) ==
    /\ t \in owned
    /\ Len(sent[t]) < MaxSent[t]
    /\ Len(outbound_msgs[t]) < OutboundCapacity
    /\ outbound_msgs' = [outbound_msgs EXCEPT ![t] = Append(@, m)]
    /\ sent' = [sent EXCEPT ![t] = Append(@, m)]
    /\ UNCHANGED <<cmds, hand, inbound_msgs, swarm, task, subscriptions, owned, closed, delivered>>

(* External. A task that reads a topic panics on bytes that it cannot decode           *)
(* (cpproposer.rs:60, consensus.rs:159, mempool.rs:152), and its receiver is dropped     *)
(* with what is in it.                                                                     *)
OwnerEnds(t) ==
    /\ t \in (owned \cap Ending) \ closed
    /\ closed' = closed \cup {t}
    /\ inbound_msgs' = [inbound_msgs EXCEPT ![t] = << >>]
    /\ UNCHANGED <<cmds, outbound_msgs, hand, swarm, task, subscriptions, owned, sent, delivered>>

(* External.                                                                  *)
ReceiveInbound(t) ==
    /\ inbound_msgs[t] # << >>
    /\ inbound_msgs' = [inbound_msgs EXCEPT ![t] = Tail(@)]
    /\ UNCHANGED <<cmds, outbound_msgs, hand, swarm, task, subscriptions, owned, closed, sent, delivered>>

-----------------------------------------------------------------------------
(* The forwarder of a topic                                                   *)
TakeOutbound(t) ==
    /\ hand[t] = << >>
    /\ outbound_msgs[t] # << >>
    /\ hand' = [hand EXCEPT ![t] = <<Head(outbound_msgs[t])>>]
    /\ outbound_msgs' = [outbound_msgs EXCEPT ![t] = Tail(@)]
    /\ UNCHANGED <<cmds, inbound_msgs, swarm, task, subscriptions, owned, closed, sent, delivered>>

(* Mutant of ForwardOutbound: try_send, which drops the message when there is no room.  *)
MutForwardOutbound(t) ==
    /\ hand[t] # << >>
    /\ cmds' = IF Len(cmds) < CmdCapacity
               THEN Append(cmds, [cmd |-> "Publish", topic |-> t, m |-> hand[t][1]])
               ELSE cmds
    /\ hand' = [hand EXCEPT ![t] = << >>]
    /\ UNCHANGED <<outbound_msgs, inbound_msgs, swarm, task, subscriptions, owned, closed, sent, delivered>>

ForwardOutbound(t) ==
    /\ hand[t] # << >>
    /\ Len(cmds) < CmdCapacity
    /\ cmds' = Append(cmds, [cmd |-> "Publish", topic |-> t, m |-> hand[t][1]])
    /\ hand' = [hand EXCEPT ![t] = << >>]
    /\ UNCHANGED <<outbound_msgs, inbound_msgs, swarm, task, subscriptions, owned, closed, sent, delivered>>

-----------------------------------------------------------------------------
(* The task                                                                   *)
Delivery(t, m, own) == [at |-> "deliver", topic |-> t, m |-> m, own |-> own]

TakeSubscribe ==
    /\ task = Select
    /\ cmds # << >> /\ Head(cmds).cmd = "Subscribe"
    /\ cmds' = Tail(cmds)
    /\ subscriptions' = subscriptions \cup {Head(cmds).topic}
    /\ joined' = joined \cup {Head(cmds).topic}
    /\ UNCHANGED <<outbound_msgs, hand, inbound_msgs, records, seen, task, owned, closed, sent, delivered>>

(* The record is put first; a publish that fails is only a warning.             *)
TakePublish ==
    /\ task = Select
    /\ cmds # << >> /\ Head(cmds).cmd = "Publish"
    /\ cmds' = Tail(cmds)
    /\ LET t == Head(cmds).topic
           m == Head(cmds).m
           fits == m \in records \/ Cardinality(records) < MaxRecords IN
       /\ records' = IF t \notin Ephemeral /\ fits THEN records \cup {m} ELSE records
       /\ IF t \notin Ephemeral /\ ~fits
          THEN task' = Panic("record") /\ UNCHANGED seen
          ELSE /\ seen' \in {seen, seen \cup {<<t, m>>}}
               /\ task' = IF t \in subscriptions THEN Delivery(t, m, TRUE) ELSE Panic("topic")
    /\ UNCHANGED <<outbound_msgs, hand, inbound_msgs, joined, subscriptions, owned, closed, sent, delivered>>

(* gossipsub has a message of another node.                                     *)
TakeMessage(t, m) ==
    /\ task = Select
    /\ t \in joined /\ <<t, m>> \in Foreign \ seen
    /\ seen' = seen \cup {<<t, m>>}
    /\ task' = IF t \in subscriptions THEN Delivery(t, m, FALSE) ELSE Panic("topic")
    /\ UNCHANGED <<channels, joined, records, subscriptions, owned, closed, sent, delivered>>

(* kv_deserialize expects the bytes of a peer's message to be a key and a value (42). *)
TakeUndecodable ==
    /\ task = Select
    /\ joined # {}
    /\ task' = Panic("decode")
    /\ UNCHANGED <<channels, swarm, subscriptions, owned, closed, sent, delivered>>

(* Mutant of Deliver: the task does not wait, and a full channel loses the message. *)
MutDeliver ==
    /\ task.at = "deliver"
    /\ inbound_msgs' = IF Len(inbound_msgs[task.topic]) < OwnerCapacity
                  THEN [inbound_msgs EXCEPT ![task.topic] = Append(@, task.m)] ELSE inbound_msgs
    /\ delivered' = IF inbound_msgs' # inbound_msgs
                    THEN [delivered EXCEPT ![task.topic] = Append(@, [m |-> task.m, own |-> task.own])]
                    ELSE delivered
    /\ task' = Select
    /\ UNCHANGED <<cmds, outbound_msgs, hand, swarm, subscriptions, owned, closed, sent>>

(* The task waits for room in the channel of the topic's owner.                  *)
Deliver ==
    /\ task.at = "deliver"
    /\ task.topic \notin closed
    /\ Len(inbound_msgs[task.topic]) < OwnerCapacity
    /\ inbound_msgs' = [inbound_msgs EXCEPT ![task.topic] = Append(@, task.m)]
    /\ delivered' = [delivered EXCEPT ![task.topic] = Append(@, [m |-> task.m, own |-> task.own])]
    /\ task' = Select
    /\ UNCHANGED <<cmds, outbound_msgs, hand, swarm, subscriptions, owned, closed, sent>>

(* The send fails: "failed local replay!" (329), "failed local delivery!" (380).   *)
DeliverToNobody ==
    /\ task.at = "deliver"
    /\ task.topic \in closed
    /\ task' = Panic("owner")
    /\ UNCHANGED <<channels, swarm, subscriptions, owned, closed, sent, delivered>>

(* The task's end closes its channel, and the sends of the others fail (437, 444).  *)
Alive == task.at # "panicked"

Owner(t) == \/ Alive /\ (Subscribe(t) \/ (\E m \in Msg : SendOutbound(t, m)))
            \/ ReceiveInbound(t) \/ OwnerEnds(t)
Forwarder(t) == Alive /\ (TakeOutbound(t) \/ ForwardOutbound(t))

GossipNext ==
    \/ \E t \in Topic : Owner(t) \/ Forwarder(t)
    \/ \E t \in Topic, m \in Msg : TakeMessage(t, m)
    \/ TakeSubscribe \/ TakePublish \/ TakeUndecodable \/ Deliver \/ DeliverToNobody

GossipSpec == GossipInit /\ [][GossipNext]_gossipVars

(* Tasks are scheduled; the select! polls its branches in random order, so that     *)
(* commands are not starved by messages; owners go on receiving unless they end.        *)
GossipFairSpec ==
    /\ GossipSpec
    /\ SF_gossipVars(TakeSubscribe) /\ SF_gossipVars(TakePublish) /\ WF_gossipVars(Deliver)
    /\ WF_gossipVars(DeliverToNobody)
    /\ \A t \in Topic : SF_gossipVars(Forwarder(t)) /\ WF_gossipVars(ReceiveInbound(t))

-----------------------------------------------------------------------------
(***************************************************************************)
(* Properties                                                               *)
(***************************************************************************)

(* The values of the state variables; the channels keep their capacities.     *)
GossipTypeOK ==
    /\ Len(cmds) <= CmdCapacity
    /\ task.at \in {"select", "deliver", "panicked"}
    /\ closed \subseteq owned
    /\ subscriptions \subseteq owned /\ joined \subseteq owned /\ owned \subseteq Topic
    /\ records \subseteq Msg /\ seen \subseteq Topic \X Msg
    /\ \A t \in Topic :
          /\ Len(outbound_msgs[t]) <= OutboundCapacity
          /\ Len(hand[t]) <= 1
          /\ Len(inbound_msgs[t]) <= OwnerCapacity
          /\ sent[t] \in Seq(Msg)

Messages(s) == [k \in DOMAIN s |-> s[k].m]
OwnDelivered(t) ==
    Messages(Picked(delivered[t], {k \in DOMAIN delivered[t] : delivered[t][k].own}))
InTask(t) ==
    IF task.at = "deliver" /\ task.topic = t /\ task.own THEN <<task.m>> ELSE << >>
InCommands(t) ==
    Messages(Picked(cmds, {k \in DOMAIN cmds : cmds[k].cmd = "Publish" /\ cmds[k].topic = t}))

(* A node gets its own messages back once each, in the order in which it sent them:      *)
(* none is lost or overtaken in the three channels between, also when they are full, and   *)
(* none comes before the task has taken the subscription ("topic not subscribed!",          *)
(* lib.rs:328).                                                                              *)
ReplayedInOrder ==
    /\ task # Panic("topic")
    /\ task.at # "panicked" =>
        \A t \in Topic :
            sent[t] = OwnDelivered(t) \o InTask(t) \o InCommands(t) \o hand[t] \o outbound_msgs[t]

(* What is sent is replayed in the end, although the task waits for room in the channels  *)
(* of the owners. Only a panic of the task can prevent it: the record of a message does not  *)
(* fit into the store ("kademlia put record failed!", lib.rs:313), a peer's message cannot    *)
(* be decoded (42), or the owner of a topic has ended (329, 380).                              *)
SentIsReplayed ==
    \A t \in Topic : \A k \in 1 .. MaxSent[t] :
        Len(sent[t]) >= k ~>
            \/ Len(OwnDelivered(t)) >= k
            \/ task \in {Panic("record"), Panic("decode"), Panic("owner")}
=============================================================================
