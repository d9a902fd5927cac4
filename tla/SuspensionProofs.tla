--------------------------- MODULE SuspensionProofs ---------------------------
(***************************************************************************)
(* No block is processed before what it depends on, and none is forgotten      *)
(* between the core and the two synchronizers: for all blocks, chains or         *)
(* forks, all payloads they share, and all capacities.                            *)
(***************************************************************************)
EXTENDS Suspension, TLAPS

-----------------------------------------------------------------------------
(* Channels                                                                   *)

(* What is on a channel after a message is added and after one is taken.       *)
LEMMA UnderAppend ==
    ASSUME NEW S, NEW s \in Seq(S), NEW m \in S, NEW kind
    PROVE  Under(Append(s, m), kind)
             = Under(s, kind) \cup (IF m.kind = kind THEN {m.block} ELSE {})
  <1> DEFINE t == Append(s, m)
  <1>1. /\ t \in Seq(S) /\ Len(t) = Len(s) + 1 /\ t[Len(s) + 1] = m
        /\ \A k \in 1 .. Len(s) : t[k] = s[k]
        /\ Len(s) \in Nat
    OBVIOUS
  <1> HIDE DEF t
  <1>2. ASSUME NEW b \in Under(t, kind)
        PROVE  b \in Under(s, kind) \/ (m.kind = kind /\ b = m.block)
    BY <1>1 DEF Under
  <1>3. Under(s, kind) \subseteq Under(t, kind)
    BY <1>1 DEF Under
  <1>4. m.kind = kind => m.block \in Under(t, kind)
    BY <1>1 DEF Under
  <1> QED BY <1>2, <1>3, <1>4 DEF t

LEMMA UnderTail ==
    ASSUME NEW S, NEW s \in Seq(S), s # << >>, NEW kind
    PROVE  Under(s, kind)
             = Under(Tail(s), kind) \cup (IF Head(s).kind = kind THEN {Head(s).block} ELSE {})
  <1> DEFINE t == Tail(s)
  <1>1. /\ t \in Seq(S) /\ Len(s) = Len(t) + 1 /\ Head(s) = s[1]
        /\ \A k \in 1 .. Len(t) : t[k] = s[k + 1]
        /\ Len(t) \in Nat
    OBVIOUS
  <1>2. \A k \in 2 .. Len(s) : k - 1 \in 1 .. Len(t) /\ t[k - 1] = s[k]
    BY <1>1
  <1> HIDE DEF t
  <1>3. ASSUME NEW b \in Under(s, kind)
        PROVE  b \in Under(t, kind) \/ (s[1].kind = kind /\ b = s[1].block)
    <2>1. PICK k \in 1 .. Len(s) : s[k].kind = kind /\ b = s[k].block
      BY DEF Under
    <2>2. CASE k = 1
      BY <2>1, <2>2
    <2>3. CASE k \in 2 .. Len(s)
      BY <2>1, <2>3, <1>2 DEF Under
    <2> QED BY <2>2, <2>3, <1>1
  <1>4. Under(t, kind) \subseteq Under(s, kind)
    <2> SUFFICES ASSUME NEW k \in 1 .. Len(t), t[k].kind = kind
                 PROVE  t[k].block \in Under(s, kind)
      BY DEF Under
    <2>1. k + 1 \in 1 .. Len(s) /\ s[k + 1] = t[k]
      BY <1>1
    <2> QED BY <2>1 DEF Under
  <1>5. s[1].kind = kind => s[1].block \in Under(s, kind)
    BY <1>1 DEF Under
  <1> QED BY <1>1, <1>3, <1>4, <1>5 DEF t

Blocks(s) == {s[k] : k \in 1 .. Len(s)}

LEMMA BlocksAppend ==
    ASSUME NEW s \in Seq(Block), NEW b \in Block
    PROVE  Blocks(Append(s, b)) = Blocks(s) \cup {b}
  <1> DEFINE t == Append(s, b)
  <1>1. /\ Len(t) = Len(s) + 1 /\ t[Len(s) + 1] = b
        /\ \A k \in 1 .. Len(s) : t[k] = s[k]
        /\ Len(s) \in Nat
    OBVIOUS
  <1> HIDE DEF t
  <1> QED BY <1>1 DEF Blocks, t

LEMMA BlocksTail ==
    ASSUME NEW s \in Seq(Block), s # << >>
    PROVE  Blocks(s) = Blocks(Tail(s)) \cup {Head(s)}
  <1> DEFINE t == Tail(s)
  <1>1. /\ Len(s) = Len(t) + 1 /\ Head(s) = s[1] /\ Len(t) \in Nat
        /\ \A k \in 1 .. Len(t) : t[k] = s[k + 1]
    OBVIOUS
  <1>2. \A k \in 2 .. Len(s) : k - 1 \in 1 .. Len(t) /\ t[k - 1] = s[k]
    BY <1>1
  <1> HIDE DEF t
  <1>3. Blocks(s) \subseteq Blocks(t) \cup {s[1]}
    BY <1>1, <1>2 DEF Blocks
  <1>4. Blocks(t) \subseteq Blocks(s)
    <2> SUFFICES ASSUME NEW k \in 1 .. Len(t) PROVE t[k] \in Blocks(s)
      BY DEF Blocks
    <2>1. k + 1 \in 1 .. Len(s) /\ s[k + 1] = t[k]
      BY <1>1
    <2> QED BY <2>1 DEF Blocks
  <1>5. s[1] \in Blocks(s)
    BY <1>1 DEF Blocks
  <1> QED BY <1>1, <1>3, <1>4, <1>5 DEF t

(* The block of the message that a task waits to send.                          *)
LEMMA HeldOne ==
    ASSUME NEW m, NEW kind
    PROVE  /\ Held({}, kind) = {}
           /\ Held({m}, kind) = IF m.kind = kind THEN {m.block} ELSE {}
  BY DEF Held

-----------------------------------------------------------------------------
(* The types                                                                  *)
LEMMA Messages ==
    ASSUME NEW b \in Block
    PROVE  /\ [kind |-> "Propose", block |-> b] \in CoreMessage
           /\ [kind |-> "LoopBack", block |-> b] \in CoreMessage
           /\ [kind |-> "LoopBack", block |-> b] \in LoopBacks
           /\ [kind |-> "Suspend", block |-> b] \in FromCore
           /\ P!Clean(RoundOf[b]) \in FromCore
           /\ P!Sync(b) \in FromCore
  BY SuspensionAssumption
     DEF CoreMessage, SyncMessage, FromCore, LoopBacks, P!Missing, P!Clean, P!Sync

LEMMA CoreAppend ==
    ASSUME TypeOK, NEW m \in CoreMessage, Len(core_channel) < CoreCapacity
    PROVE  /\ Append(core_channel, m) \in Seq(CoreMessage)
           /\ Len(Append(core_channel, m)) <= CoreCapacity
  BY SuspensionAssumption DEF TypeOK

LEMMA CoreTail ==
    ASSUME TypeOK, core_channel # << >>
    PROVE  /\ Tail(core_channel) \in Seq(CoreMessage)
           /\ Len(Tail(core_channel)) <= CoreCapacity
           /\ Head(core_channel) \in CoreMessage /\ Head(core_channel).block \in Block
  <1>1. Head(core_channel) \in CoreMessage /\ Tail(core_channel) \in Seq(CoreMessage)
    BY DEF TypeOK
  <1>2. Len(Tail(core_channel)) <= CoreCapacity
    BY SuspensionAssumption DEF TypeOK
  <1>3. Head(core_channel).block \in Block
    BY <1>1 DEF CoreMessage
  <1> QED BY <1>1, <1>2, <1>3

LEMMA SyncAppend ==
    ASSUME TypeOK, NEW m \in SyncMessage, P!Tell(m)
    PROVE  sync_channel' \in Seq(SyncMessage) /\ Len(sync_channel') <= SyncCapacity
  BY SuspensionAssumption DEF TypeOK, P!Tell

LEMMA SyncTail ==
    ASSUME TypeOK, sync_channel # << >>
    PROVE  /\ Tail(sync_channel) \in Seq(SyncMessage)
           /\ Len(Tail(sync_channel)) <= SyncCapacity
           /\ Head(sync_channel) \in SyncMessage
           /\ Head(sync_channel) = sync_channel[1]
           /\ Len(sync_channel) \in Nat /\ 1 \in 1 .. Len(sync_channel)
  BY SuspensionAssumption DEF TypeOK

LEMMA InnerTypes ==
    ASSUME TypeOK
    PROVE  /\ \A b \in Block : B!Suspend(b) =>
                  inner_channel' \in Seq(Block) /\ Len(inner_channel') <= InnerCapacity
           /\ inner_channel # << >> =>
                  /\ Tail(inner_channel) \in Seq(Block)
                  /\ Len(Tail(inner_channel)) <= InnerCapacity
                  /\ Head(inner_channel) \in Block
  <1>1. ASSUME NEW b \in Block, B!Suspend(b)
        PROVE  inner_channel' \in Seq(Block) /\ Len(inner_channel') <= InnerCapacity
    BY <1>1, SuspensionAssumption DEF TypeOK, B!Suspend
  <1>2. ASSUME inner_channel # << >>
        PROVE  /\ Tail(inner_channel) \in Seq(Block)
               /\ Len(Tail(inner_channel)) <= InnerCapacity
               /\ Head(inner_channel) \in Block
    <2>1. Tail(inner_channel) \in Seq(Block) /\ Head(inner_channel) \in Block
      BY <1>2 DEF TypeOK
    <2>2. Len(Tail(inner_channel)) <= InnerCapacity
      BY <1>2, SuspensionAssumption DEF TypeOK
    <2> QED BY <2>1, <2>2
  <1> QED BY <1>1, <1>2

(* What the core waits to send is one message.                                  *)
LEMMA HandTypes ==
    ASSUME TypeOK
    PROVE  /\ \A m \in core_hand : core_hand = {m} /\ m \in FromCore
           /\ \A m \in hand : hand = {m}
           /\ \A m \in payload_hand : payload_hand = {m}
           /\ \A m : AtMostOne({m}) /\ AtMostOne({})
  BY DEF TypeOK, AtMostOne

LEMMA ProcessTypes ==
    ASSUME TypeOK, NEW b \in Block, ProcessBlock(b)
    PROVE  /\ stored' \subseteq Block
           /\ core_hand' \subseteq FromCore /\ AtMostOne(core_hand')
  <1> DEFINE Out == {P!Clean(RoundOf[b]), [kind |-> "Suspend", block |-> b]}
  <1>1. \E m \in Out : core_hand' = {m}
    BY DEF ProcessBlock
  <1>2. Out \subseteq FromCore
    BY Messages
  <1>3. stored' \subseteq Block
    BY DEF ProcessBlock, TypeOK
  <1> QED
    <2> HIDE DEF Out
    <2> QED BY <1>1, <1>2, <1>3 DEF AtMostOne

LEMMA TypeStep == TypeOK /\ [Next]_vars => TypeOK'
  <1> SUFFICES ASSUME TypeOK, [Next]_vars PROVE TypeOK'
    OBVIOUS
  <1> USE DEF blockSync, payloadSync, blockTask, payloadTask, othersThanBlockSync,
              othersThanPayloadSync
  <1>1. ASSUME NEW b \in Block, Show(b) PROVE TypeOK'
    <2>1. core_channel' \in Seq(CoreMessage) /\ Len(core_channel') <= CoreCapacity
      BY <1>1, Messages, CoreAppend DEF Show
    <2>2. shown' \in [Block -> 0 .. MaxShows]
      BY <1>1, SuspensionAssumption DEF Show, TypeOK
    <2> QED BY <1>1, <2>1, <2>2 DEF Show, TypeOK
  <1>2. ASSUME NEW b \in Block, ForeignLoopBack(b) PROVE TypeOK'
    <2>1. core_channel' \in Seq(CoreMessage) /\ Len(core_channel') <= CoreCapacity
      BY <1>2, Messages, CoreAppend DEF ForeignLoopBack
    <2> QED BY <1>2, <2>1 DEF ForeignLoopBack, TypeOK
  <1>3. ASSUME NEW x \in Payload, PayloadArrives(x) PROVE TypeOK'
    BY <1>3 DEF PayloadArrives, TypeOK
  <1>4. CASE HandleProposal
    <2> DEFINE b == Head(core_channel).block
    <2>1. /\ core_channel' \in Seq(CoreMessage) /\ Len(core_channel') <= CoreCapacity
          /\ b \in Block /\ UNCHANGED <<payload_store, shown, looped, blockSync, payloadSync>>
      BY <1>4, CoreTail DEF HandleProposal
    <2>2. CASE ProcessBlock(b)
      BY <2>1, <2>2, ProcessTypes DEF TypeOK
    <2>3. CASE ~ ProcessBlock(b)
      <3>1. core_hand' = {P!Sync(b)} /\ stored' = stored
        BY <1>4, <2>3 DEF HandleProposal
      <3>2. core_hand' \subseteq FromCore /\ AtMostOne(core_hand')
        BY <2>1, <3>1, Messages, HandTypes
      <3> QED BY <2>1, <3>1, <3>2 DEF TypeOK
    <2> QED BY <2>2, <2>3
  <1>5. CASE HandleLoopBack
    <2>1. /\ core_channel' \in Seq(CoreMessage) /\ Len(core_channel') <= CoreCapacity
          /\ Head(core_channel).block \in Block
          /\ UNCHANGED <<payload_store, shown, looped, blockSync, payloadSync>>
      BY <1>5, CoreTail DEF HandleLoopBack
    <2> QED BY <1>5, <2>1, ProcessTypes DEF HandleLoopBack, TypeOK
  <1>6. CASE CoreSends
    <2>1. PICK m \in core_hand :
            IF m.kind = "Suspend" THEN B!Suspend(m.block) /\ UNCHANGED sync_channel
                                  ELSE P!Tell(m) /\ UNCHANGED inner_channel
      BY <1>6 DEF CoreSends
    <2>2. m \in FromCore /\ AtMostOne(core_hand')
      BY <1>6, HandTypes DEF CoreSends
    <2>3. /\ inner_channel' \in Seq(Block) /\ Len(inner_channel') <= InnerCapacity
          /\ sync_channel' \in Seq(SyncMessage) /\ Len(sync_channel') <= SyncCapacity
      <3>1. CASE m.kind = "Suspend"
        <4>1. m.block \in Block
          BY <2>2, <3>1 DEF FromCore, SyncMessage
        <4> QED BY <2>1, <3>1, <4>1, InnerTypes DEF TypeOK
      <3>2. CASE m.kind # "Suspend"
        <4>1. m \in SyncMessage
          BY <2>2, <3>2 DEF FromCore
        <4> QED BY <2>1, <3>2, <4>1, SyncAppend DEF TypeOK
      <3> QED BY <3>1, <3>2
    <2> QED BY <1>6, <2>2, <2>3 DEF CoreSends, TypeOK
  <1>7. ASSUME B!Step, UNCHANGED othersThanBlockSync PROVE TypeOK'
    <2>1. CASE B!Take
      <3> DEFINE b == Head(inner_channel)
      <3>1. b \in Block /\ inner_channel' \in Seq(Block) /\ Len(inner_channel') <= InnerCapacity
        BY <2>1, InnerTypes DEF B!Take
      <3>2. requests' \subseteq Block \cup {Genesis} /\ suspended' \subseteq Block
        <4>1. ParentOf[b] \in Block \cup {Genesis}
          BY <3>1, SuspensionAssumption
        <4> QED BY <2>1, <3>1, <4>1 DEF B!Take, TypeOK
      <3>3. hand' \subseteq LoopBacks \cup {B!SyncRequest} /\ AtMostOne(hand')
        BY <2>1 DEF B!Take, B!Free, TypeOK, AtMostOne
      <3> QED BY <1>7, <2>1, <3>1, <3>2, <3>3 DEF B!Take, TypeOK
    <2>2. ASSUME NEW b \in Block, B!Resume(b) PROVE TypeOK'
      <3>1. hand' \subseteq LoopBacks \cup {B!SyncRequest} /\ AtMostOne(hand')
        BY <2>2, HandTypes, Messages DEF B!Resume, B!LoopBack
      <3> QED BY <1>7, <2>2, <3>1 DEF B!Resume, TypeOK
    <2>3. CASE B!Retry
      <3>1. hand' \subseteq LoopBacks \cup {B!SyncRequest} /\ AtMostOne(hand')
        BY <2>3, HandTypes DEF B!Retry
      <3> QED BY <1>7, <2>3, <3>1 DEF B!Retry, TypeOK
    <2>4. CASE B!SendLoopBack
      <3>1. core_channel' \in Seq(CoreMessage) /\ Len(core_channel') <= CoreCapacity
        BY <2>4, Messages, CoreAppend DEF B!SendLoopBack, B!LoopBack
      <3>2. AtMostOne(hand') /\ hand' = {}
        BY <2>4, HandTypes DEF B!SendLoopBack
      <3> QED BY <1>7, <2>4, <3>1, <3>2 DEF B!SendLoopBack, TypeOK
    <2>5. CASE B!SendRequest
      <3>1. AtMostOne(hand') /\ hand' = {}
        BY <2>5, HandTypes DEF B!SendRequest
      <3> QED BY <1>7, <2>5, <3>1 DEF B!SendRequest, TypeOK
    <2> QED BY <1>7, <2>1, <2>2, <2>3, <2>4, <2>5 DEF B!Step, B!Resumed, B!Send
  <1>8. ASSUME P!Step, UNCHANGED othersThanPayloadSync PROVE TypeOK'
    <2>1. CASE P!TakeSync
      <3> DEFINE m == Head(sync_channel)
      <3>1. /\ m.block \in Block /\ m.missing \subseteq Payload
            /\ sync_channel' \in Seq(SyncMessage) /\ Len(sync_channel') <= SyncCapacity
        BY <2>1, SyncTail DEF P!TakeSync, SyncMessage
      <3>2. DOMAIN payload_requests' \subseteq Payload
        BY <2>1, <3>1 DEF P!TakeSync, TypeOK
      <3>3. payload_hand' \subseteq LoopBacks \cup {P!PayloadRequest} /\ AtMostOne(payload_hand')
        BY <2>1 DEF P!TakeSync, P!Free, TypeOK, AtMostOne
      <3> QED BY <1>8, <2>1, <3>1, <3>2, <3>3 DEF P!TakeSync, TypeOK
    <2>2. CASE P!TakeClean
      <3>1. sync_channel' \in Seq(SyncMessage) /\ Len(sync_channel') <= SyncCapacity
        BY <2>2, SyncTail DEF P!TakeClean
      <3>2. cancelled' \in [Block -> Nat] /\ pending' \subseteq Block
        BY <2>2 DEF P!TakeClean, TypeOK
      <3>3. DOMAIN payload_requests' \subseteq Payload
        BY <2>2 DEF P!TakeClean, P!Without, TypeOK
      <3> QED BY <1>8, <2>2, <3>1, <3>2, <3>3 DEF P!TakeClean, TypeOK
    <2>3. ASSUME NEW b \in Block, P!Return(b)
          PROVE  /\ payload_hand' \subseteq LoopBacks \cup {P!PayloadRequest}
                 /\ AtMostOne(payload_hand')
                 /\ DOMAIN payload_requests' \subseteq Payload
                 /\ pending' \subseteq Block
      <3>1. payload_hand' \subseteq LoopBacks \cup {P!PayloadRequest} /\ AtMostOne(payload_hand')
        BY <2>3, HandTypes, Messages DEF P!Return, P!LoopBack
      <3> QED BY <2>3, <3>1 DEF P!Return, P!Without, TypeOK
    <2>4. ASSUME NEW b \in Block, P!Deliver(b) PROVE TypeOK'
      <3>1. P!Return(b) /\ cancelled' = cancelled
        BY <2>4 DEF P!Deliver
      <3> QED BY <1>8, <2>3, <3>1 DEF P!Return, TypeOK
    <2>5. ASSUME NEW b \in Block, P!DeliverCancelled(b) PROVE TypeOK'
      <3>1. cancelled' \in [Block -> Nat]
        BY <2>5 DEF P!DeliverCancelled, TypeOK
      <3>2. P!Return(b)
        BY <2>5 DEF P!DeliverCancelled
      <3> QED BY <1>8, <2>3, <3>1, <3>2 DEF P!Return, TypeOK
    <2>6. ASSUME NEW b \in Block, P!Discard(b) PROVE TypeOK'
      <3>1. cancelled' \in [Block -> Nat]
        BY <2>6 DEF P!Discard, TypeOK
      <3> QED BY <1>8, <2>6, <3>1 DEF P!Discard, TypeOK
    <2>7. CASE P!Retry
      <3>1. payload_hand' \subseteq LoopBacks \cup {P!PayloadRequest} /\ AtMostOne(payload_hand')
        BY <2>7, HandTypes DEF P!Retry
      <3> QED BY <1>8, <2>7, <3>1 DEF P!Retry, TypeOK
    <2>8. CASE P!SendLoopBack
      <3>1. core_channel' \in Seq(CoreMessage) /\ Len(core_channel') <= CoreCapacity
        BY <2>8, Messages, CoreAppend DEF P!SendLoopBack, P!LoopBack
      <3>2. AtMostOne(payload_hand') /\ payload_hand' = {}
        BY <2>8, HandTypes DEF P!SendLoopBack
      <3> QED BY <1>8, <2>8, <3>1, <3>2 DEF P!SendLoopBack, TypeOK
    <2>9. CASE P!SendRequest
      <3>1. AtMostOne(payload_hand') /\ payload_hand' = {}
        BY <2>9, HandTypes DEF P!SendRequest
      <3> QED BY <1>8, <2>9, <3>1 DEF P!SendRequest, TypeOK
    <2> QED
      BY <1>8, <2>1, <2>2, <2>4, <2>5, <2>6, <2>7, <2>8, <2>9
         DEF P!Step, P!Take, P!WaiterEnds, P!Send
  <1>9. CASE UNCHANGED vars
    BY <1>9 DEF vars, TypeOK
  <1> QED BY <1>1, <1>2, <1>3, <1>4, <1>5, <1>6, <1>7, <1>8, <1>9 DEF Next

(* The state variables keep their types, and the channels their capacities.      *)
THEOREM TypeCorrect == Spec => []TypeOK
  <1>1. Init => TypeOK
    BY SuspensionAssumption DEF Init, B!Init, P!Init, TypeOK, AtMostOne
  <1> QED BY <1>1, TypeStep, PTL DEF Spec

-----------------------------------------------------------------------------
(* The invariant.  A block that has left handle_proposal has its payloads, unless a   *)
(* peer has looped it back, and a Clean is only sent for a round of which a block has   *)
(* been stored.                                                                          *)
Proposed == Under(core_channel, "Propose")
Coming == Under(core_channel, "LoopBack")
Told == Under(sync_channel, "Sync")

LoopedBack == Coming \cup Held(hand, "LoopBack") \cup Held(payload_hand, "LoopBack")
Syncing == Told \cup Held(core_hand, "Sync")
Suspending == Blocks(inner_channel) \cup Held(core_hand, "Suspend")

PastPayloads == LoopedBack \cup Suspending \cup suspended

Complete(b) == b \in looped \/ PayloadOf[b] \subseteq payload_store
PayloadsThere == \A b \in PastPayloads : Complete(b)

Backed(m) == m.kind = "Clean" => \E c \in stored : RoundOf[c] = m.round
CleansBacked ==
    /\ \A k \in 1 .. Len(sync_channel) : Backed(sync_channel[k])
    /\ \A m \in core_hand : Backed(m)

Passed(b) == \E c \in stored : RoundOf[c] >= RoundOf[b]

InHand == Proposed \cup Syncing \cup pending \cup PastPayloads

Accounted ==
    \A b \in Block :
        shown[b] > 0 \/ b \in looped => b \in stored \cup InHand \/ Passed(b)

IInv ==
    /\ TypeOK
    /\ DependenciesFirst
    /\ PayloadsThere
    /\ CleansBacked
    /\ Accounted
    /\ MissingParentsRequested

Parts ==
    DependenciesFirst /\ PayloadsThere /\ CleansBacked /\ Accounted /\ MissingParentsRequested

LEMMA AccountedFor == Accounted => NoneForgotten
  BY DEF Accounted, InHand, PastPayloads, Proposed, LoopedBack, Coming, Told, Syncing,
         Suspending, Blocks, NoneForgotten, Passed

(* Nothing is lost when all that is in hand stays in hand, and all that was past     *)
(* the payloads was so before or has them.                                            *)
LEMMA HandedOn ==
    ASSUME IInv, shown' = shown, looped' = looped, payload_store \subseteq payload_store',
           stored \subseteq stored',
           InHand \subseteq InHand' \cup stored' \cup {b \in Block : Passed(b)'},
           PastPayloads' \subseteq PastPayloads \cup {b \in Block : Complete(b)}
    PROVE  Accounted' /\ PayloadsThere'
  <1>1. \A b \in Block : Passed(b) => Passed(b)'
    BY DEF Passed
  <1>2. Accounted'
    BY <1>1 DEF IInv, Accounted
  <1>3. \A b : Complete(b) => Complete(b)'
    BY DEF Complete
  <1>4. PayloadsThere'
    BY <1>3 DEF IInv, PayloadsThere
  <1> QED BY <1>2, <1>4

(* The parts that only depend on what is stored.                                     *)
LEMMA StoredOnly ==
    ASSUME IInv, stored' = stored, payload_store \subseteq payload_store',
           looped \subseteq looped'
    PROVE  /\ DependenciesFirst' /\ \A b \in Block : B!HasParent(b)' <=> B!HasParent(b)
           /\ UNCHANGED <<suspended, requests>> => MissingParentsRequested'
  BY DEF IInv, TypeOK, DependenciesFirst, B!HasParent, MissingParentsRequested

-----------------------------------------------------------------------------
(* The steps                                                                  *)

(* What goes on when a channel hands over its first message, and when it takes one.  *)
LEMMA CoreSets ==
    ASSUME TypeOK
    PROVE  /\ core_channel # << >> /\ core_channel' = Tail(core_channel) =>
                /\ Proposed \subseteq Proposed'
                     \cup (IF Head(core_channel).kind = "Propose"
                           THEN {Head(core_channel).block} ELSE {})
                /\ Coming \subseteq Coming'
                     \cup (IF Head(core_channel).kind = "LoopBack"
                           THEN {Head(core_channel).block} ELSE {})
                /\ Proposed' \subseteq Proposed /\ Coming' \subseteq Coming
           /\ \A m \in CoreMessage : core_channel' = Append(core_channel, m) =>
                /\ Proposed' = Proposed \cup (IF m.kind = "Propose" THEN {m.block} ELSE {})
                /\ Coming' = Coming \cup (IF m.kind = "LoopBack" THEN {m.block} ELSE {})
           /\ core_channel' = core_channel => Proposed' = Proposed /\ Coming' = Coming
  <1>1. ASSUME core_channel # << >>, core_channel' = Tail(core_channel), NEW kind
        PROVE  Under(core_channel, kind) = Under(core_channel', kind)
                 \cup (IF Head(core_channel).kind = kind THEN {Head(core_channel).block} ELSE {})
    BY <1>1, UnderTail DEF TypeOK
  <1>2. ASSUME NEW m \in CoreMessage, core_channel' = Append(core_channel, m), NEW kind
        PROVE  Under(core_channel', kind)
                 = Under(core_channel, kind) \cup (IF m.kind = kind THEN {m.block} ELSE {})
    BY <1>2, UnderAppend DEF TypeOK
  <1>3. /\ Proposed = Under(core_channel, "Propose") /\ Coming = Under(core_channel, "LoopBack")
        /\ Proposed' = Under(core_channel', "Propose")
        /\ Coming' = Under(core_channel', "LoopBack")
    BY DEF Proposed, Coming, Under
  <1>4. ASSUME core_channel # << >>, core_channel' = Tail(core_channel)
        PROVE  /\ Proposed = Proposed' \cup (IF Head(core_channel).kind = "Propose"
                                             THEN {Head(core_channel).block} ELSE {})
               /\ Coming = Coming' \cup (IF Head(core_channel).kind = "LoopBack"
                                         THEN {Head(core_channel).block} ELSE {})
    BY <1>1, <1>3, <1>4
  <1>5. ASSUME NEW m \in CoreMessage, core_channel' = Append(core_channel, m)
        PROVE  /\ Proposed' = Proposed \cup (IF m.kind = "Propose" THEN {m.block} ELSE {})
               /\ Coming' = Coming \cup (IF m.kind = "LoopBack" THEN {m.block} ELSE {})
    BY <1>2, <1>3, <1>5
  <1> QED BY <1>3, <1>4, <1>5

LEMMA SyncSets ==
    ASSUME TypeOK
    PROVE  /\ sync_channel # << >> /\ sync_channel' = Tail(sync_channel) =>
                Told \subseteq Told'
                  \cup (IF Head(sync_channel).kind = "Sync"
                        THEN {Head(sync_channel).block} ELSE {})
           /\ \A m \in SyncMessage : sync_channel' = Append(sync_channel, m) =>
                Told' = Told \cup (IF m.kind = "Sync" THEN {m.block} ELSE {})
           /\ sync_channel' = sync_channel => Told' = Told
  <1>1. Told = Under(sync_channel, "Sync") /\ Told' = Under(sync_channel', "Sync")
    BY DEF Told, Under
  <1>2. ASSUME sync_channel # << >>, sync_channel' = Tail(sync_channel)
        PROVE  Told = Told' \cup (IF Head(sync_channel).kind = "Sync"
                                  THEN {Head(sync_channel).block} ELSE {})
    BY <1>1, <1>2, UnderTail DEF TypeOK
  <1>3. ASSUME NEW m \in SyncMessage, sync_channel' = Append(sync_channel, m)
        PROVE  Told' = Told \cup (IF m.kind = "Sync" THEN {m.block} ELSE {})
    BY <1>1, <1>3, UnderAppend DEF TypeOK
  <1> QED BY <1>1, <1>2, <1>3

(* The hands.                                                                  *)
LEMMA HandSets ==
    /\ core_hand' = core_hand => /\ Held(core_hand, "Sync")' = Held(core_hand, "Sync")
                                 /\ Held(core_hand, "Suspend")' = Held(core_hand, "Suspend")
    /\ hand' = hand => Held(hand, "LoopBack")' = Held(hand, "LoopBack")
    /\ payload_hand' = payload_hand => Held(payload_hand, "LoopBack")' = Held(payload_hand, "LoopBack")
    /\ inner_channel' = inner_channel => Blocks(inner_channel)' = Blocks(inner_channel)
  BY DEF Held, Blocks

(* Cleans are backed as long as only such Cleans are sent.                            *)
LEMMA CleansStay ==
    ASSUME IInv, stored \subseteq stored',
           \/ sync_channel' = sync_channel
           \/ sync_channel # << >> /\ sync_channel' = Tail(sync_channel)
           \/ \E m \in core_hand : sync_channel' = Append(sync_channel, m),
           \A m \in core_hand' : m \in core_hand \/ Backed(m)'
    PROVE  CleansBacked'
  <1> USE DEF IInv
  <1>1. \A m : Backed(m) => Backed(m)'
    BY DEF Backed
  <1>2. CASE sync_channel' = sync_channel
    BY <1>1, <1>2 DEF CleansBacked
  <1>3. CASE sync_channel # << >> /\ sync_channel' = Tail(sync_channel)
    <2>1. \A k \in 1 .. Len(sync_channel') :
             k + 1 \in 1 .. Len(sync_channel) /\ sync_channel'[k] = sync_channel[k + 1]
      BY <1>3 DEF TypeOK
    <2> QED BY <1>1, <2>1 DEF CleansBacked
  <1>4. ASSUME NEW m \in core_hand, sync_channel' = Append(sync_channel, m) PROVE CleansBacked'
    <2>1. \A k \in 1 .. Len(sync_channel') :
             (k \in 1 .. Len(sync_channel) /\ sync_channel'[k] = sync_channel[k])
               \/ sync_channel'[k] = m
      BY <1>4 DEF TypeOK
    <2> QED BY <1>1, <2>1 DEF CleansBacked
  <1> QED BY <1>2, <1>3, <1>4

(* process_block keeps the invariant when the block is complete.                      *)
LEMMA Processed ==
    ASSUME IInv, NEW b \in Block, ProcessBlock(b), core_hand = {},
           core_channel # << >>, core_channel' = Tail(core_channel),
           Head(core_channel).block = b, Complete(b),
           UNCHANGED <<payload_store, shown, looped, blockSync, payloadSync>>
    PROVE  Parts'
  <1> USE DEF blockSync, payloadSync, blockTask, payloadTask
  <1>1. /\ Proposed \cup Coming \subseteq Proposed' \cup Coming' \cup {b}
        /\ Coming' \subseteq Coming
    BY CoreSets DEF IInv
  <1>2. /\ Told' = Told /\ Blocks(inner_channel)' = Blocks(inner_channel)
        /\ Held(hand, "LoopBack")' = Held(hand, "LoopBack")
        /\ Held(payload_hand, "LoopBack")' = Held(payload_hand, "LoopBack")
    BY SyncSets, HandSets DEF IInv
  <1>3. Held(core_hand, "Sync") = {} /\ Held(core_hand, "Suspend") = {}
    BY HeldOne
  <1>4. CASE B!HasParent(b)
    <2> DEFINE m == [kind |-> "Clean", round |-> RoundOf[b]]
    <2>1. stored' = stored \cup {b} /\ core_hand' = {m}
      BY <1>4 DEF ProcessBlock, P!Clean
    <2>2. m.kind = "Clean" /\ m.round = RoundOf[b]
      OBVIOUS
    <2> HIDE DEF m
    <2>3. Held(core_hand, "Sync")' = {} /\ Held(core_hand, "Suspend")' = {}
      BY <2>1, <2>2, HeldOne
    <2>4. CleansBacked'
      BY <2>1, <2>2, CleansStay DEF Backed
    <2>5. DependenciesFirst'
      BY <1>4, <2>1 DEF IInv, DependenciesFirst, B!HasParent, Complete
    <2>6. MissingParentsRequested'
      BY <2>1 DEF IInv, MissingParentsRequested, B!HasParent
    <2>7. InHand \subseteq InHand' \cup {b} /\ PastPayloads' \subseteq PastPayloads
      BY <1>1, <1>2, <1>3, <2>3
         DEF InHand, PastPayloads, LoopedBack, Syncing, Suspending
    <2>8. InHand \subseteq InHand' \cup stored'
      BY <2>1, <2>7
    <2> QED BY <2>1, <2>4, <2>5, <2>6, <2>7, <2>8, HandedOn DEF Parts
  <1>5. CASE ~ B!HasParent(b)
    <2> DEFINE m == [kind |-> "Suspend", block |-> b]
    <2>1. stored' = stored /\ core_hand' = {m}
      BY <1>5 DEF ProcessBlock
    <2>2. m.kind = "Suspend" /\ m.block = b
      OBVIOUS
    <2> HIDE DEF m
    <2>3. Held(core_hand, "Sync")' = {} /\ Held(core_hand, "Suspend")' = {b}
      BY <2>1, <2>2, HeldOne
    <2>4. CleansBacked'
      BY <2>1, <2>2, CleansStay DEF Backed
    <2>5. DependenciesFirst' /\ MissingParentsRequested'
      BY <2>1, StoredOnly
    <2>6. /\ InHand \subseteq InHand'
          /\ PastPayloads' \subseteq PastPayloads \cup {b}
      BY <1>1, <1>2, <1>3, <2>3
         DEF InHand, PastPayloads, LoopedBack, Syncing, Suspending
    <2> QED BY <2>1, <2>4, <2>5, <2>6, HandedOn DEF Parts
  <1> QED BY <1>4, <1>5

(* The core and the environment.                                                      *)
LEMMA CoreSteps ==
    ASSUME IInv,
           \/ \E b \in Block : Show(b) \/ ForeignLoopBack(b)
           \/ \E x \in Payload : PayloadArrives(x)
           \/ HandleProposal \/ HandleLoopBack \/ CoreSends
    PROVE  Parts'
  <1> USE DEF blockSync, payloadSync, blockTask, payloadTask
  <1>a. ASSUME UNCHANGED <<blockSync, payloadSync, core_hand>>
        PROVE  /\ Told' = Told /\ Blocks(inner_channel)' = Blocks(inner_channel)
               /\ Held(hand, "LoopBack")' = Held(hand, "LoopBack")
               /\ Held(payload_hand, "LoopBack")' = Held(payload_hand, "LoopBack")
               /\ Held(core_hand, "Sync")' = Held(core_hand, "Sync")
               /\ Held(core_hand, "Suspend")' = Held(core_hand, "Suspend")
    BY <1>a, SyncSets, HandSets DEF IInv
  <1>1. ASSUME NEW b \in Block, Show(b) PROVE Parts'
    <2>1. UNCHANGED <<stored, payload_store, core_hand, looped, blockSync, payloadSync>>
      BY <1>1 DEF Show
    <2>2. Proposed' = Proposed \cup {b} /\ Coming' = Coming
      <3> DEFINE m == [kind |-> "Propose", block |-> b]
      <3>1. m \in CoreMessage /\ core_channel' = Append(core_channel, m)
        BY <1>1, Messages DEF Show
      <3> QED BY <3>1, CoreSets DEF IInv
    <2>3. CleansBacked' /\ DependenciesFirst' /\ MissingParentsRequested'
      BY <2>1, CleansStay, StoredOnly
    <2>4. InHand' = InHand \cup {b} /\ PastPayloads' = PastPayloads
      BY <1>a, <2>1, <2>2 DEF InHand, PastPayloads, LoopedBack, Syncing, Suspending
    <2>5. \A c \in Block : c # b => shown'[c] = shown[c]
      BY <1>1 DEF Show, IInv, TypeOK
    <2>6. Accounted'
      BY <2>1, <2>4, <2>5 DEF IInv, Accounted, Passed
    <2>7. PayloadsThere'
      BY <2>1, <2>4 DEF IInv, PayloadsThere, Complete
    <2> QED BY <2>3, <2>6, <2>7 DEF Parts
  <1>2. ASSUME NEW b \in Block, ForeignLoopBack(b) PROVE Parts'
    <2>1. /\ UNCHANGED <<stored, payload_store, core_hand, shown, blockSync, payloadSync>>
          /\ looped' = looped \cup {b}
      BY <1>2 DEF ForeignLoopBack
    <2>2. Proposed' = Proposed /\ Coming' = Coming \cup {b}
      <3> DEFINE m == [kind |-> "LoopBack", block |-> b]
      <3>1. m \in CoreMessage /\ core_channel' = Append(core_channel, m)
        BY <1>2, Messages DEF ForeignLoopBack
      <3> QED BY <3>1, CoreSets DEF IInv
    <2>3. CleansBacked' /\ DependenciesFirst' /\ MissingParentsRequested'
      BY <2>1, CleansStay, StoredOnly
    <2>4. InHand' = InHand \cup {b} /\ PastPayloads' = PastPayloads \cup {b}
      BY <1>a, <2>1, <2>2 DEF InHand, PastPayloads, LoopedBack, Syncing, Suspending
    <2>5. Accounted'
      BY <2>1, <2>4 DEF IInv, Accounted, Passed
    <2>6. PayloadsThere'
      BY <2>1, <2>4 DEF IInv, PayloadsThere, Complete
    <2> QED BY <2>3, <2>5, <2>6 DEF Parts
  <1>3. ASSUME NEW x \in Payload, PayloadArrives(x) PROVE Parts'
    <2>1. /\ UNCHANGED <<stored, core_channel, core_hand, shown, looped, blockSync, payloadSync>>
          /\ payload_store \subseteq payload_store'
      BY <1>3 DEF PayloadArrives
    <2>2. Coming' = Coming /\ Proposed' = Proposed
      BY <2>1, CoreSets DEF IInv
    <2>3. InHand' = InHand /\ PastPayloads' = PastPayloads
      BY <1>a, <2>1, <2>2 DEF InHand, PastPayloads, LoopedBack, Syncing, Suspending
    <2>4. CleansBacked' /\ DependenciesFirst' /\ MissingParentsRequested'
      BY <2>1, CleansStay, StoredOnly
    <2> QED BY <2>1, <2>3, <2>4, HandedOn DEF Parts
  <1>4. CASE HandleProposal
    <2> DEFINE b == Head(core_channel).block
    <2>1. /\ core_hand = {} /\ core_channel # << >> /\ core_channel' = Tail(core_channel)
          /\ Head(core_channel).kind = "Propose"
          /\ UNCHANGED <<payload_store, shown, looped, blockSync, payloadSync>>
      BY <1>4 DEF HandleProposal, CoreFree
    <2>2. b \in Block
      BY <2>1, CoreTail DEF IInv
    <2>3. CASE P!Missing(b) = {}
      <3>1. ProcessBlock(b) /\ Complete(b)
        BY <1>4, <2>3 DEF HandleProposal, P!Missing, Complete
      <3> QED BY <2>1, <2>2, <3>1, Processed
    <2>4. CASE P!Missing(b) # {}
      <3> DEFINE m == P!Sync(b)
      <3>1. stored' = stored /\ core_hand' = {m}
        BY <1>4, <2>4 DEF HandleProposal
      <3>2. m.kind = "Sync" /\ m.block = b
        BY DEF P!Sync
      <3> HIDE DEF m
      <3>3. /\ Held(core_hand, "Sync")' = {b} /\ Held(core_hand, "Suspend")' = {}
            /\ Held(core_hand, "Sync") = {} /\ Held(core_hand, "Suspend") = {}
        BY <2>1, <3>1, <3>2, HeldOne
      <3>4. CleansBacked' /\ DependenciesFirst' /\ MissingParentsRequested'
        BY <2>1, <3>1, <3>2, CleansStay, StoredOnly DEF Backed
      <3>5. /\ Proposed \subseteq Proposed' \cup {b} /\ Coming \subseteq Coming'
            /\ Coming' \subseteq Coming
        BY <2>1, CoreSets DEF IInv
      <3>6. /\ Told' = Told /\ Blocks(inner_channel)' = Blocks(inner_channel)
            /\ Held(hand, "LoopBack")' = Held(hand, "LoopBack")
            /\ Held(payload_hand, "LoopBack")' = Held(payload_hand, "LoopBack")
        BY <2>1, SyncSets, HandSets DEF IInv
      <3>7. InHand \subseteq InHand' /\ PastPayloads' \subseteq PastPayloads
        BY <2>1, <3>3, <3>5, <3>6 DEF InHand, PastPayloads, LoopedBack, Syncing, Suspending
      <3> QED BY <2>1, <3>1, <3>4, <3>7, HandedOn DEF Parts
    <2> QED BY <2>3, <2>4
  <1>5. CASE HandleLoopBack
    <2> DEFINE b == Head(core_channel).block
    <2>1. /\ core_hand = {} /\ core_channel # << >> /\ core_channel' = Tail(core_channel)
          /\ Head(core_channel).kind = "LoopBack" /\ ProcessBlock(b)
          /\ UNCHANGED <<payload_store, shown, looped, blockSync, payloadSync>>
      BY <1>5 DEF HandleLoopBack, CoreFree
    <2>2. b \in Block
      BY <2>1, CoreTail DEF IInv
    <2>3. b \in Coming
      <3>1. Len(core_channel) \in Nat /\ 1 \in 1 .. Len(core_channel)
            /\ Head(core_channel) = core_channel[1]
        BY <2>1 DEF IInv, TypeOK
      <3> QED BY <2>1, <3>1 DEF Coming, Under
    <2>4. Complete(b)
      BY <2>3 DEF IInv, PayloadsThere, PastPayloads, LoopedBack
    <2> QED BY <2>1, <2>2, <2>4, Processed
  <1>6. CASE CoreSends
    <2>1. PICK m \in core_hand :
            IF m.kind = "Suspend" THEN B!Suspend(m.block) /\ UNCHANGED sync_channel
                                  ELSE P!Tell(m) /\ UNCHANGED inner_channel
      BY <1>6 DEF CoreSends
    <2>2. /\ core_hand' = {} /\ UNCHANGED <<stored, core_channel, payload_store, shown, looped,
                                            suspended, requests, hand, pending, payload_hand>>
      BY <1>6 DEF CoreSends
    <2>3. core_hand = {m} /\ m \in FromCore
      BY HandTypes DEF IInv
    <2>4. /\ Coming' = Coming /\ Proposed' = Proposed
          /\ Held(hand, "LoopBack")' = Held(hand, "LoopBack")
          /\ Held(payload_hand, "LoopBack")' = Held(payload_hand, "LoopBack")
          /\ Held(core_hand, "Sync")' = {} /\ Held(core_hand, "Suspend")' = {}
      BY <2>2, CoreSets, HandSets, HeldOne DEF IInv
    <2>5. DependenciesFirst' /\ MissingParentsRequested'
      BY <2>2, StoredOnly
    <2>6. CASE m.kind = "Suspend"
      <3>1. sync_channel' = sync_channel /\ inner_channel' = Append(inner_channel, m.block)
        BY <2>1, <2>6 DEF B!Suspend
      <3>2. m.block \in Block
        BY <2>3, <2>6 DEF FromCore, SyncMessage
      <3>3. Blocks(inner_channel)' = Blocks(inner_channel) \cup {m.block}
        <4>1. Blocks(Append(inner_channel, m.block)) = Blocks(inner_channel) \cup {m.block}
          BY <3>2, BlocksAppend DEF IInv, TypeOK
        <4> QED BY <3>1, <4>1 DEF Blocks
      <3>4. Held(core_hand, "Sync") = {} /\ Held(core_hand, "Suspend") = {m.block}
        BY <2>3, <2>6, HeldOne
      <3>5. Told' = Told /\ CleansBacked'
        BY <2>2, <3>1, SyncSets, CleansStay DEF IInv
      <3>6. InHand' = InHand /\ PastPayloads' = PastPayloads
        BY <2>2, <2>4, <3>3, <3>4, <3>5 DEF InHand, PastPayloads, LoopedBack, Syncing, Suspending
      <3> QED BY <2>2, <2>5, <3>5, <3>6, HandedOn DEF Parts
    <2>7. CASE m.kind # "Suspend"
      <3>1. /\ inner_channel' = inner_channel /\ sync_channel' = Append(sync_channel, m)
            /\ m \in SyncMessage
        BY <2>1, <2>3, <2>7 DEF P!Tell, FromCore
      <3>2. /\ Told' = Told \cup (IF m.kind = "Sync" THEN {m.block} ELSE {})
            /\ CleansBacked'
        BY <2>2, <3>1, SyncSets, CleansStay DEF IInv
      <3>3. /\ Held(core_hand, "Sync") = IF m.kind = "Sync" THEN {m.block} ELSE {}
            /\ Held(core_hand, "Suspend") = {}
        BY <2>3, <2>7, HeldOne
      <3>4. Blocks(inner_channel)' = Blocks(inner_channel)
        BY <3>1, HandSets
      <3>5. InHand' = InHand /\ PastPayloads' = PastPayloads
        BY <2>2, <2>4, <3>2, <3>3, <3>4 DEF InHand, PastPayloads, LoopedBack, Syncing, Suspending
      <3> QED BY <2>2, <2>5, <3>2, <3>5, HandedOn DEF Parts
    <2> QED BY <2>6, <2>7
  <1> QED BY <1>1, <1>2, <1>3, <1>4, <1>5, <1>6

(* The consensus synchronizer.                                                        *)
LEMMA BlockSteps ==
    ASSUME IInv, B!Step, UNCHANGED othersThanBlockSync
    PROVE  Parts'
  <1> USE DEF payloadSync, payloadTask, othersThanBlockSync
  <1>1. stored' = stored
    BY DEF B!Step, B!Take, B!Resumed, B!Resume, B!Retry, B!Send, B!SendLoopBack, B!SendRequest
  <1>2. /\ DependenciesFirst' /\ CleansBacked'
        /\ \A b \in Block : B!HasParent(b)' <=> B!HasParent(b)
        /\ UNCHANGED <<suspended, requests>> => MissingParentsRequested'
    BY <1>1, CleansStay, StoredOnly
  <1>3. /\ Told' = Told /\ Held(core_hand, "Sync")' = Held(core_hand, "Sync")
        /\ Held(core_hand, "Suspend")' = Held(core_hand, "Suspend")
        /\ Held(payload_hand, "LoopBack")' = Held(payload_hand, "LoopBack")
    BY SyncSets, HandSets DEF IInv
  <1>4. CASE B!Take
    <2> DEFINE b == Head(inner_channel)
    <2>1. /\ inner_channel # << >> /\ inner_channel' = Tail(inner_channel)
          /\ suspended' = suspended \cup {b} /\ core_channel' = core_channel
          /\ hand = {} /\ (hand' = {} \/ hand' = {B!SyncRequest})
      BY <1>4 DEF B!Take, B!Free
    <2>2. Blocks(inner_channel) = Blocks(inner_channel)' \cup {b}
      <3>1. Blocks(inner_channel) = Blocks(Tail(inner_channel)) \cup {b}
        BY <2>1, BlocksTail DEF IInv, TypeOK
      <3> QED BY <2>1, <3>1 DEF Blocks
    <2>3. /\ Coming' = Coming /\ Proposed' = Proposed
          /\ Held(hand, "LoopBack") = {} /\ Held(hand, "LoopBack")' = {}
      BY <2>1, CoreSets, HeldOne DEF IInv, B!SyncRequest
    <2>4. InHand \subseteq InHand' /\ PastPayloads' \subseteq PastPayloads
      BY <1>3, <2>1, <2>2, <2>3 DEF InHand, PastPayloads, LoopedBack, Syncing, Suspending
    <2>5. MissingParentsRequested'
      BY <1>1, <1>4 DEF B!Take, IInv, MissingParentsRequested, B!HasParent
    <2> QED BY <1>1, <1>2, <2>4, <2>5, HandedOn DEF Parts
  <1>5. ASSUME NEW b \in Block, B!Resume(b) PROVE Parts'
    <2>1. /\ b \in suspended /\ suspended' = suspended \ {b}
          /\ UNCHANGED <<core_channel, inner_channel>> /\ B!HasParent(b)
          /\ requests' = requests \ {ParentOf[b]}
          /\ hand = {} /\ hand' = {B!LoopBack(b)}
      BY <1>5 DEF B!Resume, B!Free
    <2>2. B!LoopBack(b).kind = "LoopBack" /\ B!LoopBack(b).block = b
      BY DEF B!LoopBack
    <2>3. /\ Proposed' = Proposed /\ Coming' = Coming
          /\ Blocks(inner_channel)' = Blocks(inner_channel)
          /\ Held(hand, "LoopBack") = {} /\ Held(hand, "LoopBack")' = {b}
      BY <2>1, <2>2, CoreSets, HandSets, HeldOne DEF IInv
    <2>4. InHand \subseteq InHand' /\ PastPayloads' \subseteq PastPayloads
      BY <1>3, <2>1, <2>3 DEF InHand, PastPayloads, LoopedBack, Syncing, Suspending
    <2>5. MissingParentsRequested'
      BY <1>1, <2>1 DEF IInv, MissingParentsRequested, B!HasParent
    <2> QED BY <1>1, <1>2, <2>4, <2>5, HandedOn DEF Parts
  <1>6. CASE B!Retry \/ B!SendRequest
    <2>1. /\ UNCHANGED <<core_channel, inner_channel, suspended, requests>>
          /\ (hand = {} /\ hand' = {B!SyncRequest}) \/ (B!SyncRequest \in hand /\ hand' = {})
      BY <1>6 DEF B!Retry, B!Free, B!SendRequest
    <2>2. (hand = {} /\ hand' = {B!SyncRequest}) \/ (hand = {B!SyncRequest} /\ hand' = {})
      BY <2>1, HandTypes DEF IInv
    <2>3. /\ Proposed' = Proposed /\ Coming' = Coming
          /\ Blocks(inner_channel)' = Blocks(inner_channel)
          /\ Held(hand, "LoopBack") = {} /\ Held(hand, "LoopBack")' = {}
      BY <2>1, <2>2, CoreSets, HandSets, HeldOne DEF IInv, B!SyncRequest
    <2>4. InHand' = InHand /\ PastPayloads' = PastPayloads
      BY <1>3, <2>1, <2>3 DEF InHand, PastPayloads, LoopedBack, Syncing, Suspending
    <2> QED BY <1>1, <1>2, <2>1, <2>4, HandedOn DEF Parts
  <1>7. CASE B!SendLoopBack
    <2>1. PICK b \in Block : /\ B!LoopBack(b) \in hand
                             /\ core_channel' = Append(core_channel, B!LoopBack(b))
      BY <1>7 DEF B!SendLoopBack
    <2>2. UNCHANGED <<inner_channel, suspended, requests>> /\ hand' = {}
      BY <1>7 DEF B!SendLoopBack
    <2>3. /\ B!LoopBack(b).kind = "LoopBack" /\ B!LoopBack(b).block = b
          /\ B!LoopBack(b) \in CoreMessage /\ hand = {B!LoopBack(b)}
      BY <2>1, HandTypes, Messages DEF B!LoopBack, IInv
    <2>4. Held(hand, "LoopBack") = {b} /\ Held(hand, "LoopBack")' = {}
      BY <2>2, <2>3, HeldOne
    <2>5. Proposed' = Proposed /\ Coming' = Coming \cup {b}
      BY <2>1, <2>3, CoreSets DEF IInv
    <2>6. Blocks(inner_channel)' = Blocks(inner_channel)
      BY <2>2, HandSets
    <2>7. InHand' = InHand /\ PastPayloads' = PastPayloads
      BY <1>3, <2>2, <2>4, <2>5, <2>6 DEF InHand, PastPayloads, LoopedBack, Syncing, Suspending
    <2> QED BY <1>1, <1>2, <2>2, <2>7, HandedOn DEF Parts
  <1> QED BY <1>4, <1>5, <1>6, <1>7 DEF B!Step, B!Resumed, B!Send

(* The mempool's synchronizer.                                                        *)
LEMMA PayloadSteps ==
    ASSUME IInv, P!Step, UNCHANGED othersThanPayloadSync
    PROVE  Parts'
  <1> USE DEF blockSync, blockTask, othersThanPayloadSync
  <1>1. payload_store' = payload_store
    BY DEF P!Step, P!Take, P!TakeSync, P!TakeClean, P!WaiterEnds, P!Return, P!Deliver,
           P!DeliverCancelled, P!Discard, P!Retry, P!Send, P!SendLoopBack, P!SendRequest
  <1>2. DependenciesFirst' /\ MissingParentsRequested'
    BY <1>1, StoredOnly
  <1>3. /\ Blocks(inner_channel)' = Blocks(inner_channel) /\ suspended' = suspended
        /\ Held(core_hand, "Sync")' = Held(core_hand, "Sync")
        /\ Held(core_hand, "Suspend")' = Held(core_hand, "Suspend")
        /\ Held(hand, "LoopBack")' = Held(hand, "LoopBack")
    BY HandSets
  <1>4. CASE P!TakeSync
    <2>1. /\ sync_channel # << >> /\ sync_channel' = Tail(sync_channel)
          /\ core_channel' = core_channel /\ pending' = pending \cup {Head(sync_channel).block}
          /\ payload_hand = {} /\ (payload_hand' = {} \/ payload_hand' = {P!PayloadRequest})
      BY <1>4 DEF P!TakeSync, P!Free
    <2>2. /\ Proposed' = Proposed /\ Coming' = Coming
          /\ Told \subseteq Told' \cup {Head(sync_channel).block} /\ CleansBacked'
      BY <2>1, CoreSets, SyncSets, CleansStay DEF IInv
    <2>3. Held(payload_hand, "LoopBack") = {} /\ Held(payload_hand, "LoopBack")' = {}
      BY <2>1, HeldOne DEF P!PayloadRequest
    <2>4. InHand \subseteq InHand' /\ PastPayloads' \subseteq PastPayloads
      BY <1>3, <2>1, <2>2, <2>3 DEF InHand, PastPayloads, LoopedBack, Syncing, Suspending
    <2> QED BY <1>1, <1>2, <2>2, <2>4, HandedOn DEF Parts
  <1>5. CASE P!TakeClean
    <2> DEFINE m == Head(sync_channel)
    <2>1. /\ sync_channel # << >> /\ sync_channel' = Tail(sync_channel) /\ m.kind = "Clean"
          /\ core_channel' = core_channel /\ payload_hand' = payload_hand
          /\ pending' = pending \ {b \in pending : RoundOf[b] <= m.round}
      BY <1>5 DEF P!TakeClean
    <2>2. /\ Proposed' = Proposed /\ Coming' = Coming
          /\ Told \subseteq Told' /\ CleansBacked'
      BY <2>1, CoreSets, SyncSets, CleansStay DEF IInv
    <2>3. PICK c \in stored : RoundOf[c] = m.round
      BY <2>1, SyncTail DEF IInv, CleansBacked, Backed
    <2>4. \A b \in Block : RoundOf[b] <= m.round => Passed(b)'
      BY <2>3 DEF Passed
    <2>5. Held(payload_hand, "LoopBack")' = Held(payload_hand, "LoopBack")
      BY <2>1, HandSets
    <2>6. /\ InHand \subseteq InHand' \cup {b \in Block : Passed(b)'}
          /\ PastPayloads' \subseteq PastPayloads
      BY <1>3, <2>1, <2>2, <2>4, <2>5
         DEF InHand, PastPayloads, LoopedBack, Syncing, Suspending, IInv, TypeOK
    <2> QED BY <1>1, <1>2, <2>2, <2>6, HandedOn DEF Parts
  <1>6. ASSUME NEW b \in Block, P!Return(b) PROVE Parts'
    <2>1. /\ UNCHANGED <<sync_channel, core_channel>> /\ pending' = pending \ {b}
          /\ payload_hand = {} /\ payload_hand' = {P!LoopBack(b)} /\ Complete(b)
      BY <1>6 DEF P!Return, P!Free, P!WaiterReady, P!Missing, Complete
    <2>2. P!LoopBack(b).kind = "LoopBack" /\ P!LoopBack(b).block = b
      BY DEF P!LoopBack
    <2>3. /\ Proposed' = Proposed /\ Coming' = Coming /\ Told' = Told /\ CleansBacked'
          /\ Held(payload_hand, "LoopBack") = {} /\ Held(payload_hand, "LoopBack")' = {b}
      BY <2>1, <2>2, CoreSets, SyncSets, CleansStay, HeldOne DEF IInv
    <2>4. InHand \subseteq InHand' /\ PastPayloads' \subseteq PastPayloads \cup {b}
      BY <1>3, <2>1, <2>3 DEF InHand, PastPayloads, LoopedBack, Syncing, Suspending
    <2> QED BY <1>1, <1>2, <2>1, <2>3, <2>4, HandedOn DEF Parts
  <1>7. ASSUME NEW b \in Block, P!Discard(b) PROVE Parts'
    <2>1. UNCHANGED <<core_channel, sync_channel, pending, payload_hand>>
      BY <1>7 DEF P!Discard
    <2>2. /\ Proposed' = Proposed /\ Coming' = Coming /\ Told' = Told /\ CleansBacked'
          /\ Held(payload_hand, "LoopBack")' = Held(payload_hand, "LoopBack")
      BY <2>1, CoreSets, SyncSets, HandSets, CleansStay DEF IInv
    <2>3. InHand' = InHand /\ PastPayloads' = PastPayloads
      BY <1>3, <2>1, <2>2 DEF InHand, PastPayloads, LoopedBack, Syncing, Suspending
    <2> QED BY <1>1, <1>2, <2>2, <2>3, HandedOn DEF Parts
  <1>8. CASE P!Retry \/ P!SendRequest
    <2>1. /\ UNCHANGED <<core_channel, sync_channel, pending>>
          /\ \/ payload_hand = {} /\ payload_hand' = {P!PayloadRequest}
             \/ P!PayloadRequest \in payload_hand /\ payload_hand' = {}
      BY <1>8 DEF P!Retry, P!Free, P!SendRequest
    <2>2. \/ payload_hand = {} /\ payload_hand' = {P!PayloadRequest}
          \/ payload_hand = {P!PayloadRequest} /\ payload_hand' = {}
      BY <2>1, HandTypes DEF IInv
    <2>3. /\ Proposed' = Proposed /\ Coming' = Coming /\ Told' = Told /\ CleansBacked'
          /\ Held(payload_hand, "LoopBack") = {} /\ Held(payload_hand, "LoopBack")' = {}
      BY <2>1, <2>2, CoreSets, SyncSets, CleansStay, HeldOne DEF IInv, P!PayloadRequest
    <2>4. InHand' = InHand /\ PastPayloads' = PastPayloads
      BY <1>3, <2>1, <2>3 DEF InHand, PastPayloads, LoopedBack, Syncing, Suspending
    <2> QED BY <1>1, <1>2, <2>3, <2>4, HandedOn DEF Parts
  <1>9. CASE P!SendLoopBack
    <2>1. PICK b \in Block : /\ P!LoopBack(b) \in payload_hand
                             /\ core_channel' = Append(core_channel, P!LoopBack(b))
      BY <1>9 DEF P!SendLoopBack
    <2>2. UNCHANGED <<sync_channel, pending>> /\ payload_hand' = {}
      BY <1>9 DEF P!SendLoopBack
    <2>3. /\ P!LoopBack(b).kind = "LoopBack" /\ P!LoopBack(b).block = b
          /\ P!LoopBack(b) \in CoreMessage /\ payload_hand = {P!LoopBack(b)}
      BY <2>1, HandTypes, Messages DEF P!LoopBack, IInv
    <2>4. Held(payload_hand, "LoopBack") = {b} /\ Held(payload_hand, "LoopBack")' = {}
      BY <2>2, <2>3, HeldOne
    <2>5. Proposed' = Proposed /\ Coming' = Coming \cup {b}
      BY <2>1, <2>3, CoreSets DEF IInv
    <2>6. Told' = Told /\ CleansBacked'
      BY <2>2, SyncSets, CleansStay DEF IInv
    <2>7. InHand' = InHand /\ PastPayloads' = PastPayloads
      BY <1>3, <2>2, <2>4, <2>5, <2>6 DEF InHand, PastPayloads, LoopedBack, Syncing, Suspending
    <2> QED BY <1>1, <1>2, <2>6, <2>7, HandedOn DEF Parts
  <1> QED
    BY <1>4, <1>5, <1>6, <1>7, <1>8, <1>9
       DEF P!Step, P!Take, P!WaiterEnds, P!Deliver, P!DeliverCancelled, P!Send

LEMMA Inductive == IInv /\ [Next]_vars => IInv'
  <1> SUFFICES ASSUME IInv, [Next]_vars PROVE IInv'
    OBVIOUS
  <1>1. TypeOK'
    BY TypeStep DEF IInv
  <1>2. CASE UNCHANGED vars
    <2>1. UNCHANGED <<stored, core_channel, core_hand, payload_store, shown, looped,
                      inner_channel, suspended, requests, hand, sync_channel, pending, payload_hand>>
      BY <1>2 DEF vars, blockSync, payloadSync, blockTask, payloadTask
    <2>2. /\ Coming' = Coming /\ Proposed' = Proposed /\ Told' = Told
          /\ Blocks(inner_channel)' = Blocks(inner_channel)
          /\ Held(hand, "LoopBack")' = Held(hand, "LoopBack")
          /\ Held(payload_hand, "LoopBack")' = Held(payload_hand, "LoopBack")
          /\ Held(core_hand, "Sync")' = Held(core_hand, "Sync")
          /\ Held(core_hand, "Suspend")' = Held(core_hand, "Suspend")
      BY <2>1, CoreSets, SyncSets, HandSets DEF IInv
    <2>3. InHand' = InHand /\ PastPayloads' = PastPayloads
      BY <2>1, <2>2 DEF InHand, PastPayloads, LoopedBack, Syncing, Suspending
    <2>4. DependenciesFirst' /\ MissingParentsRequested' /\ CleansBacked'
      BY <2>1, CleansStay, StoredOnly
    <2>5. Accounted' /\ PayloadsThere'
      BY <2>1, <2>3, HandedOn
    <2> QED BY <1>1, <2>4, <2>5 DEF IInv
  <1>3. ASSUME Parts' PROVE IInv'
    BY <1>1, <1>3 DEF Parts, IInv
  <1> QED BY <1>2, <1>3, CoreSteps, BlockSteps, PayloadSteps DEF Next

LEMMA Start == Init => IInv
  BY SuspensionAssumption
     DEF Init, B!Init, P!Init, IInv, TypeOK, AtMostOne, DependenciesFirst, PayloadsThere,
         PastPayloads, LoopedBack, Coming, Suspending, Held, Blocks, Under, CleansBacked,
         Accounted, MissingParentsRequested

(* The invariant holds whatever is late, in whatever order it comes.                 *)
THEOREM Invariant == Spec => []IInv
  <1> QED BY Start, Inductive, PTL DEF Spec

(* A processed block has its parent in the store, and its payloads unless a peer has  *)
(* gossiped a LoopBack of it.                                                          *)
THEOREM DependenciesHold == Spec => []DependenciesFirst
  <1>1. IInv => DependenciesFirst
    BY DEF IInv
  <1> QED BY <1>1, Invariant, PTL

(* A block that came is processed, in somebody's hands, or behind one of its round or *)
(* later; and a missing parent is being asked for.                                     *)
THEOREM NothingLost == Spec => []NothingForgotten
  <1>1. IInv => NothingForgotten
    BY AccountedFor DEF IInv, NothingForgotten
  <1> QED BY <1>1, Invariant, PTL
=============================================================================
