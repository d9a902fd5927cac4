----------------------------- MODULE LcNodeProofs -----------------------------
(***************************************************************************)
(* The longest chain part of a node: its tree is right, it follows the best   *)
(* tip above the last checkpoint, its miner never loses that tip and never     *)
(* mines on a block of a slot to come; for any blocks, mined and delivered in any  *)
(* order, and whatever the clock shows.                                            *)
(***************************************************************************)
EXTENDS LcNode, LcBlockTreeProofs

-----------------------------------------------------------------------------
(* The tips that wait for their slot.                                         *)
LEMMA WaitingTips ==
    ASSUME NEW S, NEW kept \in Seq(S), NEW slot
    PROVE  /\ M!Waiting(kept, slot) \in Seq(S)
           /\ \A j \in 1 .. Len(M!Waiting(kept, slot)) :
                 \E i \in 1 .. Len(kept) : /\ M!Waiting(kept, slot)[j] = kept[i]
                                           /\ ~ M!HasBegun(kept[i], slot)
           /\ kept # << >> /\ ~ M!HasBegun(kept[Len(kept)], slot) =>
                 /\ M!Waiting(kept, slot) # << >>
                 /\ M!Waiting(kept, slot)[Len(M!Waiting(kept, slot))] = kept[Len(kept)]
  <1> DEFINE n == Len(kept)
             one(x, j) == IF M!HasBegun(kept[j], slot) THEN x ELSE Append(x, kept[j])
             v(f, j) == IF j = 0 THEN << >> ELSE one(f[j - 1], j)
             IsRest(f) == f = [j \in 0 .. n |-> v(f, j)]
             rest == CHOOSE f : IsRest(f)
  <1>1. n \in Nat /\ \A j \in 1 .. n : kept[j] \in S
    OBVIOUS
  <1>2. \A j \in 1 .. n, x \in Seq(S) : one(x, j) \in Seq(S)
    OBVIOUS
  <1>3. \E f : IsRest(f)
    <2> DEFINE step == [j \in 1 .. n |-> [x \in Seq(S) |-> one(x, j)]]
    <2> HIDE DEF one, n
    <2>1. step \in [1 .. n -> [Seq(S) -> Seq(S)]]
      BY <1>2
    <2>2. \A j \in 1 .. n, x \in Seq(S) : step[j][x] = one(x, j)
      OBVIOUS
    <2>3. << >> \in Seq(S)
      OBVIOUS
    <2> HIDE DEF step
    <2>4. PICK f \in [0 .. n -> Seq(S)] : IsIteration(f, n, << >>, step)
      BY <1>1, <2>1, <2>3, IterationExists
    <2> DEFINE u(j) == IF j = 0 THEN << >> ELSE step[j][f[j - 1]]
    <2>5. ASSUME NEW j \in 0 .. n PROVE u(j) = v(f, j)
      <3>1. j # 0 => j \in 1 .. n /\ f[j - 1] \in Seq(S)
        BY <1>1
      <3> QED BY <2>2, <3>1
    <2>6. f = [j \in 0 .. n |-> u(j)]
      BY <2>4 DEF IsIteration
    <2> HIDE DEF u, v
    <2>7. f = [j \in 0 .. n |-> v(f, j)]
      BY <2>5, <2>6
    <2> QED BY <2>7
  <1>4. IsRest(rest)
    <2> HIDE DEF IsRest
    <2> QED BY <1>3
  <1>5. M!Waiting(kept, slot) = rest[n]
    BY DEF M!Waiting
  <1> HIDE DEF rest
  <1>6. \A j \in 0 .. n : rest[j] = v(rest, j)
    <2> HIDE DEF v
    <2> QED BY <1>4
  <1> HIDE DEF IsRest
  <1> DEFINE P(x) == /\ x \in Seq(S)
                     /\ \A j \in 1 .. Len(x) :
                          \E i \in 1 .. n : x[j] = kept[i] /\ ~ M!HasBegun(kept[i], slot)
             bad == {j \in 0 .. n : ~ P(rest[j])}
  <1>7. ASSUME NEW x, NEW j \in 1 .. n, P(x) PROVE P(one(x, j))
    <2>1. CASE M!HasBegun(kept[j], slot)
      BY <1>7, <2>1
    <2>2. CASE ~ M!HasBegun(kept[j], slot)
      <3>1. /\ one(x, j) = Append(x, kept[j]) /\ Len(one(x, j)) = Len(x) + 1
            /\ \A i \in 1 .. Len(x) : one(x, j)[i] = x[i]
            /\ one(x, j)[Len(x) + 1] = kept[j]
        BY <1>1, <1>7, <2>2
      <3>2. one(x, j) \in Seq(S)
        BY <1>2, <1>7
      <3> HIDE DEF one
      <3>3. ASSUME NEW m \in 1 .. Len(one(x, j))
            PROVE  \E i \in 1 .. n : one(x, j)[m] = kept[i] /\ ~ M!HasBegun(kept[i], slot)
        <4>1. Len(x) \in Nat
          BY <1>7
        <4>2. CASE m \in 1 .. Len(x)
          BY <1>7, <3>1, <4>2
        <4>3. CASE m = Len(x) + 1
          BY <2>2, <3>1, <4>3
        <4> QED BY <3>1, <4>1, <4>2, <4>3
      <3> QED BY <3>2, <3>3
    <2> QED BY <2>1, <2>2
  <1>8. P(<< >>)
    OBVIOUS
  <1> HIDE DEF P
  <1>9. bad = {}
    <2> SUFFICES ASSUME bad # {} PROVE FALSE
      OBVIOUS
    <2>1. PICK j \in bad : \A i \in bad : j <= i
      <3>1. bad \subseteq Nat
        BY <1>1
      <3> HIDE DEF bad
      <3> QED BY <3>1, SmallestExists
    <2>2. j # 0
      BY <1>1, <1>6, <1>8, <2>1
    <2>3. j - 1 \in 0 .. n /\ j - 1 \notin bad /\ j \in 1 .. n
      BY <1>1, <2>1, <2>2
    <2> HIDE DEF one
    <2>4. P(one(rest[j - 1], j))
      BY <1>7, <2>3
    <2> QED BY <1>6, <2>1, <2>2, <2>4
  <1>10. P(rest[n])
    BY <1>1, <1>9
  <1>11. ASSUME kept # << >>, ~ M!HasBegun(kept[n], slot)
         PROVE  rest[n] # << >> /\ rest[n][Len(rest[n])] = kept[n]
    <2>1. n \in 1 .. n /\ n \in 0 .. n /\ n # 0 /\ n - 1 \in 0 .. n
      BY <1>11
    <2>2. rest[n - 1] \in Seq(S)
      BY <1>9, <2>1 DEF P
    <2>3. one(rest[n - 1], n) = Append(rest[n - 1], kept[n])
      BY <1>11
    <2> HIDE DEF one, n
    <2>4. rest[n] = Append(rest[n - 1], kept[n])
      BY <1>6, <2>1, <2>3
    <2> QED BY <2>2, <2>4
  <1> QED BY <1>5, <1>10, <1>11 DEF P

-----------------------------------------------------------------------------
(* The inductive invariant.                                                   *)

(* What the manager may tell the miner: a block and its slot.                  *)
NoticeOf(m) == {[tip |-> d, slot |-> m[d].slot] : d \in DOMAIN m}

MintedOK ==
    /\ DOMAIN minted \subseteq Digest
    /\ Genesis \in DOMAIN minted /\ minted[Genesis] = GenesisBlock
    /\ \A d \in DOMAIN minted : minted[d] \in Block
    /\ \E h : Grounded(minted, DOMAIN minted, h)

(* The tree has the blocks as they were mined.                                 *)
TreeOK ==
    /\ FullTree(tree)
    /\ \A d \in Known(tree) : d \in DOMAIN minted /\ tree.lcblocks[d] = minted[d]

CheckpointOK ==
    /\ checkpoints \in Seq(DOMAIN minted)
    /\ panicked \in BOOLEAN
    /\ ~ panicked => LatestCheckpoint \in Known(tree)

NoticesOK ==
    /\ tip_mining \in Seq(NoticeOf(minted))
    /\ blocks_from_future_slots \in Seq(NoticeOf(minted))

(* The slot of the parent has begun at some time, those of the deferred tips    *)
(* have not.                                                                     *)
MinerOK ==
    /\ current_parent \in DOMAIN minted
    /\ accept_blocks_for_slot \in Nat
    /\ latest_slot \in Nat /\ accept_blocks_for_slot <= latest_slot
    /\ minted[current_parent].slot <= latest_slot
    /\ \A k \in 1 .. Len(blocks_from_future_slots) :
          blocks_from_future_slots[k].slot > accept_blocks_for_slot

(* The leading tip is the newest one on its way to the miner, or else the       *)
(* newest deferred one, or the parent, unless a tip of a later slot came after;    *)
(* no tip of its slot or before can come after it.                                 *)
NewestIsLeading ==
    ~ panicked =>
        LET leading == LeadingTip(tree, LatestCheckpoint) IN
        IF tip_mining # << >>
        THEN tip_mining[Len(tip_mining)].tip = leading
        ELSE \/ /\ \A k \in 1 .. Len(blocks_from_future_slots) :
                      blocks_from_future_slots[k].slot > minted[leading].slot
                /\ \/ current_parent = leading
                   \/ minted[current_parent].slot > minted[leading].slot
             \/ /\ blocks_from_future_slots # << >>
                /\ blocks_from_future_slots[Len(blocks_from_future_slots)].tip = leading

NodeInv ==
    /\ MintedOK
    /\ TreeOK
    /\ CheckpointOK
    /\ NoticesOK
    /\ MinerOK
    /\ NewestIsLeading

LEMMA SeqGrows ==
    ASSUME NEW S, NEW T, S \subseteq T, NEW s \in Seq(S) PROVE s \in Seq(T)
  OBVIOUS

LEMMA NodeStart == NodeInit => NodeInv
  <1> SUFFICES ASSUME NodeInit PROVE NodeInv
    OBVIOUS
  <1> USE DEF NodeInit, Init, M!Init
  <1>1. minted = [d \in {Genesis} |-> GenesisBlock]
    OBVIOUS
  <1>2. DOMAIN minted = {Genesis} /\ minted[Genesis] = GenesisBlock /\ GenesisBlock.slot = 0
        /\ GenesisBlock.parent = NoParent /\ GenesisBlock \in Block
    BY <1>1 DEF GenesisBlock, Block
  <1>3. \E h : Grounded(minted, DOMAIN minted, h)
    <2> DEFINE h == [d \in {Genesis} |-> 0]
    <2>1. Grounded(minted, DOMAIN minted, h)
      BY <1>2 DEF Grounded
    <2> QED BY <2>1
  <1>4. MintedOK
    BY <1>2, <1>3, DigestAssumption DEF MintedOK
  <1>5. TreeOK /\ CheckpointOK
    <2>1. FullTree(tree) /\ Known(tree) = {Genesis} /\ tree.lcblocks[Genesis] = GenesisBlock
      BY NewTreeFull DEF NewTree
    <2>2. TreeOK
      BY <1>2, <2>1 DEF TreeOK
    <2>3. LatestCheckpoint = Genesis /\ checkpoints \in Seq(DOMAIN minted) /\ panicked = FALSE
      BY DEF LatestCheckpoint
    <2> QED BY <2>1, <2>2, <2>3 DEF CheckpointOK
  <1>6. NoticesOK /\ MinerOK
    BY <1>2 DEF NoticesOK, MinerOK
  <1>7. NewestIsLeading
    <2>1. FullTree(tree) /\ Known(tree) = {Genesis} /\ LatestCheckpoint = Genesis
      BY NewTreeFull DEF LatestCheckpoint
    <2>2. LeadingTip(tree, LatestCheckpoint) = Genesis
      BY <2>1, LeadingTipIsBest
    <2> QED BY <1>2, <2>2 DEF NewestIsLeading
  <1> QED BY <1>4, <1>5, <1>6, <1>7 DEF NodeInv

(* A block is mined: nothing changes for the others.                           *)
LEMMA Minting ==
    ASSUME MintedOK, NEW d \in Digest \ DOMAIN minted, NEW blk \in Block,
           blk.parent \in DOMAIN minted, minted' = With(minted, d, blk)
    PROVE  /\ MintedOK'
           /\ DOMAIN minted' = DOMAIN minted \cup {d}
           /\ \A x \in DOMAIN minted : minted'[x] = minted[x]
           /\ minted'[d] = blk
           /\ NoticeOf(minted) \subseteq NoticeOf(minted')
  <1>1. /\ DOMAIN minted' = DOMAIN minted \cup {d}
        /\ \A x \in DOMAIN minted : minted'[x] = minted[x]
        /\ minted'[d] = blk
    BY DEF With
  <1>2. PICK h : Grounded(minted, DOMAIN minted, h)
    BY DEF MintedOK
  <1> DEFINE k == [x \in DOMAIN minted \cup {d} |-> IF x = d THEN h[blk.parent] + 1 ELSE h[x]]
  <1>3. Grounded(minted', DOMAIN minted', k)
    <2>1. NoParent \notin DOMAIN minted
      BY DigestAssumption DEF MintedOK
    <2>2. ASSUME NEW x \in DOMAIN minted \cup {d}
          PROVE  /\ k[x] \in Nat
                 /\ IF minted'[x].parent = NoParent
                    THEN k[x] = 0
                    ELSE /\ minted'[x].parent \in DOMAIN minted \cup {d}
                         /\ k[x] = k[minted'[x].parent] + 1
      <3>1. CASE x = d
        BY <1>1, <1>2, <2>1, <3>1 DEF Grounded
      <3>2. CASE x # d
        BY <1>1, <1>2, <3>2 DEF Grounded
      <3> QED BY <3>1, <3>2
    <2> HIDE DEF k
    <2> QED BY <1>1, <2>2 DEF Grounded
  <1>4. MintedOK'
    BY <1>1, <1>3 DEF MintedOK
  <1>5. NoticeOf(minted) \subseteq NoticeOf(minted')
    BY <1>1 DEF NoticeOf
  <1> QED BY <1>1, <1>4, <1>5

(* What is said of blocks that are there stays true when more are mined.       *)
LEMMA MintingKeeps ==
    ASSUME NodeInv, NEW d \in Digest \ DOMAIN minted, NEW blk \in Block,
           blk.parent \in DOMAIN minted, minted' = With(minted, d, blk)
    PROVE  /\ MintedOK'
           /\ UNCHANGED tree => TreeOK'
           /\ UNCHANGED <<tree, checkpoints, panicked>> => CheckpointOK'
           /\ UNCHANGED <<tip_mining, blocks_from_future_slots>> => NoticesOK'
  <1>1. /\ MintedOK' /\ DOMAIN minted' = DOMAIN minted \cup {d}
        /\ \A x \in DOMAIN minted : minted'[x] = minted[x]
        /\ minted'[d] = blk /\ NoticeOf(minted) \subseteq NoticeOf(minted')
    BY Minting DEF NodeInv
  <1>2. ASSUME UNCHANGED tree PROVE TreeOK'
    BY <1>1, <1>2 DEF NodeInv, TreeOK
  <1>3. ASSUME UNCHANGED <<tree, checkpoints, panicked>> PROVE CheckpointOK'
    <2>1. checkpoints \in Seq(DOMAIN minted')
      BY <1>1, SeqGrows DEF NodeInv, CheckpointOK
    <2> QED BY <1>3, <2>1 DEF NodeInv, CheckpointOK, LatestCheckpoint
  <1>4. ASSUME UNCHANGED <<tip_mining, blocks_from_future_slots>> PROVE NoticesOK'
    <2>1. /\ tip_mining \in Seq(NoticeOf(minted'))
          /\ blocks_from_future_slots \in Seq(NoticeOf(minted'))
      BY <1>1, SeqGrows DEF NodeInv, NoticesOK
    <2> QED BY <1>4, <2>1 DEF NoticesOK
  <1> QED BY <1>1, <1>2, <1>3, <1>4

LEMMA LeadingKnown ==
    ASSUME NodeInv, ~ panicked
    PROVE  /\ LeadingTips(tree, LatestCheckpoint) = {LeadingTip(tree, LatestCheckpoint)}
           /\ LeadingTip(tree, LatestCheckpoint) \in Known(tree)
           /\ LeadingTip(tree, LatestCheckpoint) \in DOMAIN minted
           /\ tree.lcblocks[LeadingTip(tree, LatestCheckpoint)]
                = minted[LeadingTip(tree, LatestCheckpoint)]
  BY LeadingTipIsBest DEF NodeInv, TreeOK, CheckpointOK

LEMMA MintPreserves ==
    ASSUME NodeInv, Mint, UNCHANGED minerVars PROVE NodeInv'
  <1>1. PICK d \in Digest \ DOMAIN minted, p \in DOMAIN minted, s \in Slot, adv \in BOOLEAN :
           minted' = With(minted, d, [parent |-> p, slot |-> s, adversarial |-> adv])
    BY DEF Mint
  <1> DEFINE blk == [parent |-> p, slot |-> s, adversarial |-> adv]
  <1>2. blk \in Block /\ blk.parent \in DOMAIN minted
    BY ManagerAssumption DEF NodeInv, MintedOK, Block
  <1> HIDE DEF blk
  <1>3. minted' = With(minted, d, blk)
    BY <1>1 DEF blk
  <1>4. UNCHANGED <<tree, checkpoints, tip_mining, panicked, current_parent,
                    accept_blocks_for_slot, blocks_from_future_slots, latest_slot>>
    BY DEF Mint, minerVars
  <1>5. MintedOK' /\ TreeOK' /\ CheckpointOK' /\ NoticesOK'
    BY <1>2, <1>3, <1>4, MintingKeeps
  <1>6. DOMAIN minted' = DOMAIN minted \cup {d} /\ \A x \in DOMAIN minted : minted'[x] = minted[x]
    BY <1>2, <1>3, Minting DEF NodeInv
  <1>7. MinerOK'
    BY <1>4, <1>6 DEF NodeInv, MinerOK
  <1>8. NewestIsLeading'
    <2>1. LatestCheckpoint' = LatestCheckpoint
      BY <1>4 DEF LatestCheckpoint
    <2>2. CASE panicked
      BY <1>4, <2>2 DEF NewestIsLeading
    <2>3. CASE ~ panicked
      <3>1. LeadingTip(tree, LatestCheckpoint) \in DOMAIN minted /\ current_parent \in DOMAIN minted
        BY <2>3, LeadingKnown DEF NodeInv, MinerOK
      <3> QED BY <1>4, <1>6, <2>1, <2>3, <3>1 DEF NodeInv, NewestIsLeading
    <2> QED BY <2>2, <2>3
  <1> QED BY <1>5, <1>7, <1>8 DEF NodeInv

(* The manager tells the miner.                                                *)
LEMMA Told ==
    ASSUME NodeInv, TreeOK', UNCHANGED <<minted, panicked, minerVars>>, ~ panicked,
           LatestCheckpoint' \in Known(tree'), SendTip(tree', LatestCheckpoint')
    PROVE  NoticesOK' /\ NewestIsLeading'
  <1> DEFINE cp == LatestCheckpoint'
             l == LeadingTip(tree', cp)
  <1>1. LeadingTips(tree', cp) = {l} /\ l \in Known(tree')
    BY LeadingTipIsBest DEF TreeOK
  <1>2. tip_mining' = Append(tip_mining, [tip |-> l, slot |-> tree'.lcblocks[l].slot])
    BY <1>1 DEF SendTip
  <1>3. l \in DOMAIN minted /\ tree'.lcblocks[l] = minted[l]
    BY <1>1 DEF TreeOK
  <1> DEFINE e == [tip |-> l, slot |-> minted[l].slot]
  <1>4. e \in NoticeOf(minted) /\ e.tip = l
    BY <1>3 DEF NoticeOf
  <1>5. tip_mining' = Append(tip_mining, e)
    BY <1>2, <1>3
  <1> HIDE DEF e, l
  <1>6. /\ tip_mining' \in Seq(NoticeOf(minted)) /\ tip_mining' # << >>
        /\ tip_mining'[Len(tip_mining')] = e
    BY <1>4, <1>5 DEF NodeInv, NoticesOK
  <1>7. NoticesOK'
    BY <1>6 DEF NodeInv, NoticesOK, minerVars
  <1>8. NewestIsLeading'
    BY <1>4, <1>6 DEF NewestIsLeading, l
  <1> QED BY <1>7, <1>8

LEMMA AddBlockPreserves ==
    ASSUME NodeInv, AddBlock, UNCHANGED minerVars PROVE NodeInv'
  <1>1. PICK d \in DOMAIN minted \ {Genesis} :
           /\ CanAdd(tree, minted[d])
           /\ tree' = Add(tree, d, minted[d])
           /\ SendTip(tree', LatestCheckpoint)
    BY DEF AddBlock
  <1>2. ~ panicked /\ UNCHANGED <<minted, checkpoints, panicked, current_parent,
                                  accept_blocks_for_slot, blocks_from_future_slots,
                                  latest_slot>>
    BY DEF AddBlock, minerVars
  <1>3. d \in Digest /\ minted[d] \in Block /\ FullTree(tree)
        /\ \A x \in Known(tree) : x \in DOMAIN minted /\ tree.lcblocks[x] = minted[x]
    BY DEF NodeInv, MintedOK, TreeOK
  <1>4. /\ FullTree(tree') /\ Known(tree') = Known(tree) \cup {d} /\ tree'.lcblocks[d] = minted[d]
        /\ \A x \in Known(tree) : tree'.lcblocks[x] = tree.lcblocks[x]
    BY <1>1, <1>3, AddKeepsTree
  <1>5. TreeOK'
    BY <1>2, <1>3, <1>4 DEF TreeOK
  <1>6. LatestCheckpoint' = LatestCheckpoint
    BY <1>2 DEF LatestCheckpoint
  <1>7. CheckpointOK' /\ MintedOK' /\ MinerOK'
    BY <1>2, <1>4, <1>6 DEF NodeInv, CheckpointOK, MintedOK, MinerOK
  <1>8. NoticesOK' /\ NewestIsLeading'
    <2>1. LatestCheckpoint' \in Known(tree')
      BY <1>2, <1>7 DEF CheckpointOK
    <2>2. SendTip(tree', LatestCheckpoint')
      BY <1>1, <1>6
    <2> QED BY <1>2, <1>5, <2>1, <2>2, Told
  <1> QED BY <1>5, <1>7, <1>8 DEF NodeInv

LEMMA AddCheckpointPreserves ==
    ASSUME NodeInv, AddCheckpoint, UNCHANGED minerVars PROVE NodeInv'
  <1>1. PICK cp \in DOMAIN minted :
           cp \in Known(tree) /\ checkpoints' = Append(checkpoints, cp) /\ SendTip(tree, cp)
    BY DEF AddCheckpoint
  <1>2. ~ panicked /\ UNCHANGED <<minted, tree, panicked, current_parent,
                                  accept_blocks_for_slot, blocks_from_future_slots,
                                  latest_slot>>
    BY DEF AddCheckpoint, minerVars
  <1>3. checkpoints' \in Seq(DOMAIN minted) /\ LatestCheckpoint' = cp
    BY <1>1 DEF NodeInv, CheckpointOK, LatestCheckpoint
  <1>4. MintedOK' /\ TreeOK' /\ MinerOK'
    BY <1>2 DEF NodeInv, MintedOK, TreeOK, MinerOK
  <1>5. CheckpointOK'
    BY <1>1, <1>2, <1>3 DEF NodeInv, CheckpointOK
  <1>6. NoticesOK' /\ NewestIsLeading'
    <2>1. SendTip(tree', LatestCheckpoint')
      BY <1>1, <1>2, <1>3
    <2> QED BY <1>1, <1>2, <1>3, <1>4, <2>1, Told
  <1> QED BY <1>4, <1>5, <1>6 DEF NodeInv

LEMMA PanicsPreserve ==
    ASSUME NodeInv, AddOrphan \/ AddUnknownCheckpoint, UNCHANGED minerVars PROVE NodeInv'
  <1>1. UNCHANGED <<minted, tree, tip_mining, current_parent, accept_blocks_for_slot,
                    blocks_from_future_slots, latest_slot>> /\ panicked' = TRUE
    BY DEF AddOrphan, AddUnknownCheckpoint, minerVars
  <1>2. checkpoints' \in Seq(DOMAIN minted)
    BY DEF AddOrphan, AddUnknownCheckpoint, NodeInv, CheckpointOK
  <1>3. MintedOK' /\ TreeOK' /\ NoticesOK' /\ MinerOK'
    BY <1>1 DEF NodeInv, MintedOK, TreeOK, NoticesOK, MinerOK
  <1>4. CheckpointOK' /\ NewestIsLeading'
    BY <1>1, <1>2 DEF CheckpointOK, NewestIsLeading
  <1> QED BY <1>3, <1>4 DEF NodeInv

LEMMA TakeTipPreserves ==
    ASSUME NodeInv, M!TakeTip, UNCHANGED <<tree, checkpoints, panicked>> PROVE NodeInv'
  <1> DEFINE e == Head(tip_mining)
             n == Len(tip_mining)
  <1>1. tip_mining # << >> /\ tip_mining' = Tail(tip_mining)
        /\ UNCHANGED <<minted, accept_blocks_for_slot, latest_slot, tree, checkpoints,
                       panicked>>
    BY DEF M!TakeTip
  <1>2. e \in NoticeOf(minted) /\ e = tip_mining[1] /\ n \in Nat /\ n >= 1
    BY <1>1 DEF NodeInv, NoticesOK
  <1>3. e.tip \in DOMAIN minted /\ e.slot = minted[e.tip].slot /\ e.slot \in Nat
    <2>1. PICK d \in DOMAIN minted : e = [tip |-> d, slot |-> minted[d].slot]
      BY <1>2 DEF NoticeOf
    <2>2. minted[d].slot \in Nat
      BY DEF NodeInv, MintedOK, Block
    <2> QED BY <2>1, <2>2
  <1>4. /\ tip_mining' \in Seq(NoticeOf(minted))
        /\ n > 1 => tip_mining' # << >> /\ tip_mining'[Len(tip_mining')] = tip_mining[n]
        /\ n = 1 => tip_mining' = << >> /\ e = tip_mining[n]
    <2>1. tip_mining \in Seq(NoticeOf(minted))
      BY DEF NodeInv, NoticesOK
    <2>2. /\ Tail(tip_mining) \in Seq(NoticeOf(minted)) /\ Len(Tail(tip_mining)) = n - 1
          /\ \A i \in 1 .. n - 1 : Tail(tip_mining)[i] = tip_mining[i + 1]
          /\ n = 1 => Tail(tip_mining) = << >>
      BY <1>1, <2>1
    <2>3. ASSUME n > 1
          PROVE  tip_mining' # << >> /\ tip_mining'[Len(tip_mining')] = tip_mining[n]
      <3>1. tip_mining' = Tail(tip_mining) /\ Len(tip_mining') = n - 1 /\ n - 1 \in 1 .. n - 1
            /\ (n - 1) + 1 = n
        BY <1>1, <1>2, <2>2, <2>3
      <3>2. tip_mining'[n - 1] = tip_mining[(n - 1) + 1]
        BY <2>2, <3>1
      <3>3. tip_mining' # << >>
        BY <1>2, <3>1
      <3> QED BY <3>1, <3>2, <3>3
    <2>4. n = 1 => tip_mining' = << >> /\ e = tip_mining[n]
      BY <1>1, <1>2, <2>2
    <2>5. tip_mining' \in Seq(NoticeOf(minted))
      BY <1>1, <2>2
    <2> QED BY <2>3, <2>4, <2>5
  <1>5. MintedOK' /\ TreeOK' /\ CheckpointOK' /\ LatestCheckpoint' = LatestCheckpoint
    BY <1>1 DEF NodeInv, MintedOK, TreeOK, CheckpointOK, LatestCheckpoint
  <1>6. ASSUME ~ panicked PROVE tip_mining[n].tip = LeadingTip(tree, LatestCheckpoint)
    BY <1>1, <1>6 DEF NodeInv, NewestIsLeading
  <1>7. CASE e.slot <= accept_blocks_for_slot
    <2>1. current_parent' = e.tip /\ UNCHANGED blocks_from_future_slots
      BY <1>7 DEF M!TakeTip, M!HasBegun
    <2>2. NoticesOK' /\ MinerOK'
      BY <1>1, <1>3, <1>4, <1>7, <2>1 DEF NodeInv, NoticesOK, MinerOK
    <2>3. \A k \in 1 .. Len(blocks_from_future_slots) :
             blocks_from_future_slots[k].slot > minted[e.tip].slot
      <3> SUFFICES ASSUME NEW k \in 1 .. Len(blocks_from_future_slots)
                   PROVE  blocks_from_future_slots[k].slot > minted[e.tip].slot
        OBVIOUS
      <3>1. /\ blocks_from_future_slots[k].slot > accept_blocks_for_slot
            /\ blocks_from_future_slots[k] \in NoticeOf(minted)
            /\ accept_blocks_for_slot \in Nat
        BY DEF NodeInv, MinerOK, NoticesOK
      <3>2. blocks_from_future_slots[k].slot \in Nat
        BY <3>1 DEF NodeInv, MintedOK, Block, NoticeOf
      <3> QED BY <1>3, <1>7, <3>1, <3>2
    <2>4. NewestIsLeading'
      BY <1>1, <1>2, <1>3, <1>4, <1>5, <1>6, <2>1, <2>3 DEF NewestIsLeading
    <2> QED BY <1>5, <2>2, <2>4 DEF NodeInv
  <1>8. CASE ~ e.slot <= accept_blocks_for_slot
    <2>1. blocks_from_future_slots' = Append(blocks_from_future_slots, e) /\ UNCHANGED current_parent
      BY <1>8 DEF M!TakeTip, M!HasBegun
    <2> HIDE DEF e
    <2>2. /\ blocks_from_future_slots' \in Seq(NoticeOf(minted)) /\ blocks_from_future_slots' # << >>
          /\ blocks_from_future_slots'[Len(blocks_from_future_slots')] = e
          /\ \A k \in 1 .. Len(blocks_from_future_slots') :
                \/ k \in 1 .. Len(blocks_from_future_slots)
                   /\ blocks_from_future_slots'[k] = blocks_from_future_slots[k]
                \/ blocks_from_future_slots'[k] = e
      BY <1>2, <2>1 DEF NodeInv, NoticesOK
    <2>3. NoticesOK'
      BY <1>1, <1>4, <2>2 DEF NoticesOK
    <2>4. e.slot > accept_blocks_for_slot
      BY <1>3, <1>8 DEF NodeInv, MinerOK
    <2>5. MinerOK'
      BY <1>1, <2>1, <2>2, <2>4 DEF NodeInv, MinerOK
    <2>6. NewestIsLeading'
      BY <1>1, <1>2, <1>4, <1>5, <1>6, <2>2 DEF NewestIsLeading
    <2> QED BY <1>5, <2>3, <2>5, <2>6 DEF NodeInv
  <1> QED BY <1>7, <1>8

LEMMA TickPreserves ==
    ASSUME NodeInv, M!Tick, UNCHANGED <<tree, checkpoints, panicked>> PROVE NodeInv'
  <1> DEFINE kept == blocks_from_future_slots
             n == Len(kept)
  <1>1. PICK t_slot \in Slot :
           /\ M!MineBlock(t_slot) \/ UNCHANGED minted
           /\ accept_blocks_for_slot' = t_slot
           /\ latest_slot' = IF t_slot > latest_slot THEN t_slot ELSE latest_slot
           /\ M!ApplyDeferred(t_slot)
    BY DEF M!Tick
  <1>2. UNCHANGED <<tip_mining, tree, checkpoints, panicked>>
        /\ t_slot \in Nat /\ accept_blocks_for_slot \in Nat /\ latest_slot \in Nat
        /\ latest_slot' \in Nat /\ t_slot <= latest_slot' /\ latest_slot <= latest_slot'
    BY <1>1, ManagerAssumption DEF M!Tick, NodeInv, MinerOK
  <1> DEFINE begun == {k \in 1 .. n : M!HasBegun(kept[k], t_slot)}
             last == CHOOSE k \in begun : \A j \in begun : j <= k
  <1>3. /\ current_parent' = IF begun = {} THEN current_parent ELSE kept[last].tip
        /\ blocks_from_future_slots' = M!Waiting(kept, t_slot)
    BY <1>1 DEF M!ApplyDeferred
  <1>4. kept \in Seq(NoticeOf(minted)) /\ n \in Nat
    BY DEF NodeInv, NoticesOK
  <1>5. ASSUME begun # {} PROVE last \in begun /\ \A j \in begun : j <= last
    <2> DEFINE T == {n - k : k \in begun}
    <2>1. T \subseteq Nat /\ T # {}
      BY <1>4, <1>5
    <2> HIDE DEF T
    <2>2. PICK x \in T : \A y \in T : x <= y
      BY <2>1, SmallestExists
    <2> USE DEF T
    <2>3. PICK k \in begun : x = n - k
      BY <2>2
    <2>4. \A j \in begun : j <= k
      <3> SUFFICES ASSUME NEW j \in begun PROVE j <= k
        OBVIOUS
      <3>1. x <= n - j
        BY <2>2
      <3> QED BY <1>4, <2>3, <3>1
    <2> HIDE DEF begun, T
    <2> QED BY <2>4
  <1> HIDE DEF last
  <1>6. \A k \in 1 .. n : /\ kept[k].tip \in DOMAIN minted
                           /\ kept[k].slot = minted[kept[k].tip].slot /\ kept[k].slot \in Nat
                           /\ kept[k].slot > accept_blocks_for_slot
    <2> SUFFICES ASSUME NEW k \in 1 .. n
                 PROVE  /\ kept[k].tip \in DOMAIN minted
                        /\ kept[k].slot = minted[kept[k].tip].slot /\ kept[k].slot \in Nat
                        /\ kept[k].slot > accept_blocks_for_slot
      OBVIOUS
    <2>1. kept[k] \in NoticeOf(minted)
      BY <1>4
    <2>2. PICK d \in DOMAIN minted : kept[k] = [tip |-> d, slot |-> minted[d].slot]
      BY <2>1 DEF NoticeOf
    <2>3. minted[d].slot \in Nat
      BY DEF NodeInv, MintedOK, Block
    <2>4. kept[k].slot > accept_blocks_for_slot
      BY DEF NodeInv, MinerOK
    <2> QED BY <2>2, <2>3, <2>4
  <1>7. \A k \in 1 .. n : k \in begun <=> kept[k].slot <= t_slot
    BY DEF M!HasBegun
  <1> DEFINE rest == M!Waiting(kept, t_slot)
  <1>8. /\ rest \in Seq(NoticeOf(minted))
        /\ \A j \in 1 .. Len(rest) : \E i \in 1 .. n : rest[j] = kept[i] /\ i \notin begun
        /\ kept # << >> /\ n \notin begun => rest # << >> /\ rest[Len(rest)] = kept[n]
    <2>1. kept # << >> => n \in 1 .. n
      BY <1>4
    <2> HIDE DEF kept
    <2> QED BY <1>4, <2>1, WaitingTips
  <1> HIDE DEF rest
  <1>9. rest = blocks_from_future_slots'
    BY <1>3 DEF rest
  <1>10. /\ MintedOK' /\ TreeOK' /\ CheckpointOK'
         /\ DOMAIN minted \subseteq DOMAIN minted'
         /\ \A x \in DOMAIN minted : minted'[x] = minted[x]
         /\ NoticeOf(minted) \subseteq NoticeOf(minted')
    <2>1. CASE UNCHANGED minted
      BY <1>2, <2>1 DEF NodeInv, MintedOK, TreeOK, CheckpointOK, LatestCheckpoint
    <2>2. CASE M!MineBlock(t_slot)
      <3>1. PICK d \in Digest \ DOMAIN minted :
               minted' = M!With(minted, d, [parent      |-> current_parent,
                                            slot        |-> t_slot,
                                            adversarial |-> produce_adversarial_blocks])
        BY <2>2 DEF M!MineBlock
      <3> DEFINE blk == [parent |-> current_parent, slot |-> t_slot,
                         adversarial |-> produce_adversarial_blocks]
      <3>2. blk \in Block /\ blk.parent = current_parent /\ blk.slot = t_slot
        BY <1>2, NodeAssumption DEF NodeInv, MintedOK, MinerOK, Block
      <3>3. minted' = With(minted, d, blk)
        BY <3>1 DEF M!With, With
      <3> HIDE DEF blk
      <3>4. current_parent \in DOMAIN minted
        BY DEF NodeInv, MinerOK
      <3>5. /\ MintedOK' /\ DOMAIN minted' = DOMAIN minted \cup {d}
            /\ \A x \in DOMAIN minted : minted'[x] = minted[x]
            /\ minted'[d] = blk /\ NoticeOf(minted) \subseteq NoticeOf(minted')
        BY <3>2, <3>3, <3>4, Minting DEF NodeInv
      <3>6. TreeOK' /\ CheckpointOK'
        BY <1>2, <3>2, <3>3, <3>4, MintingKeeps
      <3> QED BY <3>5, <3>6
    <2> QED BY <1>1, <2>1, <2>2
  <1>11. NoticesOK'
    <2>1. tip_mining \in Seq(NoticeOf(minted')) /\ rest \in Seq(NoticeOf(minted'))
      BY <1>8, <1>10, SeqGrows DEF NodeInv, NoticesOK
    <2> QED BY <1>2, <1>9, <2>1 DEF NoticesOK
  <1>12. /\ current_parent' \in DOMAIN minted /\ minted[current_parent'].slot <= latest_slot'
    <2>1. CASE begun = {}
      <3>1. /\ current_parent \in DOMAIN minted /\ minted[current_parent].slot \in Nat
            /\ minted[current_parent].slot <= latest_slot
        BY DEF NodeInv, MinerOK, MintedOK, Block
      <3> QED BY <1>2, <1>3, <2>1, <3>1
    <2>2. CASE begun # {}
      <3>1. last \in 1 .. n /\ kept[last].slot <= t_slot /\ current_parent' = kept[last].tip
        BY <1>3, <1>5, <1>7, <2>2
      <3>2. /\ current_parent' \in DOMAIN minted /\ minted[current_parent'].slot \in Nat
            /\ minted[current_parent'].slot <= t_slot
        BY <1>6, <3>1
      <3> QED BY <1>2, <3>2
    <2> QED BY <2>1, <2>2
  <1>13. MinerOK'
    <2>1. ASSUME NEW j \in 1 .. Len(rest) PROVE rest[j].slot > t_slot
      <3>1. PICK i \in 1 .. n : rest[j] = kept[i] /\ i \notin begun
        BY <1>8
      <3> QED BY <1>2, <1>6, <1>7, <3>1
    <2>2. minted'[current_parent'] = minted[current_parent']
      BY <1>10, <1>12
    <2> QED BY <1>1, <1>2, <1>9, <1>10, <1>12, <2>1, <2>2 DEF MinerOK
  <1>14. NewestIsLeading'
    <2> DEFINE l == LeadingTip(tree, LatestCheckpoint)
    <2>1. LatestCheckpoint' = LatestCheckpoint
      BY <1>2 DEF LatestCheckpoint
    <2>2. ASSUME ~ panicked, tip_mining = << >>
          PROVE  \/ /\ \A j \in 1 .. Len(rest) : rest[j].slot > minted'[l].slot
                    /\ current_parent' = l \/ minted'[current_parent'].slot > minted'[l].slot
                 \/ rest # << >> /\ rest[Len(rest)].tip = l
      <3>1. l \in DOMAIN minted /\ minted'[l] = minted[l] /\ minted[l].slot \in Nat
        BY <1>10, <2>2, LeadingKnown DEF NodeInv, MintedOK, Block
      <3>2. minted'[current_parent'] = minted[current_parent']
        BY <1>10, <1>12
      <3>3. \/ /\ \A k \in 1 .. n : kept[k].slot > minted[l].slot
               /\ current_parent = l \/ minted[current_parent].slot > minted[l].slot
            \/ kept # << >> /\ kept[n].tip = l
        BY <2>2 DEF NodeInv, NewestIsLeading
      <3> HIDE DEF l
      <3>4. CASE kept # << >> /\ kept[n].tip = l
        <4>1. n \in 1 .. n
          BY <1>4, <3>4
        <4>2. CASE n \in begun
          <5>1. last = n
            BY <1>4, <1>5, <4>2
          <5>2. current_parent' = l
            BY <1>3, <3>4, <4>2, <5>1
          <5>3. \A j \in 1 .. Len(rest) : rest[j].slot > minted[l].slot
            BY <1>2, <1>6, <1>7, <1>8, <3>1, <3>4, <4>1, <4>2
          <5> QED BY <3>1, <5>2, <5>3
        <4>3. CASE n \notin begun
          BY <1>8, <3>4, <4>3
        <4> QED BY <4>2, <4>3
      <3>5. CASE /\ \A k \in 1 .. n : kept[k].slot > minted[l].slot
                 /\ current_parent = l \/ minted[current_parent].slot > minted[l].slot
        <4>1. \A j \in 1 .. Len(rest) : rest[j].slot > minted[l].slot
          BY <1>8, <3>5
        <4>2. CASE begun = {}
          BY <1>3, <3>1, <3>2, <3>5, <4>1, <4>2
        <4>3. CASE begun # {}
          <5>1. last \in 1 .. n /\ current_parent' = kept[last].tip
            BY <1>3, <1>5, <4>3
          <5>2. minted[current_parent'].slot > minted[l].slot
            BY <1>6, <3>5, <5>1
          <5> QED BY <3>1, <3>2, <4>1, <5>2
        <4> QED BY <4>2, <4>3
      <3> QED BY <3>3, <3>4, <3>5
    <2>3. ASSUME ~ panicked, tip_mining # << >> PROVE tip_mining[Len(tip_mining)].tip = l
      BY <2>3 DEF NodeInv, NewestIsLeading
    <2> QED BY <1>1, <1>2, <1>9, <2>1, <2>2, <2>3 DEF NewestIsLeading
  <1> QED BY <1>10, <1>11, <1>13, <1>14 DEF NodeInv

LEMMA NodeInductive ==
    ASSUME NodeInv, [NodeNext]_nodeVars PROVE NodeInv'
  <1>1. CASE (Mint \/ AddBlock \/ AddOrphan \/ AddCheckpoint \/ AddUnknownCheckpoint)
               /\ UNCHANGED minerVars
    BY <1>1, MintPreserves, AddBlockPreserves, AddCheckpointPreserves, PanicsPreserve
  <1>2. CASE (M!TakeTip \/ M!Tick) /\ UNCHANGED <<tree, checkpoints, panicked>>
    BY <1>2, TakeTipPreserves, TickPreserves
  <1>3. CASE UNCHANGED nodeVars
    <2>1. UNCHANGED <<minted, tree, checkpoints, tip_mining, panicked, current_parent,
                      accept_blocks_for_slot, blocks_from_future_slots, latest_slot>>
      BY <1>3 DEF nodeVars, minerVars
    <2>2. LatestCheckpoint' = LatestCheckpoint
      BY <2>1 DEF LatestCheckpoint
    <2> QED BY <2>1, <2>2 DEF NodeInv, MintedOK, TreeOK, CheckpointOK, NoticesOK, MinerOK,
                              NewestIsLeading
  <1> QED BY <1>1, <1>2, <1>3 DEF NodeNext

THEOREM NodeInvariant == NodeSpec => []NodeInv
  <1>1. NodeInv /\ [NodeNext]_nodeVars => NodeInv'
    BY NodeInductive
  <1> QED BY <1>1, NodeStart, PTL DEF NodeSpec

-----------------------------------------------------------------------------
(* What follows from the invariant.                                           *)

(* Ancestry and height in the tree are those of the mined blocks.              *)
LEMMA TreeAgrees ==
    ASSUME NodeInv, NEW c \in Known(tree)
    PROVE  /\ \A a : Extends(minted, a, c) <=> Extends(tree.lcblocks, a, c)
           /\ Depth(minted, c) = tree.precomputed_height[c]
           /\ c \in DOMAIN minted /\ tree.lcblocks[c] = minted[c]
  <1>1. /\ Grounded(tree.lcblocks, Known(tree), tree.precomputed_height)
        /\ ClosedUnderParents(tree.lcblocks)
    BY GroundedClosed DEF NodeInv, TreeOK, FullTree, OrderedTree, GroundedTree
  <1>2. PICK h : Grounded(minted, DOMAIN minted, h)
    BY DEF NodeInv, MintedOK
  <1>3. ClosedUnderParents(minted)
    BY <1>2 DEF Grounded, ClosedUnderParents
  <1>4. /\ Known(tree) \subseteq DOMAIN minted
        /\ \A d \in Known(tree) : minted[d] = tree.lcblocks[d]
    BY DEF NodeInv, TreeOK
  <1>5. \A a : Extends(minted, a, c) <=> Extends(tree.lcblocks, a, c)
    <2> SUFFICES ASSUME NEW a PROVE Extends(minted, a, c) <=> Extends(tree.lcblocks, a, c)
      OBVIOUS
    <2>1. \A d \in Known(tree) : minted[d].parent = tree.lcblocks[d].parent
      BY <1>4
    <2> QED BY <1>1, <1>3, <1>4, <2>1, SameAncestors
  <1>6. tree.precomputed_height[c] = h[c]
    <2>1. \A d \in Known(tree) : minted[d].parent = tree.lcblocks[d].parent
      BY <1>4
    <2> QED BY <1>1, <1>2, <1>4, <2>1, SameHeights
  <1>7. Depth(minted, c) = h[c]
    BY <1>2, <1>4, DepthIsHeight
  <1> QED BY <1>4, <1>5, <1>6, <1>7

(* The higher of the checkpoint and a block some way below the tip is between them. *)
LEMMA HigherIsBetween ==
    ASSUME NEW t, FullTree(t), NEW cp \in Known(t), NEW k \in Nat, NEW p,
           p = HigherOf(t, cp, KDeep(t, k, LeadingTip(t, cp)))
    PROVE  /\ p \in Known(t)
           /\ Extends(t.lcblocks, cp, p)
           /\ Extends(t.lcblocks, p, LeadingTip(t, cp))
  <1> DEFINE tip == LeadingTip(t, cp)
             b == KDeep(t, k, tip)
  <1>1. tip \in Known(t) /\ Extends(t.lcblocks, cp, tip)
    BY LeadingTipIsBest
  <1>2. GroundedTree(t) /\ ClosedUnderParents(t.lcblocks) /\ Known(t) = DOMAIN t.lcblocks
    BY GroundedClosed DEF FullTree, OrderedTree
  <1> HIDE DEF tip
  <1>3. b \in Known(t) /\ Extends(t.lcblocks, b, tip)
    BY <1>1, <1>2, KDeepIsAncestor
  <1> HIDE DEF b
  <1>4. /\ t.precomputed_height[cp] \in Nat /\ t.precomputed_height[b] \in Nat
        /\ Grounded(t.lcblocks, Known(t), t.precomputed_height)
    BY <1>2, <1>3 DEF GroundedTree, Grounded
  <1>5. Extends(t.lcblocks, cp, cp)
    BY <1>2, ExtendsReflexive
  <1>6. CASE t.precomputed_height[cp] >= t.precomputed_height[b]
    <2>1. p = cp
      BY <1>6 DEF HigherOf, b, tip
    <2> QED BY <1>1, <1>5, <2>1 DEF tip
  <1>7. CASE ~ t.precomputed_height[cp] >= t.precomputed_height[b]
    <2>1. p = b
      BY <1>7 DEF HigherOf, b, tip
    <2>2. t.precomputed_height[cp] <= t.precomputed_height[b]
      BY <1>4, <1>7
    <2>3. Extends(t.lcblocks, cp, b)
      BY <1>1, <1>2, <1>3, <1>4, <2>2, AncestorsComparable
    <2> QED BY <1>3, <2>1, <2>3 DEF tip
  <1> QED BY <1>6, <1>7

(* In whatever order and however often the blocks arrive, the tree is closed under *)
(* parents, has the blocks as they were mined and their true heights, and all       *)
(* blocks without children are tips.                                                *)
THEOREM TreeStaysTrue == NodeSpec => []TreeIsTrue
  <1>1. NodeInv => TreeIsTrue
    <2> SUFFICES ASSUME NodeInv, NEW d \in Known(tree)
                 PROVE  /\ d \in DOMAIN minted /\ tree.lcblocks[d] = minted[d]
                        /\ minted[d].parent # NoParent => minted[d].parent \in Known(tree)
                        /\ tree.precomputed_height[d] = Depth(minted, d)
                        /\ d \in tree.idx_tips \/ \E c \in Known(tree) : minted[c].parent = d
      BY DEF TreeIsTrue
    <2>1. tree.lcblocks[d].parent # NoParent => tree.lcblocks[d].parent \in Known(tree)
      BY DEF NodeInv, TreeOK, FullTree, OrderedTree, GroundedTree, Grounded
    <2>2. d \in tree.idx_tips \/ \E c \in Known(tree) : minted[c].parent = d
      BY DEF NodeInv, TreeOK, FullTree, Parent
    <2> QED BY <2>1, <2>2, TreeAgrees
  <1> QED BY <1>1, NodeInvariant, PTL

(* Whatever the order of the hash set of tips, leading_tip_extending finds the     *)
(* best of all known blocks above the checkpoint.                                  *)
THEOREM TipStaysBest == NodeSpec => []TipIsBest
  <1>1. NodeInv => TipIsBest
    <2> SUFFICES ASSUME NodeInv, ~ panicked, NEW tip \in LeadingTips(tree, LatestCheckpoint)
                 PROVE  /\ Extends(minted, LatestCheckpoint, tip)
                        /\ \A d \in Known(tree) \ {tip} :
                              Extends(minted, LatestCheckpoint, d) => Beats(tip, d)
      BY DEF TipIsBest
    <2> DEFINE cp == LatestCheckpoint
               Above == {d \in Known(tree) : Extends(tree.lcblocks, cp, d)}
    <2>1. FullTree(tree) /\ cp \in Known(tree)
      BY DEF NodeInv, TreeOK, CheckpointOK
    <2> HIDE DEF cp
    <2>2. /\ tip = LeadingTip(tree, cp) /\ tip \in Known(tree)
          /\ Extends(tree.lcblocks, cp, tip) /\ IsBestOf(tree, tip, Above)
      BY <2>1, LeadingTipIsBest DEF cp
    <2>3. Extends(minted, cp, tip)
      BY <2>2, TreeAgrees
    <2>4. ASSUME NEW d \in Known(tree) \ {tip}, Extends(minted, cp, d) PROVE Beats(tip, d)
      <3>1. Better(tree, tip, d)
        BY <2>2, <2>4, TreeAgrees DEF IsBestOf
      <3>2. /\ Depth(minted, tip) = tree.precomputed_height[tip]
            /\ Depth(minted, d) = tree.precomputed_height[d]
            /\ tree.lcblocks[tip] = minted[tip] /\ tree.lcblocks[d] = minted[d]
        BY <2>2, TreeAgrees
      <3>3. /\ minted[tip].adversarial \in BOOLEAN /\ minted[d].adversarial \in BOOLEAN
        BY <2>2, TreeAgrees DEF NodeInv, MintedOK, Block
      <3> QED BY <3>1, <3>2, <3>3 DEF Better, Beats
    <2> QED BY <2>3, <2>4 DEF cp
  <1> QED BY <1>1, NodeInvariant, PTL

(* What get_current_proposal returns passes validate_proposal on the same tree.    *)
THEOREM ProposalStaysValid == NodeSpec => []OwnProposalIsValid
  <1>1. NodeInv => OwnProposalIsValid
    <2> SUFFICES ASSUME NodeInv, ~ panicked
                 PROVE  ValidateProposal(tree, LatestCheckpoint,
                                         CurrentProposal(tree, LatestCheckpoint))
      BY DEF OwnProposalIsValid
    <2> DEFINE cp == LatestCheckpoint
               tip == LeadingTip(tree, cp)
               p == CurrentProposal(tree, cp)
    <2>1. FullTree(tree) /\ cp \in Known(tree) /\ GroundedTree(tree)
      BY DEF NodeInv, TreeOK, CheckpointOK, FullTree, OrderedTree
    <2>2. tip \in Known(tree)
      BY <2>1, LeadingTipIsBest
    <2>3. p = HigherOf(tree, cp, KDeep(tree, propose_k_deep, tip))
      BY DEF CurrentProposal
    <2> HIDE DEF cp, p
    <2>4. p \in Known(tree) /\ Extends(tree.lcblocks, cp, p) /\ Extends(tree.lcblocks, p, tip)
      BY <2>1, <2>3, HigherIsBetween, ManagerAssumption
    <2>5. IsPrefixOf(tree, cp, p) /\ IsPrefixOf(tree, p, tip)
      BY <2>1, <2>2, <2>4, PrefixIsExtends
    <2>6. ValidateProposal(tree, cp, p)
      BY <2>1, <2>4, <2>5 DEF ValidateProposal
    <2> QED BY <2>6 DEF cp, p
  <1> QED BY <1>1, NodeInvariant, PTL

(* The accountable log is a prefix of the available one.                           *)
THEOREM AccStaysPrefixOfAva == NodeSpec => []AccIsPrefixOfAva
  <1>1. NodeInv => AccIsPrefixOfAva
    <2> SUFFICES ASSUME NodeInv, ~ panicked
                 PROVE  Extends(minted, LatestCheckpoint, LogAva(tree, LatestCheckpoint))
      BY DEF AccIsPrefixOfAva
    <2> DEFINE cp == LatestCheckpoint
               p == LogAva(tree, cp)
    <2>1. FullTree(tree) /\ cp \in Known(tree)
      BY DEF NodeInv, TreeOK, CheckpointOK
    <2>2. p = HigherOf(tree, cp, KDeep(tree, lctree_logava_k_deep, LeadingTip(tree, cp)))
      BY DEF LogAva
    <2> HIDE DEF cp, p
    <2>3. p \in Known(tree) /\ Extends(tree.lcblocks, cp, p)
      BY <2>1, <2>2, HigherIsBetween, ManagerAssumption
    <2>4. Extends(minted, cp, p)
      BY <2>3, TreeAgrees
    <2> QED BY <2>4 DEF cp, p
  <1> QED BY <1>1, NodeInvariant, PTL

(* A decision for another branch redirects the miner with the next tip it is sent. *)
THEOREM NewestTipExtends == NodeSpec => []NewestTipExtendsCheckpoint
  <1>1. NodeInv => NewestTipExtendsCheckpoint
    <2> SUFFICES ASSUME NodeInv, ~ panicked, tip_mining # << >>
                 PROVE  Extends(minted, LatestCheckpoint, tip_mining[Len(tip_mining)].tip)
      BY DEF NewestTipExtendsCheckpoint
    <2>1. tip_mining[Len(tip_mining)].tip = LeadingTip(tree, LatestCheckpoint)
      BY DEF NodeInv, NewestIsLeading
    <2>2. /\ LeadingTip(tree, LatestCheckpoint) \in Known(tree)
          /\ Extends(tree.lcblocks, LatestCheckpoint, LeadingTip(tree, LatestCheckpoint))
      BY LeadingTipIsBest DEF NodeInv, TreeOK, CheckpointOK
    <2> QED BY <2>1, <2>2, TreeAgrees
  <1> QED BY <1>1, NodeInvariant, PTL

(* Unless its clock shows a slot that has passed, a node never mines on a block of *)
(* a later slot than its clock's.                                                  *)
THEOREM OwnSlotsAscend == NodeSpec => OwnSlotsNeverDecrease
  <1> DEFINE Ascending == M!Tick => \A d \in DOMAIN minted' \ DOMAIN minted :
                            minted'[d].slot >= latest_slot =>
                               minted'[minted'[d].parent].slot <= minted'[d].slot
  <1>1. NodeInv /\ [NodeNext]_nodeVars => [Ascending]_nodeVars
    <2> SUFFICES ASSUME NodeInv, M!Tick, NEW d \in DOMAIN minted' \ DOMAIN minted,
                        minted'[d].slot >= latest_slot
                 PROVE  minted'[minted'[d].parent].slot <= minted'[d].slot
      OBVIOUS
    <2>1. PICK t_slot \in Slot : M!MineBlock(t_slot)
      BY DEF M!Tick
    <2> DEFINE blk == [parent |-> current_parent, slot |-> t_slot,
                       adversarial |-> produce_adversarial_blocks]
    <2>2. PICK x \in Digest \ DOMAIN minted : minted' = With(minted, x, blk)
      BY <2>1 DEF M!MineBlock, M!With, With
    <2>3. x = d /\ minted'[d].parent = current_parent /\ minted'[d].slot = t_slot
      BY <2>2 DEF With
    <2>4. /\ current_parent \in DOMAIN minted /\ minted[current_parent].slot <= latest_slot
          /\ minted[current_parent].slot \in Nat /\ latest_slot \in Nat
      BY DEF NodeInv, MinerOK, MintedOK, Block
    <2>5. minted'[current_parent] = minted[current_parent]
      BY <2>2, <2>4 DEF With
    <2>6. t_slot \in Nat
      BY ManagerAssumption
    <2> QED BY <2>3, <2>4, <2>5, <2>6
  <1> QED BY <1>1, NodeInvariant, PTL DEF NodeSpec, OwnSlotsNeverDecrease

(* The node mines on its leading tip, or keeps it for its slot, or mines on a      *)
(* block of a later slot.                                                          *)
THEOREM NoTipIsLost == NodeSpec => []TipNotLost
  <1>1. NodeInv => TipNotLost
    <2> SUFFICES ASSUME NodeInv, tip_mining = << >>, ~ panicked
                 PROVE  LET leading == LeadingTip(tree, LatestCheckpoint) IN
                        \/ current_parent = leading
                        \/ \E k \in 1 .. Len(blocks_from_future_slots) :
                              blocks_from_future_slots[k].tip = leading
                        \/ minted[current_parent].slot > minted[leading].slot
      BY DEF TipNotLost
    <2>1. blocks_from_future_slots # << >> =>
            Len(blocks_from_future_slots) \in 1 .. Len(blocks_from_future_slots)
      <3>1. blocks_from_future_slots \in Seq(NoticeOf(minted))
        BY DEF NodeInv, NoticesOK
      <3> QED BY <3>1
    <2> QED BY <2>1 DEF NodeInv, NewestIsLeading
  <1> QED BY <1>1, NodeInvariant, PTL

(* Trees with the same blocks have the same leading tip, whatever their sets of tips. *)
LEMMA SameTip ==
    ASSUME NEW t, NEW u, FullTree(t), FullTree(u), Known(u) = Known(t),
           \A d \in Known(t) : u.lcblocks[d] = t.lcblocks[d], NEW cp \in Known(t)
    PROVE  LeadingTips(u, cp) = LeadingTips(t, cp)
  <1> DEFINE D == Known(t)
             a == LeadingTip(t, cp)
             b == LeadingTip(u, cp)
             Above(s) == {d \in D : Extends(s.lcblocks, cp, d)}
  <1>1. /\ Grounded(t.lcblocks, D, t.precomputed_height) /\ ClosedUnderParents(t.lcblocks)
        /\ Grounded(u.lcblocks, D, u.precomputed_height) /\ ClosedUnderParents(u.lcblocks)
        /\ D \subseteq DOMAIN u.lcblocks /\ OrderedTree(t)
    BY GroundedClosed DEF FullTree, OrderedTree, GroundedTree
  <1>2. \A d \in D : u.lcblocks[d].parent = t.lcblocks[d].parent
    OBVIOUS
  <1>3. \A d \in D : Extends(u.lcblocks, cp, d) <=> Extends(t.lcblocks, cp, d)
    BY <1>1, <1>2, SameAncestors
  <1>4. \A d \in D : t.precomputed_height[d] = u.precomputed_height[d]
    BY <1>1, <1>2, SameHeights
  <1>5. Above(u) = Above(t) /\ Above(t) \subseteq D
    BY <1>3
  <1>6. \A x, y \in D : Better(u, x, y) <=> Better(t, x, y)
    BY <1>4 DEF Better
  <1>7. LeadingTips(t, cp) = {a} /\ a \in D /\ IsBestOf(t, a, Above(t))
    BY LeadingTipIsBest
  <1>8. LeadingTips(u, cp) = {b} /\ b \in D /\ IsBestOf(u, b, Above(u))
    BY LeadingTipIsBest
  <1> HIDE DEF a, b, Above
  <1>9. IsBestOf(t, b, Above(t))
    BY <1>5, <1>6, <1>8 DEF IsBestOf
  <1>10. a = b
    BY <1>1, <1>5, <1>7, <1>9, BestUnique
  <1> QED BY <1>7, <1>8, <1>10

(* A block that comes again may be a tip again; the leading tip is the same.       *)
THEOREM DuplicatesStayHarmless == NodeSpec => DuplicatesAreHarmless
  <1> DEFINE Harmless == Known(tree') = Known(tree) /\ ~ panicked' /\ checkpoints' = checkpoints =>
                           LeadingTips(tree', LatestCheckpoint) = LeadingTips(tree, LatestCheckpoint)
  <1>1. NodeInv /\ NodeInv' /\ [NodeNext]_nodeVars => [Harmless]_vars
    <2> SUFFICES ASSUME NodeInv, NodeInv', [NodeNext]_nodeVars, ~ panicked',
                        Known(tree') = Known(tree), checkpoints' = checkpoints
                 PROVE  LeadingTips(tree', LatestCheckpoint) = LeadingTips(tree, LatestCheckpoint)
      OBVIOUS
    <2>1. FullTree(tree) /\ FullTree(tree')
      BY DEF NodeInv, TreeOK
    <2>2. LatestCheckpoint \in Known(tree)
      BY DEF NodeInv, CheckpointOK, LatestCheckpoint
    <2>3. \A d \in DOMAIN minted : d \in DOMAIN minted' /\ minted'[d] = minted[d]
      BY DEF NodeNext, nodeVars, Mint, AddBlock, AddOrphan, AddCheckpoint, AddUnknownCheckpoint,
             M!TakeTip, M!Tick, M!MineBlock, With, M!With
    <2>4. \A d \in Known(tree) : tree'.lcblocks[d] = tree.lcblocks[d]
      BY <2>3 DEF NodeInv, TreeOK
    <2> QED BY <2>1, <2>2, <2>4, SameTip
  <1> QED BY <1>1, NodeInvariant, PTL DEF NodeSpec, DuplicatesAreHarmless
=============================================================================
