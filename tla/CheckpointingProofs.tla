-------------------------- MODULE CheckpointingProofs --------------------------
(***************************************************************************)
(* What is decided is somewhere to be had, and the checkpoints form a chain: for    *)
(* every committee of which the faulty part cannot decide alone, every tree of        *)
(* blocks and every schedule.                                                           *)
(***************************************************************************)
EXTENDS Checkpointing, LcBlockTreeProofs

(* A node's vote for a block is for one that it has.                          *)
VotesKnown ==
    \A n \in Node : vote[n].for \in {Reject, NoCheckpoint} \cup Known(tree[n])

IInv ==
    /\ DOMAIN tree = Node /\ DOMAIN vote = Node
    /\ decided \in Seq(Digest \cup {NoCheckpoint})
    /\ VotesKnown
    /\ CheckpointsAvailable

(* Trees only grow.                                                           *)
LEMMA AddKeeps ==
    ASSUME NEW t, NEW d, NEW blk
    PROVE  Known(t) \subseteq Known(Add(t, d, blk))
  BY DEF Known, Add, With

(* A block that is decided has an honest vote.                                *)
LEMMA HonestVoter ==
    ASSUME IsFiniteSet(Committee), 3 * Cardinality(Faulty) <= 2 * Cardinality(Committee),
           NEW v \in Digest, CanDecide(v)
    PROVE  \E n \in Node : vote[n] = [i |-> Len(decided), for |-> v]
  <1> SUFFICES ASSUME \A n \in Node : vote[n] # [i |-> Len(decided), for |-> v] PROVE FALSE
    OBVIOUS
  <1>1. {n \in Node : vote[n] = [i |-> Len(decided), for |-> v]} = {}
    OBVIOUS
  <1>2. VotersFor(v) = Faulty
    BY <1>1 DEF VotersFor
  <1>3. v # Reject
    BY CheckpointingAssumption
  <1>4. 3 * Cardinality(Faulty) > 2 * Cardinality(Committee)
    BY <1>2, <1>3 DEF CanDecide
  <1>5. Cardinality(Faulty) \in Nat /\ Cardinality(Committee) \in Nat
    BY FS_Subset, FS_CardinalityType DEF Committee
  <1> QED BY <1>4, <1>5

(* What is decided stays available when the trees only grow.                  *)
LEMMA AvailableStays ==
    ASSUME IInv, decided' = decided,
           \A n \in Node : Known(tree[n]) \subseteq Known(tree'[n])
    PROVE  CheckpointsAvailable'
  BY DEF IInv, CheckpointsAvailable, Checkpoints, Known

LEMMA Inductive ==
    ASSUME IsFiniteSet(Committee), 3 * Cardinality(Faulty) <= 2 * Cardinality(Committee),
           IInv, [Next]_vars
    PROVE  IInv'
  <1> USE DEF manager, proposer
  <1>1. ASSUME NEW n \in Node, NEW d, AddBlock(n, d) PROVE IInv'
    <2>1. /\ tree' = [tree EXCEPT ![n] = Add(tree[n], d, Minted[d])]
          /\ UNCHANGED <<vote, decided>>
      BY <1>1 DEF AddBlock
    <2>2. \A m \in Node : Known(tree[m]) \subseteq Known(tree'[m])
      BY <2>1, AddKeeps DEF IInv
    <2>3. VotesKnown'
      BY <2>1, <2>2 DEF IInv, VotesKnown, Known
    <2> QED BY <2>1, <2>2, <2>3, AvailableStays DEF IInv
  <1>2. ASSUME NEW n \in Node, TakeCheckpoint(n) \/ Begin(n) \/ TakeDecision(n) PROVE IInv'
    <2>1. UNCHANGED <<tree, vote, decided>>
      BY <1>2 DEF TakeCheckpoint, Begin, TakeDecision
    <2>2. VotesKnown' /\ CheckpointsAvailable'
      BY <2>1, AvailableStays DEF IInv, VotesKnown, Known
    <2> QED BY <2>1, <2>2 DEF IInv
  <1>3. ASSUME NEW n \in Node, ActOnProposal(n) \/ TimeoutUp(n) PROVE IInv'
    <2>1. UNCHANGED <<tree, decided>>
      BY <1>3 DEF ActOnProposal, TimeoutUp
    <2>2. ASSUME NEW w, vote' = [vote EXCEPT ![n] = w], w.for \in {Reject} \cup Known(tree[n])
          PROVE  VotesKnown' /\ DOMAIN vote' = Node
      BY <2>1, <2>2 DEF IInv, VotesKnown, Known
    <2>3. VotesKnown' /\ DOMAIN vote' = Node
      <3>1. CASE ActOnProposal(n)
        <4>1. PICK b \in DOMAIN Minted :
                 vote' = [vote EXCEPT ![n] = [i |-> current_iteration[n],
                            for |-> IF ValidateProposal(n, b) THEN b ELSE Reject]]
          BY <3>1 DEF ActOnProposal
        <4> DEFINE w == [i |-> current_iteration[n],
                         for |-> IF ValidateProposal(n, b) THEN b ELSE Reject]
        <4>2. w.for \in {Reject} \cup Known(tree[n])
          BY DEF ValidateProposal
        <4> HIDE DEF w
        <4>3. vote' = [vote EXCEPT ![n] = w]
          BY <4>1 DEF w
        <4> QED BY <2>2, <4>2, <4>3
      <3>2. CASE TimeoutUp(n)
        <4> DEFINE w == [i |-> current_iteration[n], for |-> Reject]
        <4>1. w.for = Reject
          OBVIOUS
        <4> HIDE DEF w
        <4>2. vote' = [vote EXCEPT ![n] = w]
          BY <3>2 DEF TimeoutUp, w
        <4> QED BY <2>2, <4>1, <4>2
      <3> QED BY <1>3, <3>1, <3>2
    <2>4. CheckpointsAvailable'
      BY <2>1, AvailableStays
    <2> QED BY <2>1, <2>3, <2>4 DEF IInv
  <1>4. CASE Decide
    <2>1. PICK v \in DOMAIN Minted \cup {Reject} :
             CanDecide(v) /\ decided' = Append(decided, IF v = Reject THEN NoCheckpoint ELSE v)
      BY <1>4 DEF Decide
    <2> DEFINE d == IF v = Reject THEN NoCheckpoint ELSE v
    <2>2. UNCHANGED <<tree, vote>> /\ d \in Digest \cup {NoCheckpoint}
      BY <1>4, CheckpointingAssumption DEF Decide
    <2>3. d # NoCheckpoint => \E n \in Node : d \in Known(tree[n])
      <3> SUFFICES ASSUME d # NoCheckpoint PROVE \E n \in Node : d \in Known(tree[n])
        OBVIOUS
      <3>1. d = v /\ v \in Digest /\ d \notin {Reject, NoCheckpoint}
        BY <2>2, CheckpointingAssumption
      <3>2. \E n \in Node : vote[n].for = d
        <4>1. PICK n \in Node : vote[n] = [i |-> Len(decided), for |-> d]
          BY <2>1, <3>1, HonestVoter
        <4>2. vote[n].for = d
          BY <4>1
        <4> QED BY <4>2
      <3> QED BY <3>1, <3>2 DEF IInv, VotesKnown
    <2> HIDE DEF d
    <2>4. /\ decided' \in Seq(Digest \cup {NoCheckpoint})
          /\ \A k \in 1 .. Len(decided') :
               (k \in 1 .. Len(decided) /\ decided'[k] = decided[k]) \/ decided'[k] = d
      BY <2>1, <2>2 DEF IInv, d
    <2>5. CheckpointsAvailable'
      BY <2>2, <2>3, <2>4 DEF IInv, CheckpointsAvailable, Checkpoints, Known
    <2>6. VotesKnown'
      BY <2>2 DEF IInv, VotesKnown, Known
    <2> QED BY <2>2, <2>4, <2>5, <2>6 DEF IInv
  <1>5. CASE UNCHANGED vars
    <2>1. UNCHANGED <<tree, vote, decided>>
      BY <1>5 DEF vars
    <2>2. VotesKnown' /\ CheckpointsAvailable'
      BY <2>1, AvailableStays DEF IInv, VotesKnown, Known
    <2> QED BY <2>1, <2>2 DEF IInv
  <1> QED BY <1>1, <1>2, <1>3, <1>4, <1>5 DEF Next

LEMMA Start == Init => IInv
  BY DEF Init, IInv, VotesKnown, CheckpointsAvailable, Checkpoints

(* Every decided block is in the tree of an honest node, as long as the faulty         *)
(* authorities cannot decide without one (cpproposer.rs:185 validates before it votes,   *)
(* lcblocks.rs:118-147 never removes a block).                                           *)
THEOREM DecisionsAvailable ==
    ASSUME IsFiniteSet(Committee), 3 * Cardinality(Faulty) <= 2 * Cardinality(Committee)
    PROVE  Spec => []CheckpointsAvailable
  <1>1. IInv /\ [Next]_vars => IInv'
    BY Inductive
  <1>2. IInv => CheckpointsAvailable
    BY DEF IInv
  <1> QED BY <1>1, <1>2, Start, PTL DEF Spec

-----------------------------------------------------------------------------
(* The checkpoints form a chain.                                              *)

(* c is the last checkpoint of the first i decisions.                          *)
IsLast(s, i, c) ==
    \/ c = Genesis /\ \A k \in 1 .. i : s[k] = NoCheckpoint
    \/ \E m \in 1 .. i : /\ s[m] = c /\ c # NoCheckpoint
                          /\ \A k \in m + 1 .. i : s[k] = NoCheckpoint

(* Every node has the blocks as they were mined.                               *)
TreesTrue ==
    \A n \in Node :
        /\ FullTree(tree[n])
        /\ \A d \in Known(tree[n]) : d \in DOMAIN Minted /\ tree[n].lcblocks[d] = Minted[d]

CountersOK ==
    /\ DOMAIN taken = Node /\ DOMAIN current_iteration = Node
    /\ DOMAIN phase = Node /\ DOMAIN checkpoint = Node
    /\ \A n \in Node : /\ taken[n] \in Nat /\ taken[n] <= Len(decided)
                        /\ current_iteration[n] \in Nat /\ current_iteration[n] <= Len(decided)
                        /\ vote[n].i \in Nat /\ vote[n].i <= Len(decided)

(* A node that takes part in an iteration has taken all decisions before it.   *)
KeptUp == \A n \in Node : phase[n] # "begin" => taken[n] >= current_iteration[n]

(* A manager has the last checkpoint of the decisions it has taken.            *)
LastTaken ==
    \A n \in Node \ panicked : IsLast(decided, taken[n], checkpoint[n])

(* A vote that counts is for a block that extends all that is decided.         *)
VotesExtend ==
    \A n \in Node :
        vote[n].i = Len(decided) /\ vote[n].for \notin {Reject, NoCheckpoint} =>
            \E c : IsLast(decided, Len(decided), c) /\ Extends(Minted, c, vote[n].for)

ChainInv ==
    /\ TreesTrue
    /\ CountersOK
    /\ KeptUp
    /\ LastTaken
    /\ VotesExtend
    /\ CheckpointsFormChain

(* The last checkpoint is one, and it does not change with later decisions.    *)
LEMMA LastUnique ==
    ASSUME NEW s, NEW i \in Nat, NEW c, NEW d, IsLast(s, i, c), IsLast(s, i, d)
    PROVE  c = d
  <1>1. CASE \A k \in 1 .. i : s[k] = NoCheckpoint
    BY <1>1 DEF IsLast
  <1>2. CASE ~ \A k \in 1 .. i : s[k] = NoCheckpoint
    <2>1. PICK m \in 1 .. i : s[m] = c /\ c # NoCheckpoint /\ \A k \in m + 1 .. i : s[k] = NoCheckpoint
      BY <1>2 DEF IsLast
    <2>2. PICK n \in 1 .. i : s[n] = d /\ d # NoCheckpoint /\ \A k \in n + 1 .. i : s[k] = NoCheckpoint
      BY <1>2 DEF IsLast
    <2>3. ~ m < n /\ ~ n < m
      BY <2>1, <2>2
    <2> QED BY <2>1, <2>2, <2>3
  <1> QED BY <1>1, <1>2

LEMMA LastStays ==
    ASSUME NEW s, NEW t, NEW i \in Nat, \A k \in 1 .. i : t[k] = s[k], NEW c, IsLast(s, i, c)
    PROVE  IsLast(t, i, c)
  <1>1. CASE c = Genesis /\ \A k \in 1 .. i : s[k] = NoCheckpoint
    BY <1>1 DEF IsLast
  <1>2. CASE \E m \in 1 .. i : /\ s[m] = c /\ c # NoCheckpoint
                              /\ \A k \in m + 1 .. i : s[k] = NoCheckpoint
    BY <1>2 DEF IsLast
  <1> QED BY <1>1, <1>2 DEF IsLast

LEMMA LastNext ==
    ASSUME NEW s, NEW i \in Nat, NEW c, IsLast(s, i, c)
    PROVE  /\ s[i + 1] = NoCheckpoint => IsLast(s, i + 1, c)
           /\ s[i + 1] # NoCheckpoint => IsLast(s, i + 1, s[i + 1])
  <1>1. ASSUME s[i + 1] = NoCheckpoint PROVE IsLast(s, i + 1, c)
    <2>1. CASE c = Genesis /\ \A k \in 1 .. i : s[k] = NoCheckpoint
      BY <1>1, <2>1 DEF IsLast
    <2>2. CASE \E m \in 1 .. i : /\ s[m] = c /\ c # NoCheckpoint
                                /\ \A k \in m + 1 .. i : s[k] = NoCheckpoint
      BY <1>1, <2>2 DEF IsLast
    <2> QED BY <2>1, <2>2 DEF IsLast
  <1>2. s[i + 1] # NoCheckpoint => IsLast(s, i + 1, s[i + 1])
    BY DEF IsLast
  <1> QED BY <1>1, <1>2

(* What the trees say of the blocks as they were mined.                        *)
LEMMA MintedClosed == ClosedUnderParents(Minted)
  BY CheckpointingAssumption DEF ClosedUnderParents, GenesisBlock

LEMMA TreeGrounded ==
    ASSUME TreesTrue, NEW n \in Node
    PROVE  /\ Grounded(Minted, Known(tree[n]), tree[n].precomputed_height)
           /\ \A a, d \in Known(tree[n]) :
                 IsPrefixOf(tree[n], a, d) <=> Extends(Minted, a, d)
  <1> DEFINE t == tree[n]
  <1>1. /\ GroundedTree(t) /\ ClosedUnderParents(t.lcblocks) /\ Known(t) = DOMAIN t.lcblocks
        /\ \A d \in Known(t) : d \in DOMAIN Minted /\ t.lcblocks[d] = Minted[d]
    BY GroundedClosed DEF TreesTrue, FullTree, OrderedTree
  <1>2. Grounded(Minted, Known(t), t.precomputed_height)
    BY <1>1 DEF GroundedTree, Grounded
  <1>3. ASSUME NEW a \in Known(t), NEW d \in Known(t)
        PROVE  IsPrefixOf(t, a, d) <=> Extends(Minted, a, d)
    <2>1. IsPrefixOf(t, a, d) <=> Extends(t.lcblocks, a, d)
      BY <1>1, PrefixIsExtends
    <2>2. Extends(t.lcblocks, a, d) <=> Extends(Minted, a, d)
      BY <1>1, <1>2, MintedClosed, SameAncestors
    <2> QED BY <2>1, <2>2
  <1> QED BY <1>2, <1>3

LEMMA ChainStart == Init => ChainInv
  <1> SUFFICES ASSUME Init PROVE ChainInv
    OBVIOUS
  <1>1. TreesTrue
    BY NewTreeFull, CheckpointingAssumption DEF Init, TreesTrue, NewTree, Known
  <1>2. CountersOK /\ KeptUp
    BY DEF Init, CountersOK, KeptUp
  <1>3. LastTaken
    BY DEF Init, LastTaken, IsLast
  <1>4. VotesExtend /\ CheckpointsFormChain
    BY DEF Init, VotesExtend, CheckpointsFormChain, Checkpoints
  <1> QED BY <1>1, <1>2, <1>3, <1>4 DEF ChainInv

(* A decision for a block extends all that is decided.                         *)
LEMMA DecisionExtends ==
    ASSUME IInv, ChainInv, NEW n \in Node, NEW v \in Digest, v \notin {Reject, NoCheckpoint},
           vote[n] = [i |-> Len(decided), for |-> v], NEW j \in Checkpoints
    PROVE  Extends(Minted, decided[j], v)
  <1> DEFINE D == Known(tree[n])
  <1>1. vote[n].i = Len(decided) /\ vote[n].for = v
    OBVIOUS
  <1>2. v \in D
    BY <1>1 DEF IInv, VotesKnown
  <1>3. PICK c : IsLast(decided, Len(decided), c) /\ Extends(Minted, c, v)
    BY <1>1 DEF ChainInv, VotesExtend
  <1>4. j \in 1 .. Len(decided) /\ decided[j] # NoCheckpoint
    BY DEF Checkpoints
  <1>5. PICK m \in 1 .. Len(decided) : /\ decided[m] = c /\ c # NoCheckpoint
                                      /\ \A k \in m + 1 .. Len(decided) : decided[k] = NoCheckpoint
    BY <1>3, <1>4 DEF IsLast
  <1>6. j <= m /\ m \in Checkpoints
    BY <1>4, <1>5 DEF Checkpoints
  <1>7. Extends(Minted, decided[j], c)
    BY <1>5, <1>6 DEF ChainInv, CheckpointsFormChain
  <1> QED BY <1>2, <1>3, <1>7, MintedClosed, TreeGrounded, ExtendsTransitive DEF ChainInv

(* What depends on the decisions only when these do not change.                *)
LEMMA ChainStays ==
    ASSUME ChainInv, decided' = decided PROVE CheckpointsFormChain'
  BY DEF ChainInv, CheckpointsFormChain, Checkpoints

LEMMA ChainInductive ==
    ASSUME IsFiniteSet(Committee), 3 * Cardinality(Faulty) <= 2 * Cardinality(Committee),
           ManagerKeepsUp, IInv, IInv', ChainInv, [Next]_vars
    PROVE  ChainInv'
  <1> USE DEF manager, proposer
  <1>0. Len(decided) \in Nat
    BY DEF IInv
  <1>1. ASSUME NEW n \in Node, NEW d \in DOMAIN Minted, AddBlock(n, d) PROVE ChainInv'
    <2>1. /\ tree' = [tree EXCEPT ![n] = Add(tree[n], d, Minted[d])]
          /\ UNCHANGED <<checkpoint, taken, panicked, current_iteration, phase, vote, decided>>
          /\ d \notin Known(tree[n]) /\ CanAdd(tree[n], Minted[d])
      BY <1>1 DEF AddBlock
    <2>2. d \in Digest /\ Minted[d] \in Block
      <3>1. Genesis \in Known(tree[n])
        BY DEF ChainInv, TreesTrue, FullTree
      <3> QED BY <2>1, <3>1, CheckpointingAssumption
    <2>3. FullTree(tree[n]) /\ \A x \in Known(tree[n]) : x \in DOMAIN Minted /\ tree[n].lcblocks[x] = Minted[x]
      BY DEF ChainInv, TreesTrue
    <2>4. /\ FullTree(tree'[n]) /\ Known(tree'[n]) = Known(tree[n]) \cup {d}
          /\ tree'[n].lcblocks[d] = Minted[d]
          /\ \A x \in Known(tree[n]) : tree'[n].lcblocks[x] = tree[n].lcblocks[x]
      <3>1. tree'[n] = Add(tree[n], d, Minted[d])
        BY <2>1 DEF IInv
      <3> QED BY <2>1, <2>2, <2>3, <3>1, AddKeepsTree
    <2>5. \A m \in Node : m # n => tree'[m] = tree[m]
      BY <2>1 DEF IInv
    <2>6. TreesTrue'
      <3>1. ASSUME NEW m \in Node
            PROVE  /\ FullTree(tree'[m])
                   /\ \A x \in Known(tree'[m]) : x \in DOMAIN Minted /\ tree'[m].lcblocks[x] = Minted[x]
        <4>1. CASE m = n
          BY <2>3, <2>4, <4>1
        <4>2. CASE m # n
          BY <2>5, <4>2 DEF ChainInv, TreesTrue
        <4> QED BY <4>1, <4>2
      <3> QED BY <3>1 DEF TreesTrue
    <2>7. CountersOK' /\ KeptUp' /\ LastTaken' /\ VotesExtend'
      BY <2>1 DEF ChainInv, CountersOK, KeptUp, LastTaken, VotesExtend
    <2> QED BY <2>1, <2>6, <2>7, ChainStays DEF ChainInv
  <1>2. ASSUME NEW n \in Node \ panicked, TakeCheckpoint(n) PROVE ChainInv'
    <2>1. /\ UNCHANGED <<tree, current_iteration, phase, vote, decided>>
          /\ taken[n] < Len(decided) /\ taken' = [taken EXCEPT ![n] = @ + 1]
      BY <1>2 DEF TakeCheckpoint
    <2>2. TreesTrue' /\ VotesExtend'
      BY <2>1 DEF ChainInv, TreesTrue, VotesExtend
    <2>3. DOMAIN checkpoint' = Node
      BY <1>2 DEF ChainInv, CountersOK, TakeCheckpoint
    <2>4. CountersOK'
      BY <1>0, <2>1, <2>3 DEF ChainInv, CountersOK
    <2>5. KeptUp'
      BY <2>1 DEF ChainInv, CountersOK, KeptUp
    <2>6. LastTaken'
      <3> DEFINE b == decided[taken[n] + 1]
      <3>1. ASSUME NEW m \in Node \ panicked', m # n PROVE IsLast(decided, taken'[m], checkpoint'[m])
        <4>1. taken'[m] = taken[m] /\ checkpoint'[m] = checkpoint[m] /\ m \notin panicked
          BY <1>2, <3>1 DEF TakeCheckpoint, ChainInv, CountersOK
        <4> QED BY <4>1 DEF ChainInv, LastTaken
      <3>2. ASSUME n \notin panicked' PROVE IsLast(decided, taken'[n], checkpoint'[n])
        <4>1. taken'[n] = taken[n] + 1 /\ taken[n] \in Nat /\ IsLast(decided, taken[n], checkpoint[n])
          BY <2>1 DEF ChainInv, CountersOK, LastTaken
        <4>2. CASE b = NoCheckpoint
          <5>1. NoCheckpoint \notin Known(tree[n])
            BY CheckpointingAssumption DEF ChainInv, TreesTrue
          <5>2. checkpoint' = checkpoint
            BY <1>2, <4>2, <5>1 DEF TakeCheckpoint
          <5> QED BY <4>1, <4>2, <5>2, LastNext
        <4>3. CASE b # NoCheckpoint
          <5>1. b \in Known(tree[n])
            BY <1>2, <3>2, <4>3 DEF TakeCheckpoint
          <5>2. checkpoint'[n] = b
            BY <1>2, <4>3, <5>1 DEF TakeCheckpoint, ChainInv, CountersOK
          <5> QED BY <4>1, <4>3, <5>2, LastNext
        <4> QED BY <4>2, <4>3
      <3> QED BY <2>1, <3>1, <3>2 DEF LastTaken
    <2> QED BY <2>1, <2>2, <2>4, <2>5, <2>6, ChainStays DEF ChainInv
  <1>3. ASSUME NEW n \in Node, Begin(n) PROVE ChainInv'
    <2>1. /\ UNCHANGED <<tree, checkpoint, taken, panicked, current_iteration, vote, decided>>
          /\ taken[n] >= current_iteration[n] /\ phase' = [phase EXCEPT ![n] = "wait"]
      BY <1>3 DEF Begin
    <2>2. TreesTrue' /\ CountersOK' /\ KeptUp' /\ LastTaken' /\ VotesExtend'
      BY <2>1 DEF ChainInv, TreesTrue, CountersOK, KeptUp, LastTaken, VotesExtend
    <2> QED BY <2>1, <2>2, ChainStays DEF ChainInv
  <1>4. ASSUME NEW n \in Node \ panicked, ActOnProposal(n) PROVE ChainInv'
    <2>1. /\ UNCHANGED <<tree, checkpoint, taken, panicked, current_iteration, decided>>
          /\ phase[n] = "wait" /\ phase' = [phase EXCEPT ![n] = "acted"]
      BY <1>4 DEF ActOnProposal
    <2>2. PICK b \in DOMAIN Minted :
             vote' = [vote EXCEPT ![n] = [i |-> current_iteration[n],
                        for |-> IF ValidateProposal(n, b) THEN b ELSE Reject]]
      BY <1>4 DEF ActOnProposal
    <2>3. /\ vote'[n].i = current_iteration[n]
          /\ vote'[n].for = IF ValidateProposal(n, b) THEN b ELSE Reject
          /\ \A m \in Node : m # n => vote'[m] = vote[m]
      BY <2>2 DEF IInv
    <2>4. TreesTrue' /\ CountersOK' /\ KeptUp' /\ LastTaken'
      <3>1. CountersOK'
        BY <2>1, <2>3 DEF ChainInv, CountersOK
      <3> QED BY <2>1, <3>1 DEF ChainInv, TreesTrue, CountersOK, KeptUp, LastTaken
    <2>5. ASSUME vote'[n].i = Len(decided), vote'[n].for \notin {Reject, NoCheckpoint}
          PROVE  \E c : IsLast(decided, Len(decided), c) /\ Extends(Minted, c, vote'[n].for)
      <3>1. ValidateProposal(n, b) /\ vote'[n].for = b
        BY <2>3, <2>5
      <3>2. taken[n] = Len(decided)
        <4>1. current_iteration[n] = Len(decided)
          BY <2>3, <2>5
        <4>2. taken[n] >= current_iteration[n] /\ taken[n] \in Nat /\ taken[n] <= Len(decided)
          BY <2>1 DEF ChainInv, CountersOK, KeptUp
        <4> QED BY <1>0, <4>1, <4>2
      <3>3. IsLast(decided, Len(decided), checkpoint[n])
        BY <3>2 DEF ChainInv, LastTaken
      <3>4. Extends(Minted, checkpoint[n], b)
        BY <3>1, TreeGrounded DEF ChainInv, ValidateProposal
      <3> QED BY <3>1, <3>3, <3>4
    <2>6. VotesExtend'
      BY <2>1, <2>3, <2>5 DEF ChainInv, VotesExtend
    <2> QED BY <2>1, <2>4, <2>6, ChainStays DEF ChainInv
  <1>5. ASSUME NEW n \in Node, TimeoutUp(n) PROVE ChainInv'
    <2>1. /\ UNCHANGED <<tree, checkpoint, taken, panicked, current_iteration, decided>>
          /\ phase[n] \in {"wait", "acted"} /\ phase' = [phase EXCEPT ![n] = "rejecting"]
          /\ vote' = [vote EXCEPT ![n] = [i |-> current_iteration[n], for |-> Reject]]
      BY <1>5 DEF TimeoutUp
    <2>2. /\ vote'[n].i = current_iteration[n] /\ vote'[n].for = Reject
          /\ \A m \in Node : m # n => vote'[m] = vote[m]
      BY <2>1 DEF IInv
    <2>3. CountersOK'
      BY <2>1, <2>2 DEF ChainInv, CountersOK
    <2>4. TreesTrue' /\ KeptUp' /\ LastTaken'
      BY <2>1 DEF ChainInv, TreesTrue, CountersOK, KeptUp, LastTaken
    <2>5. VotesExtend'
      BY <2>1, <2>2 DEF ChainInv, VotesExtend
    <2> QED BY <2>1, <2>3, <2>4, <2>5, ChainStays DEF ChainInv
  <1>6. ASSUME NEW n \in Node, TakeDecision(n) PROVE ChainInv'
    <2>1. /\ UNCHANGED <<tree, checkpoint, taken, panicked, vote, decided>>
          /\ current_iteration[n] < Len(decided)
          /\ current_iteration' = [current_iteration EXCEPT ![n] = @ + 1]
          /\ phase' = [phase EXCEPT ![n] = "begin"]
      BY <1>6 DEF TakeDecision
    <2>2. CountersOK'
      BY <1>0, <2>1 DEF ChainInv, CountersOK
    <2>3. TreesTrue' /\ KeptUp' /\ LastTaken' /\ VotesExtend'
      BY <2>1 DEF ChainInv, TreesTrue, CountersOK, KeptUp, LastTaken, VotesExtend
    <2> QED BY <2>1, <2>2, <2>3, ChainStays DEF ChainInv
  <1>7. CASE Decide
    <2>1. PICK v \in DOMAIN Minted \cup {Reject} :
             CanDecide(v) /\ decided' = Append(decided, IF v = Reject THEN NoCheckpoint ELSE v)
      BY <1>7 DEF Decide
    <2> DEFINE d == IF v = Reject THEN NoCheckpoint ELSE v
    <2>2. UNCHANGED <<tree, checkpoint, taken, panicked, current_iteration, phase, vote>>
      BY <1>7 DEF Decide
    <2>3. d = NoCheckpoint \/ (d = v /\ v \in Digest /\ v \in DOMAIN Minted /\ v \notin {Reject, NoCheckpoint})
      BY CheckpointingAssumption
    <2>4. d # NoCheckpoint => \A j \in Checkpoints : Extends(Minted, decided[j], d)
      BY <2>1, <2>3, HonestVoter, DecisionExtends
    <2>5. d # NoCheckpoint => Extends(Minted, d, d)
      BY <2>3, MintedClosed, ExtendsReflexive
    <2>6. /\ decided' = Append(decided, d) /\ Len(decided') = Len(decided) + 1
          /\ \A k \in 1 .. Len(decided) : decided'[k] = decided[k]
          /\ decided'[Len(decided) + 1] = d
      BY <2>1 DEF IInv
    <2> HIDE DEF d
    <2>7. CheckpointsFormChain'
      <3> SUFFICES ASSUME NEW j \in Checkpoints', NEW k \in Checkpoints', j <= k
                   PROVE  Extends(Minted, decided'[j], decided'[k])
        BY DEF CheckpointsFormChain
      <3>1. /\ j \in 1 .. Len(decided) + 1 /\ decided'[j] # NoCheckpoint
            /\ k \in 1 .. Len(decided) + 1 /\ decided'[k] # NoCheckpoint
        BY <2>6 DEF Checkpoints
      <3>2. CASE k \in 1 .. Len(decided)
        <4>1. j \in Checkpoints /\ k \in Checkpoints /\ decided'[j] = decided[j] /\ decided'[k] = decided[k]
          BY <1>0, <2>6, <3>1, <3>2 DEF Checkpoints
        <4> QED BY <4>1 DEF ChainInv, CheckpointsFormChain
      <3>3. CASE k = Len(decided) + 1 /\ j \in 1 .. Len(decided)
        <4>1. j \in Checkpoints /\ decided'[j] = decided[j] /\ decided'[k] = d /\ d # NoCheckpoint
          BY <2>6, <3>1, <3>3 DEF Checkpoints
        <4> QED BY <2>4, <4>1
      <3>4. CASE k = Len(decided) + 1 /\ j = Len(decided) + 1
        BY <2>5, <2>6, <3>1, <3>4
      <3> QED BY <1>0, <3>1, <3>2, <3>3, <3>4
    <2>8. LastTaken'
      <3>1. ASSUME NEW n \in Node \ panicked PROVE IsLast(decided', taken[n], checkpoint[n])
        <4>1. /\ taken[n] \in Nat /\ taken[n] <= Len(decided)
              /\ IsLast(decided, taken[n], checkpoint[n])
          BY DEF ChainInv, CountersOK, LastTaken
        <4>2. \A k \in 1 .. taken[n] : decided'[k] = decided[k]
          BY <1>0, <2>6, <4>1
        <4> QED BY <4>1, <4>2, LastStays
      <3> QED BY <2>2, <3>1 DEF LastTaken
    <2>9. CountersOK'
      BY <1>0, <2>2, <2>6 DEF ChainInv, CountersOK
    <2>10. VotesExtend'
      BY <1>0, <2>2, <2>6 DEF ChainInv, CountersOK, VotesExtend
    <2>11. TreesTrue' /\ KeptUp'
      BY <2>2 DEF ChainInv, TreesTrue, KeptUp
    <2> QED BY <2>7, <2>8, <2>9, <2>10, <2>11 DEF ChainInv
  <1>8. CASE UNCHANGED vars
    <2>1. UNCHANGED <<tree, checkpoint, taken, panicked, current_iteration, phase, vote, decided>>
      BY <1>8 DEF vars
    <2>2. TreesTrue' /\ CountersOK' /\ KeptUp' /\ LastTaken' /\ VotesExtend'
      BY <2>1 DEF ChainInv, TreesTrue, CountersOK, KeptUp, LastTaken, VotesExtend
    <2> QED BY <2>1, <2>2, ChainStays DEF ChainInv
  <1> QED BY <1>1, <1>2, <1>3, <1>4, <1>5, <1>6, <1>7, <1>8 DEF Next

(* The accountable log never rolls back, as long as managers keep up with their proposers  *)
(* and the faulty authorities cannot decide alone: a decision has an honest vote, and an     *)
(* honest node has validated the block against the last checkpoint that was decided           *)
(* (lcblocktreemanager.rs:164-175, cpproposer.rs:185).                                        *)
THEOREM LogNeverRollsBack ==
    ASSUME IsFiniteSet(Committee), 3 * Cardinality(Faulty) <= 2 * Cardinality(Committee),
           ManagerKeepsUp
    PROVE  Spec => []CheckpointsFormChain
  <1>1. IInv /\ [Next]_vars => IInv'
    BY Inductive
  <1>2. IInv /\ IInv' /\ ChainInv /\ [Next]_vars => ChainInv'
    BY ChainInductive
  <1>3. ChainInv => CheckpointsFormChain
    BY DEF ChainInv
  <1> QED BY <1>1, <1>2, <1>3, Start, ChainStart, PTL DEF Spec
=============================================================================
