--------------------------- MODULE HotStuffProofs ---------------------------
(***************************************************************************)
(* Proofs about HotStuff, for every committee of which less than a third is   *)
(* faulty, every assignment of leaders, and any number of rounds; and about      *)
(* HotStuffRestart, for any number of authorities that start again.               *)
(***************************************************************************)
EXTENDS HotStuffRestart, FiniteSetTheorems, WellFoundedInduction, TLAPS

(* A set of rounds has a smallest one.                                        *)
LEMMA SmallestExists ==
    ASSUME NEW T, T \subseteq Nat, T # {}
    PROVE  \E x \in T : \A y \in T : x <= y
  <1>1. PICK x \in T : \A y \in T : ~ (<<y, x>> \in OpToRel(<, Nat))
    BY NatLessThanWellFounded, WFMin
  <1>2. \A y \in T : x <= y
    <2> SUFFICES ASSUME NEW y \in T PROVE x <= y
      OBVIOUS
    <2>1. ~ (<<y, x>> \in OpToRel(<, Nat))
      BY <1>1
    <2> QED
      BY <2>1 DEF OpToRel
  <1> QED
    BY <1>2

-----------------------------------------------------------------------------
(* Sums of stakes.  MapThenSumSet is a recursive function on the subsets of a set; *)
(* IsSum says that f is one on those of A, which takes the members in the order       *)
(* of CHOOSE.                                                                             *)
Some(s) == CHOOSE x \in s : TRUE
IsSum(f, A) ==
    f = [s \in SUBSET A |-> IF s = {} THEN 0 ELSE Stake[Some(s)] + f[s \ {Some(s)}]]

LEMMA SomeIn == ASSUME NEW s, s # {} PROVE Some(s) \in s
  BY DEF Some

(* Of a family of finite sets one is smallest.                                   *)
LEMMA SmallestSet ==
    ASSUME NEW F, F # {}, \A s \in F : IsFiniteSet(s)
    PROVE  \E s \in F : \A t \in F : Cardinality(s) <= Cardinality(t)
  <1> DEFINE T == {Cardinality(s) : s \in F}
  <1>1. T \subseteq Nat /\ T # {}
    BY FS_CardinalityType
  <1>2. PICK x \in T : \A y \in T : x <= y
    BY <1>1, SmallestExists
  <1> QED
    BY <1>2

(* A set without one of its members has fewer.                                    *)
LEMMA FewerLeft ==
    ASSUME NEW s, IsFiniteSet(s), NEW x \in s
    PROVE  /\ Cardinality(s) \in Nat
           /\ Cardinality(s \ {x}) = Cardinality(s) - 1
           /\ Cardinality(s \ {x}) < Cardinality(s)
           /\ ~ (Cardinality(s) <= Cardinality(s \ {x}))
  <1>1. Cardinality(s) \in Nat /\ Cardinality(s \ {x}) = Cardinality(s) - 1
    BY FS_CardinalityType, FS_RemoveElement
  <1> QED
    BY <1>1

LEMMA SumExists ==
    ASSUME NEW A, IsFiniteSet(A)
    PROVE  \E f : IsSum(f, A)
  <1> DEFINE D(n) == {s \in SUBSET A : Cardinality(s) <= n}
             v(f, s) == IF s = {} THEN 0 ELSE Stake[Some(s)] + f[s \ {Some(s)}]
             P(n) == \E f : f = [s \in D(n) |-> v(f, s)]
             bad == {n \in Nat : ~ P(n)}
  <1>1. \A s \in SUBSET A : /\ IsFiniteSet(s) /\ Cardinality(s) \in Nat
                            /\ Cardinality(s) <= Cardinality(A)
                            /\ Cardinality(s) = 0 <=> s = {}
                            /\ s # {} => Cardinality(s \ {Some(s)}) = Cardinality(s) - 1
    BY FS_Subset, FS_CardinalityType, FS_EmptySet, FS_RemoveElement, SomeIn
  <1>2. bad = {}
    <2> SUFFICES ASSUME bad # {} PROVE FALSE
      OBVIOUS
    <2>1. PICK n \in bad : \A m \in bad : n <= m
      BY SmallestExists
    <2>2. n \in Nat /\ ~ P(n)
      BY <2>1
    <2>3. n # 0
      <3> SUFFICES ASSUME n = 0 PROVE FALSE
        OBVIOUS
      <3> DEFINE g == [s \in D(0) |-> 0]
      <3>1. ASSUME NEW s \in D(0) PROVE s = {}
        <4>1. s \in SUBSET A /\ Cardinality(s) <= 0
          OBVIOUS
        <4>2. Cardinality(s) \in Nat /\ (Cardinality(s) = 0 <=> s = {})
          BY <1>1, <4>1
        <4> QED
          BY <4>1, <4>2
      <3>2. \A s \in D(0) : v(g, s) = 0
        BY <3>1
      <3>3. g = [s \in D(0) |-> v(g, s)]
        BY <3>2
      <3> QED
        BY <2>2, <3>3
    <2>4. n - 1 \in Nat /\ P(n - 1)
      <3>1. n - 1 \in Nat /\ ~ (n <= n - 1)
        BY <2>2, <2>3
      <3>2. n - 1 \notin bad
        BY <2>1, <3>1
      <3> QED
        BY <3>1, <3>2
    <2>5. PICK f : f = [s \in D(n - 1) |-> v(f, s)]
      BY <2>4
    <2> DEFINE g == [s \in D(n) |-> v(f, s)]
    <2>6. \A s \in D(n - 1) : s \in D(n) /\ g[s] = f[s]
      <3>1. \A s \in D(n - 1) : f[s] = v(f, s)
        BY <2>5
      <3>2. ASSUME NEW s \in D(n - 1) PROVE s \in D(n)
        <4>1. s \in SUBSET A /\ Cardinality(s) <= n - 1
          OBVIOUS
        <4>2. Cardinality(s) \in Nat
          BY <1>1, <4>1
        <4>3. Cardinality(s) <= n
          <5> HIDE DEF P, bad, D, g
          <5> QED
            BY <2>2, <4>1, <4>2
        <4> QED
          BY <4>1, <4>3
      <3> QED
        BY <3>1, <3>2
    <2>7. \A s \in D(n) : s # {} => s \ {Some(s)} \in D(n - 1)
      BY <1>1, <2>2
    <2>8. \A s \in D(n) : v(f, s) = v(g, s)
      BY <2>6, <2>7
    <2>9. g = [s \in D(n) |-> v(g, s)]
      BY <2>8
    <2> QED
      BY <2>2, <2>9
  <1>3. Cardinality(A) \in Nat /\ D(Cardinality(A)) = SUBSET A
    BY <1>1, FS_CardinalityType
  <1>4. P(Cardinality(A))
    BY <1>2, <1>3
  <1>5. PICK f : f = [s \in D(Cardinality(A)) |-> v(f, s)]
    BY <1>4
  <1>6. IsSum(f, A)
    BY <1>3, <1>5 DEF IsSum
  <1> QED
    BY <1>6

(* Sums over the subsets of a set and over those of a part of it agree.           *)
LEMMA SumsAgree ==
    ASSUME NEW A, NEW B, IsFiniteSet(A), B \subseteq A, NEW f, NEW g, IsSum(f, A), IsSum(g, B)
    PROVE  \A s \in SUBSET B : f[s] = g[s]
  <1> DEFINE bad == {s \in SUBSET B : f[s] # g[s]}
  <1> SUFFICES ASSUME bad # {} PROVE FALSE
    OBVIOUS
  <1>1. \A s \in SUBSET B : IsFiniteSet(s)
    BY FS_Subset
  <1>2. PICK s \in bad : \A t \in bad : Cardinality(s) <= Cardinality(t)
    BY <1>1, SmallestSet
  <1>3. s \in SUBSET A /\ s \in SUBSET B
    BY <1>2
  <1>4. s # {}
    BY <1>2, <1>3 DEF IsSum
  <1> DEFINE t == s \ {Some(s)}
  <1>5. t \in SUBSET B /\ Cardinality(t) = Cardinality(s) - 1 /\ Cardinality(s) \in Nat
    BY <1>1, <1>3, <1>4, SomeIn, FS_RemoveElement, FS_CardinalityType
  <1>6. t \notin bad
    BY <1>2, <1>5
  <1>7. f[s] = Stake[Some(s)] + f[t] /\ g[s] = Stake[Some(s)] + g[t]
    BY <1>3, <1>4 DEF IsSum
  <1> QED
    BY <1>2, <1>5, <1>6, <1>7

(* StakeOf is the sum on the subsets of the committee.                            *)
LEMMA StakeOfIsSum ==
    ASSUME NEW f, IsSum(f, Authority), NEW S \in SUBSET Authority
    PROVE  StakeOf(S) = f[S]
  <1> DEFINE iter == CHOOSE g : IsSum(g, S)
  <1>1. StakeOf(S) = iter[S]
    BY DEF StakeOf, MapThenSumSet, MapThenFoldSet, IsSum, Some
  <1>2. IsFiniteSet(S)
    BY StakeAssumption, HotStuffAssumption, FS_Subset
  <1>3. IsSum(iter, S)
    BY <1>2, SumExists
  <1> HIDE DEF iter
  <1> QED
    BY <1>1, <1>3, SumsAgree, StakeAssumption, HotStuffAssumption

(* What is used of a sum.                                                         *)
Sums(f) ==
    /\ \A s \in SUBSET Authority : f[s] \in Nat
    /\ \A s \in SUBSET Authority : \A x \in s : f[s] = Stake[x] + f[s \ {x}]
    /\ f[{}] = 0
    /\ \A S \in SUBSET Authority : StakeOf(S) = f[S]

LEMMA SumOfStakes == \E f : Sums(f)
  <1>1. PICK f : IsSum(f, Authority)
    BY StakeAssumption, HotStuffAssumption, SumExists
  <1>2. \A s \in SUBSET Authority :
          f[s] = IF s = {} THEN 0 ELSE Stake[Some(s)] + f[s \ {Some(s)}]
    BY <1>1 DEF IsSum
  <1>3. \A s \in SUBSET Authority : IsFiniteSet(s) /\ Cardinality(s) \in Nat
    BY FS_Subset, StakeAssumption, HotStuffAssumption, FS_CardinalityType
  <1>4. ASSUME NEW s \in SUBSET Authority, NEW x \in s
        PROVE  Cardinality(s \ {x}) < Cardinality(s)
    BY <1>3, FewerLeft
  <1>5. \A s \in SUBSET Authority : f[s] \in Nat
    <2> DEFINE bad == {s \in SUBSET Authority : f[s] \notin Nat}
    <2> SUFFICES ASSUME bad # {} PROVE FALSE
      OBVIOUS
    <2>1. PICK s \in bad : \A t \in bad : Cardinality(s) <= Cardinality(t)
      BY <1>3, SmallestSet
    <2>2. s # {}
      BY <1>2, <2>1
    <2> DEFINE c == Some(s)
    <2>3. c \in s
      BY <2>2, SomeIn
    <2>4. f[s] = Stake[c] + f[s \ {c}]
      BY <1>2, <2>1, <2>2
    <2> HIDE DEF c
    <2>5. s \ {c} \in SUBSET Authority /\ s \ {c} \notin bad
      BY <1>3, <2>1, <2>3, FewerLeft
    <2>6. f[s \ {c}] \in Nat /\ Stake[c] \in Nat
      BY <2>1, <2>3, <2>5, StakeAssumption, HotStuffAssumption
    <2>7. f[s] \in Nat
      BY <2>4, <2>6
    <2> QED
      BY <2>1, <2>7
  <1>6. \A s \in SUBSET Authority : \A x \in s : f[s] = Stake[x] + f[s \ {x}]
    <2> DEFINE bad == {s \in SUBSET Authority : \E x \in s : f[s] # Stake[x] + f[s \ {x}]}
    <2> SUFFICES ASSUME bad # {} PROVE FALSE
      OBVIOUS
    <2>1. PICK s \in bad : \A t \in bad : Cardinality(s) <= Cardinality(t)
      BY <1>3, SmallestSet
    <2>2. PICK x \in s : f[s] # Stake[x] + f[s \ {x}]
      BY <2>1
    <2> DEFINE c == Some(s)
    <2>3. c \in s /\ f[s] = Stake[c] + f[s \ {c}]
      BY <1>2, <2>1, SomeIn
    <2> HIDE DEF c
    <2>4. x # c
      BY <2>2, <2>3
    <2>5. s \ {c} \in SUBSET Authority /\ s \ {c} \notin bad /\ x \in s \ {c}
      BY <1>3, <1>4, <2>1, <2>3, <2>4
    <2>6. s \ {x} \in SUBSET Authority /\ s \ {x} \notin bad /\ c \in s \ {x}
      BY <1>3, <1>4, <2>1, <2>3, <2>4
    <2>7. f[s \ {c}] = Stake[x] + f[(s \ {c}) \ {x}]
      BY <2>5
    <2>8. f[s \ {x}] = Stake[c] + f[(s \ {x}) \ {c}]
      BY <2>6
    <2>9. (s \ {c}) \ {x} = (s \ {x}) \ {c}
      OBVIOUS
    <2>10. Stake[c] \in Nat /\ Stake[x] \in Nat /\ f[(s \ {x}) \ {c}] \in Nat
      BY <1>5, <2>1, <2>3, StakeAssumption, HotStuffAssumption
    <2>11. f[s] = Stake[x] + f[s \ {x}]
      <3> DEFINE k == f[(s \ {x}) \ {c}]
      <3>1. /\ f[s] = Stake[c] + (Stake[x] + k)
            /\ f[s \ {x}] = Stake[c] + k
        BY <2>3, <2>7, <2>8, <2>9
      <3>2. k \in Nat
        BY <2>10
      <3> HIDE DEF k
      <3> QED
        BY <3>1, <3>2, <2>10
    <2> QED
      BY <2>2, <2>11
  <1>7. \A S \in SUBSET Authority : StakeOf(S) = f[S]
    BY <1>1, StakeOfIsSum
  <1> QED
    BY <1>2, <1>5, <1>6, <1>7 DEF Sums

(* The stake of two sets that share nothing is that of both.                      *)
LEMMA StakesAdd ==
    ASSUME NEW S \in SUBSET Authority, NEW T \in SUBSET Authority, S \cap T = {}
    PROVE  /\ StakeOf(S) \in Nat /\ StakeOf(T) \in Nat
           /\ StakeOf(S \cup T) = StakeOf(S) + StakeOf(T)
  <1>1. PICK f : Sums(f)
    BY SumOfStakes
  <1> DEFINE bad == {t \in SUBSET T : f[S \cup t] # f[S] + f[t]}
  <1>2. bad = {}
    <2> SUFFICES ASSUME bad # {} PROVE FALSE
      OBVIOUS
    <2>1. \A t \in bad : IsFiniteSet(t)
      BY FS_Subset, StakeAssumption, HotStuffAssumption
    <2>2. PICK t \in bad : \A u \in bad : Cardinality(t) <= Cardinality(u)
      BY <2>1, SmallestSet
    <2>3. t # {}
      <3> SUFFICES ASSUME t = {} PROVE FALSE
        OBVIOUS
      <3>1. S \cup t = S /\ f[t] = 0 /\ f[S] \in Nat
        BY <1>1 DEF Sums
      <3> QED
        BY <2>2, <3>1
    <2>4. PICK x \in t : TRUE
      BY <2>3
    <2> DEFINE u == t \ {x}
    <2>5. u \in SUBSET T /\ ~ (Cardinality(t) <= Cardinality(u))
      BY <2>1, <2>2, <2>4, FewerLeft
    <2>6. f[S \cup u] = f[S] + f[u]
      <3>1. u \notin bad
        BY <2>2, <2>5
      <3> QED
        BY <2>5, <3>1
    <2>7. (S \cup t) \ {x} = S \cup u /\ x \in S \cup t /\ x \in Authority
      BY <2>2, <2>4
    <2>8. f[S \cup t] = Stake[x] + f[S \cup u] /\ f[t] = Stake[x] + f[u]
      BY <1>1, <2>2, <2>4, <2>7 DEF Sums
    <2>9. f[S] \in Nat /\ f[u] \in Nat /\ Stake[x] \in Nat
      BY <1>1, <2>5, <2>7, StakeAssumption, HotStuffAssumption DEF Sums
    <2> QED
      BY <2>2, <2>6, <2>8, <2>9
  <1>3. f[S \cup T] = f[S] + f[T]
    BY <1>2
  <1> QED
    BY <1>1, <1>3 DEF Sums

(* Two quorums share more than a third of the stake.                              *)
LEMMA QuorumsShare ==
    ASSUME NEW P \in Quorum, NEW Q \in Quorum
    PROVE  3 * StakeOf(P \cap Q) > StakeOf(Authority)
  <1> DEFINE b == P \cap Q
             p == P \ Q
             r == Authority \ (p \cup Q)
  <1>1. P \in SUBSET Authority /\ Q \in SUBSET Authority
    BY DEF Quorum
  <1>2. /\ StakeOf(b) \in Nat /\ StakeOf(p) \in Nat
        /\ StakeOf(P) = StakeOf(b) + StakeOf(p)
    <2>1. b \cup p = P /\ b \cap p = {} /\ b \in SUBSET Authority /\ p \in SUBSET Authority
      BY <1>1
    <2> QED
      BY <2>1, StakesAdd
  <1>3. StakeOf(Q) \in Nat /\ StakeOf(p \cup Q) = StakeOf(p) + StakeOf(Q)
    <2>1. p \cap Q = {} /\ p \in SUBSET Authority
      BY <1>1
    <2> QED
      BY <1>1, <2>1, StakesAdd
  <1>4. StakeOf(r) \in Nat /\ StakeOf(Authority) = StakeOf(p \cup Q) + StakeOf(r)
    <2>1. (p \cup Q) \cup r = Authority /\ (p \cup Q) \cap r = {}
          /\ p \cup Q \in SUBSET Authority /\ r \in SUBSET Authority
      BY <1>1
    <2> QED
      BY <2>1, StakesAdd
  <1>5. StakeOf(P) >= quorum_threshold /\ StakeOf(Q) >= quorum_threshold
    BY DEF Quorum
  <1> HIDE DEF b, p, r
  <1>6. \A n, q \in Nat : q >= (2 * n) \div 3 + 1 => 3 * q > 2 * n
    OBVIOUS
  <1>7. StakeOf(Authority) \in Nat /\ StakeOf(P) \in Nat
    BY <1>2, <1>3, <1>4
  <1>8. 3 * StakeOf(P) > 2 * StakeOf(Authority) /\ 3 * StakeOf(Q) > 2 * StakeOf(Authority)
    BY <1>3, <1>5, <1>6, <1>7 DEF quorum_threshold
  <1>9. 3 * StakeOf(b) > StakeOf(Authority)
    BY <1>2, <1>3, <1>4, <1>7, <1>8
  <1> QED
    BY <1>9 DEF b

(* If a set has at most a third of the stake, quorums meet outside of it.            *)
LEMMA QuorumsMeetOutside ==
    ASSUME NEW S \in SUBSET Authority, 3 * StakeOf(S) < StakeOf(Authority),
           NEW P \in Quorum, NEW Q \in Quorum
    PROVE  \E a \in P \cap Q : a \notin S
  <1> SUFFICES ASSUME P \cap Q \subseteq S PROVE FALSE
    OBVIOUS
  <1> DEFINE b == P \cap Q
             r == S \ b
  <1>1. b \in SUBSET Authority /\ r \in SUBSET Authority /\ b \cap r = {} /\ b \cup r = S
    OBVIOUS
  <1>2. StakeOf(b) \in Nat /\ StakeOf(r) \in Nat /\ StakeOf(S) = StakeOf(b) + StakeOf(r)
    BY <1>1, StakesAdd
  <1>3. StakeOf(Authority) \in Nat
    <2>1. Authority \cup {} = Authority /\ Authority \cap {} = {} /\ {} \in SUBSET Authority
      OBVIOUS
    <2> QED
      BY <2>1, StakesAdd
  <1>4. 3 * StakeOf(b) > StakeOf(Authority)
    BY QuorumsShare
  <1> HIDE DEF b, r
  <1> QED
    BY <1>2, <1>3, <1>4

-----------------------------------------------------------------------------
(* Blocks                                                                     *)

(* A block's parent is a block, and its round is 0 only for genesis.           *)
LEMMA BlockFacts ==
    ASSUME NEW b \in Seq(Header)
    PROVE  /\ Parent(b) \in Seq(Header)
           /\ BlockRound(b) \in 0 .. MaxRound
           /\ b # Genesis <=> BlockRound(b) >= 1
           /\ b # Genesis => b = Append(Parent(b), b[Len(b)])
  <1>1. CASE b = Genesis
    BY <1>1, HotStuffAssumption DEF Parent, BlockRound, Genesis
  <1>2. CASE b # Genesis
    <2>1. Len(b) \in Nat \ {0} /\ b[Len(b)] \in Header
      BY <1>2 DEF Genesis
    <2>2. Parent(b) = SubSeq(b, 1, Len(b) - 1) /\ BlockRound(b) = b[Len(b)].round
      BY <1>2 DEF Parent, BlockRound
    <2>3. Parent(b) \in Seq(Header)
      BY <2>1, <2>2
    <2>4. b[Len(b)].round \in Round
      BY <2>1 DEF Header
    <2>5. b = Append(Parent(b), b[Len(b)])
      BY <2>1, <2>2
    <2> QED
      BY <1>2, <2>2, <2>3, <2>4, <2>5, HotStuffAssumption DEF Round
  <1> QED
    BY <1>1, <1>2

(* What a leader makes of a QC and a header.                                   *)
LEMMA NewBlock ==
    ASSUME NEW qc \in Seq(Header), NEW h \in Header
    PROVE  /\ Append(qc, h) \in Seq(Header) \ {Genesis}
           /\ Parent(Append(qc, h)) = qc
           /\ BlockRound(Append(qc, h)) = h.round
  <1>1. Append(qc, h) \in Seq(Header) /\ Len(Append(qc, h)) = Len(qc) + 1
    OBVIOUS
  <1>2. Append(qc, h) # Genesis
    <2>1. Len(qc) \in Nat /\ Len(Genesis) = 0
      BY DEF Genesis
    <2> QED
      BY <1>1, <2>1
  <1>3. SubSeq(Append(qc, h), 1, Len(qc)) = qc
    OBVIOUS
  <1>4. Append(qc, h)[Len(qc) + 1] = h
    OBVIOUS
  <1> QED
    BY <1>1, <1>2, <1>3, <1>4 DEF Parent, BlockRound

(* Every block extends genesis and itself.                                      *)
LEMMA ExtendsBase ==
    ASSUME NEW b \in Seq(Header)
    PROVE  Extends(b, Genesis) /\ Extends(b, b)
  BY DEF Extends, IsPrefix, Genesis

(* A block extends what its parent extends.                                      *)
LEMMA ExtendsChild ==
    ASSUME NEW a \in Seq(Header), NEW b \in Seq(Header), Extends(Parent(b), a)
    PROVE  Extends(b, a)
  <1>1. CASE b = Genesis
    BY <1>1 DEF Parent
  <1>2. CASE b # Genesis
    <2>1. Parent(b) = SubSeq(b, 1, Len(b) - 1) /\ Len(b) >= 1
      BY <1>2 DEF Parent, Genesis
    <2>2. Len(a) <= Len(b) - 1
      BY <2>1 DEF Extends, IsPrefix
    <2>3. SubSeq(Parent(b), 1, Len(a)) = SubSeq(b, 1, Len(a))
      BY <2>1, <2>2
    <2> QED
      BY <2>2, <2>3 DEF Extends, IsPrefix
  <1> QED
    BY <1>1, <1>2

(* Of two blocks that one block extends, one extends the other.                   *)
LEMMA ExtendsTotal ==
    ASSUME NEW a \in Seq(Header), NEW b \in Seq(Header), NEW c \in Seq(Header),
           Extends(c, a), Extends(c, b)
    PROVE  Extends(a, b) \/ Extends(b, a)
  <1>1. a = SubSeq(c, 1, Len(a)) /\ b = SubSeq(c, 1, Len(b)) /\ Len(a) <= Len(c) /\ Len(b) <= Len(c)
    BY DEF Extends, IsPrefix
  <1>2. CASE Len(a) <= Len(b)
    BY <1>1, <1>2 DEF Extends, IsPrefix
  <1>3. CASE Len(b) <= Len(a)
    BY <1>1, <1>3 DEF Extends, IsPrefix
  <1> QED
    BY <1>2, <1>3

-----------------------------------------------------------------------------
(* What votes and timeouts stand behind.  These say that there is a quorum among  *)
(* those who sent them, so that they stay true when more is sent.                  *)

(* There are the votes for a QC of b among vs.                                     *)
SupportedBy(b, vs) ==
    \E V \in SUBSET Honest :
        HasQuorum(V) /\ \A a \in V : [author |-> a, block |-> b] \in vs

GoodQC(b, vs) == b = Genesis \/ SupportedBy(b, vs)

(* There are the timeouts for tc among ts.                                         *)
BackedBy(tc, ts) ==
    \E V \in SUBSET Honest :
        /\ HasQuorum(V)
        /\ \A a \in V : \E t \in ts : t.author = a /\ t.round = tc.round /\ t.high <= tc.high

(* A block on top of a certified one, and of a later round.                        *)
Founded(b, vs) ==
    /\ b # Genesis
    /\ GoodQC(Parent(b), vs)
    /\ BlockRound(Parent(b)) < BlockRound(b)

(* What lets others vote for a block: its parent is of the round before, or a TC      *)
(* that is backed makes up for the gap.                                                *)
Follows(b, ts) ==
    \/ BlockRound(Parent(b)) + 1 = BlockRound(b)
    \/ \E tc \in TC : /\ BackedBy(tc, ts)
                      /\ tc.round + 1 = BlockRound(b)
                      /\ BlockRound(Parent(b)) >= tc.high

(* What lets a leader vote for its own block, whatever TC is in it: its parent is as     *)
(* new as that of every block that the leader voted for in an earlier round.               *)
CarriesOn(a, b, vs) ==
    \A w \in vs : w.author = a /\ BlockRound(w.block) < BlockRound(b) =>
        BlockRound(Parent(w.block)) <= BlockRound(Parent(b))

-----------------------------------------------------------------------------
(* The inductive invariant                                                        *)

(* A core is past the round of every QC it has.                                     *)
HighBelow == \A n \in Honest : BlockRound(high_qc[n]) < round[n]

(* Nothing moves a leader on before it has proposed for the first time.             *)
StartsInRoundOne == \A n \in Honest : Booted(n) \/ round[n] = 1

(* All QCs that go round are backed by votes, but for those in peers' LoopBacks.    *)
CertificatesBacked ==
    /\ \A n \in Honest : GoodQC(high_qc[n], votes)
    /\ \A n \in Honest \ misled : \A b \in store[n] : GoodQC(Parent(b), votes)
    /\ \A p \in proposals : Founded(p.block, votes)

VotesFounded == \A v \in votes : v.author \notin misled => Founded(v.block, votes)

(* What all cores together keep, also those that have started again.                *)
CoreInv ==
    /\ TypeOK
    /\ HighBelow
    /\ StartsInRoundOne
    /\ CertificatesBacked
    /\ VotesFounded
    /\ AncestorsStored

(* R are the authorities that have never started again; of them, those that have never  *)
(* taken a peer's LoopBack carry from their votes into what they do later.                *)
OneVoteOf(R) ==
    /\ \A v \in votes : v.author \in R => BlockRound(v.block) <= last_voted_round[v.author]
    /\ \A v, w \in votes :
          v.author \in R /\ v.author = w.author /\ BlockRound(v.block) = BlockRound(w.block) => v = w

Steady(R) == R \ misled

(* What a core remembers of its votes and timeouts, and what it carries from a vote *)
(* into the timeouts that come later.                                                  *)
VotersRemember(R) ==
    /\ \A v \in votes : v.author \in Steady(R) =>
          BlockRound(Parent(v.block)) <= BlockRound(high_qc[v.author])
    /\ \A t \in timeouts : t.author \in Steady(R) => t.round <= last_voted_round[t.author]
    /\ \A v \in votes, t \in timeouts :
          v.author \in Steady(R) /\ v.author = t.author /\ BlockRound(v.block) <= t.round =>
              BlockRound(Parent(v.block)) <= t.high

(* A leader's own block may wait; what it votes for in between is of a later round.    *)
LeadersRemember(R) ==
    \A p \in proposals : \A a \in Steady(R) : a = Leader[BlockRound(p.block)] =>
        /\ BlockRound(p.block) <= round[a]
        /\ BlockRound(Parent(p.block)) <= BlockRound(high_qc[a])
        /\ CarriesOn(a, p.block, votes)

VotesReasoned(R) ==
    \A v \in votes : v.author \in Steady(R) =>
        Follows(v.block, timeouts) \/ CarriesOn(v.author, v.block, votes)

VotersInv(R) == OneVoteOf(R) /\ VotersRemember(R) /\ LeadersRemember(R) /\ VotesReasoned(R)

IInv == CoreInv /\ VotersInv(Honest)

-----------------------------------------------------------------------------
(* Why the invariant is enough                                                    *)

(* Two quorums share an honest authority.                                          *)
LEMMA HonestInBoth ==
    ASSUME NEW V, NEW W, HasQuorum(V), HasQuorum(W)
    PROVE  \E a \in V : a \in W
  BY QuorumsMeetOutside, StakeAssumption, HotStuffAssumption DEF HasQuorum

(* Two quorums share an authority that remembers what it has voted for.             *)
QuorumsMeetIn(S) == \A P, Q \in Quorum : \E a \in P \cap Q : a \in S

LEMMA SteadyInBoth ==
    ASSUME NEW S \in SUBSET Honest, QuorumsMeetIn(S), NEW V, NEW W, HasQuorum(V), HasQuorum(W)
    PROVE  \E a \in V : a \in W /\ a \in S
  BY DEF QuorumsMeetIn, HasQuorum, Honest

LEMMA SteadyInSupport ==
    ASSUME NEW S \in SUBSET Honest, QuorumsMeetIn(S),
           NEW b, NEW c, SupportedBy(b, votes), SupportedBy(c, votes)
    PROVE  \E a \in S : [author |-> a, block |-> b] \in votes /\ [author |-> a, block |-> c] \in votes
  <1>1. PICK V \in SUBSET Honest :
          HasQuorum(V) /\ \A a \in V : [author |-> a, block |-> b] \in votes
    BY DEF SupportedBy
  <1>2. PICK W \in SUBSET Honest :
          HasQuorum(W) /\ \A a \in W : [author |-> a, block |-> c] \in votes
    BY DEF SupportedBy
  <1>3. PICK a \in V : a \in W /\ a \in S
    BY <1>1, <1>2, SteadyInBoth
  <1> QED
    BY <1>1, <1>2, <1>3

(* In a round at most one block gets a QC.                                          *)
LEMMA OneQCPerRound ==
    ASSUME NEW R \in SUBSET Honest, QuorumsMeetIn(Steady(R)), OneVoteOf(R),
           NEW b, NEW c, SupportedBy(b, votes), SupportedBy(c, votes),
           BlockRound(b) = BlockRound(c)
    PROVE  b = c
  <1>1. PICK a \in Steady(R) :
          [author |-> a, block |-> b] \in votes /\ [author |-> a, block |-> c] \in votes
    BY SteadyInSupport DEF Steady
  <1>2. [author |-> a, block |-> b] = [author |-> a, block |-> c]
    BY <1>1 DEF OneVoteOf, Steady
  <1> QED
    BY <1>2

(* Of whoever signed a QC for b and a TC for the round of b or a later one, somebody   *)
(* did both, and reported in the timeout at least the round of b's QC.                  *)
LEMMA TimeoutsKnowTheQC ==
    ASSUME TypeOK, NEW R \in SUBSET Honest, QuorumsMeetIn(Steady(R)), VotersRemember(R),
           NEW b \in Seq(Header), SupportedBy(b, votes),
           NEW tc \in TC, BackedBy(tc, timeouts), BlockRound(b) <= tc.round
    PROVE  BlockRound(Parent(b)) <= tc.high
  <1>1. PICK V \in SUBSET Honest :
          HasQuorum(V) /\ \A a \in V : [author |-> a, block |-> b] \in votes
    BY DEF SupportedBy
  <1>2. PICK W \in SUBSET Honest :
          /\ HasQuorum(W)
          /\ \A a \in W : \E t \in timeouts :
                t.author = a /\ t.round = tc.round /\ t.high <= tc.high
    BY DEF BackedBy
  <1>3. PICK a \in V : a \in W /\ a \in Steady(R)
    BY <1>1, <1>2, SteadyInBoth DEF Steady
  <1>4. PICK t \in timeouts : t.author = a /\ t.round = tc.round /\ t.high <= tc.high
    BY <1>2, <1>3
  <1>5. [author |-> a, block |-> b] \in votes
    BY <1>1
  <1>6. BlockRound(Parent(b)) <= t.high
    BY <1>3, <1>4, <1>5 DEF VotersRemember
  <1>7. BlockRound(Parent(b)) \in Nat /\ t.high \in Nat /\ tc.high \in Nat
    BY BlockFacts, HotStuffAssumption DEF TypeOK, TC
  <1> QED
    BY <1>4, <1>6, <1>7

(* The lock: nothing that does not extend the parent of b gets a QC in the round of b  *)
(* or later.  A first such block c would either sit on a block with a QC that is neither *)
(* older than b nor extends its parent, or on one that a TC lets it sit on; by then         *)
(* somebody has the QC in b.  Only a leader's own vote for c can rest on a TC that is not      *)
(* backed, and not if it has voted for b.                                                        *)
LEMMA LockHolds ==
    ASSUME TypeOK, VotesFounded, NEW R \in SUBSET Honest, QuorumsMeetIn(Steady(R)), VotersInv(R),
           NEW b \in Seq(Header), SupportedBy(b, votes),
           BlockRound(Parent(b)) + 1 = BlockRound(b),
           NEW d \in Seq(Header), SupportedBy(d, votes), BlockRound(d) >= BlockRound(b)
    PROVE  Extends(d, Parent(b))
  <1> DEFINE Stray(c) == /\ SupportedBy(c, votes)
                         /\ BlockRound(c) >= BlockRound(b)
                         /\ ~ Extends(c, Parent(b))
             StrayRounds == {r \in Nat : \E c \in Seq(Header) : Stray(c) /\ BlockRound(c) = r}
  <1>1. SUFFICES ASSUME ~ Extends(d, Parent(b)) PROVE FALSE
    OBVIOUS
  <1>2. \A c \in Seq(Header) : BlockRound(c) \in Nat /\ Parent(c) \in Seq(Header)
    BY BlockFacts, HotStuffAssumption
  <1>3. StrayRounds \subseteq Nat /\ BlockRound(d) \in StrayRounds
    BY <1>1, <1>2
  <1>4. PICK r \in StrayRounds : \A s \in StrayRounds : r <= s
    <2> HIDE DEF StrayRounds
    <2> QED
      BY <1>3, SmallestExists
  <1>5. PICK c \in Seq(Header) : Stray(c) /\ BlockRound(c) = r
    BY <1>4
  <1>6. \A e \in Seq(Header) : Stray(e) => BlockRound(c) <= BlockRound(e)
    BY <1>2, <1>4, <1>5
  <1> DEFINE p == Parent(b)
             q == Parent(c)
  <1>7. p \in Seq(Header) /\ q \in Seq(Header)
    BY <1>2, <1>5
  <1>8. /\ BlockRound(b) \in Nat /\ BlockRound(c) \in Nat
        /\ BlockRound(p) \in Nat /\ BlockRound(q) \in Nat
    BY <1>2, <1>5, <1>7
  <1>9. PICK a \in Steady(R) :
          [author |-> a, block |-> b] \in votes /\ [author |-> a, block |-> c] \in votes
    BY <1>5, SteadyInSupport DEF Steady
  <1>9a. /\ Founded(c, votes) /\ Founded(b, votes)
         /\ Follows(c, timeouts) \/ CarriesOn(a, c, votes)
    <2> DEFINE v == [author |-> a, block |-> b]
               w == [author |-> a, block |-> c]
    <2>1. /\ v \in votes /\ v.author = a /\ v.block = b
          /\ w \in votes /\ w.author = a /\ w.block = c
          /\ a \notin misled
      BY <1>9 DEF Steady
    <2> HIDE DEF v, w
    <2> QED
      BY <2>1, <1>9 DEF VotesFounded, VotersInv, VotesReasoned
  <1>10. c # b
    <2>1. Extends(b, p)
      BY <1>7, ExtendsBase, ExtendsChild
    <2> QED
      BY <2>1, <1>5
  <1>11. BlockRound(c) > BlockRound(b)
    <2>1. BlockRound(c) # BlockRound(b)
      BY <1>5, <1>10, OneQCPerRound DEF VotersInv
    <2> QED
      BY <2>1, <1>5, <1>8
  <1>12. ~ Extends(q, p)
    BY <1>5, <1>7, ExtendsChild
  <1>13. BlockRound(q) < BlockRound(c) /\ GoodQC(q, votes)
    BY <1>9a DEF Founded
  <1>14. BlockRound(q) >= BlockRound(p)
    <2>1. CASE BlockRound(q) + 1 = BlockRound(c)
      BY <2>1, <1>8, <1>11
    <2>2. CASE \E tc \in TC : /\ BackedBy(tc, timeouts)
                              /\ tc.round + 1 = BlockRound(c)
                              /\ BlockRound(q) >= tc.high
      <3>1. PICK tc \in TC : /\ BackedBy(tc, timeouts)
                             /\ tc.round + 1 = BlockRound(c)
                             /\ BlockRound(q) >= tc.high
        BY <2>2
      <3>2. tc.round \in Nat /\ tc.high \in Nat
        BY HotStuffAssumption DEF TC, Round
      <3>3. BlockRound(b) <= tc.round
        BY <3>1, <3>2, <1>8, <1>11
      <3>4. BlockRound(p) <= tc.high
        BY <3>1, <3>3, TimeoutsKnowTheQC DEF VotersInv
      <3> QED
        BY <3>1, <3>2, <3>4, <1>8
    <2>3. CASE CarriesOn(a, c, votes)
      <3>1. BlockRound(b) < BlockRound(c)
        BY <1>8, <1>11
      <3>2. BlockRound(p) <= BlockRound(q)
        BY <2>3, <3>1, <1>9 DEF CarriesOn
      <3> QED
        BY <3>2, <1>8
    <2> QED
      BY <1>9a, <2>1, <2>2, <2>3 DEF Follows
  <1>15. CASE BlockRound(q) = BlockRound(p)
    <2>1. p # Genesis
      BY <1>7, <1>12, ExtendsBase
    <2>2. q # Genesis
      BY <2>1, <1>7, <1>15, <1>8, BlockFacts
    <2>3. SupportedBy(p, votes) /\ SupportedBy(q, votes)
      BY <2>1, <2>2, <1>9a DEF Founded, GoodQC
    <2>4. p = q
      BY <2>3, <1>15, OneQCPerRound DEF VotersInv
    <2> QED
      BY <2>4, <1>7, <1>12, ExtendsBase
  <1>16. CASE BlockRound(q) > BlockRound(p)
    <2>1. BlockRound(q) >= BlockRound(b)
      BY <1>16, <1>8
    <2>2. q # Genesis
      BY <1>16, <1>7, <1>8, BlockFacts
    <2>3. Stray(q)
      BY <2>1, <2>2, <1>12, <1>13 DEF GoodQC
    <2> QED
      BY <2>3, <1>6, <1>7, <1>8, <1>13
  <1> QED
    BY <1>8, <1>14, <1>15, <1>16

(* A block that honest authorities can know to have a QC has one.                   *)
LEMMA CertifiedSupported ==
    ASSUME TypeOK, NEW b, NEW V \in SUBSET {v.author : v \in {w \in votes : w.block = b}},
           HasQuorum(V)
    PROVE  SupportedBy(b, votes)
  <1>1. V \in SUBSET Honest
    BY DEF TypeOK
  <1>2. \A a \in V : [author |-> a, block |-> b] \in votes
    <2> SUFFICES ASSUME NEW a \in V PROVE [author |-> a, block |-> b] \in votes
      OBVIOUS
    <2>1. PICK v \in votes : v.author = a /\ v.block = b
      OBVIOUS
    <2>2. v = [author |-> a, block |-> b]
      BY <2>1 DEF TypeOK
    <2> QED
      BY <2>1, <2>2
  <1> QED
    BY <1>1, <1>2 DEF SupportedBy

(* The lock, of the blocks that have been voted for.                                *)
LEMMA InvariantLocks ==
    ASSUME CoreInv, NEW R \in SUBSET Honest, QuorumsMeetIn(Steady(R)), VotersInv(R)
    PROVE  LocksHold
  <1> SUFFICES ASSUME NEW b \in Voted, NEW c \in Voted, Certified(b), Certified(c),
                      BlockRound(Parent(b)) + 1 = BlockRound(b),
                      BlockRound(c) > BlockRound(b)
               PROVE  Extends(c, Parent(b))
    BY DEF LocksHold
  <1>1. b \in Seq(Header) /\ c \in Seq(Header)
    BY DEF CoreInv, TypeOK, Voted
  <1>2. SupportedBy(b, votes) /\ SupportedBy(c, votes)
    BY CertifiedSupported DEF CoreInv, Certified
  <1>3. BlockRound(b) \in Nat /\ BlockRound(c) \in Nat
    BY <1>1, BlockFacts, HotStuffAssumption
  <1> QED
    BY <1>1, <1>2, <1>3, LockHolds DEF CoreInv

(* What is committed at n is the parent of a block with a QC, in the round before.  *)
LEMMA CommittedFacts ==
    ASSUME CoreInv, NEW n \in Honest \ misled, NEW g \in Committed(n)
    PROVE  \E b \in Seq(Header) : /\ SupportedBy(b, votes)
                                  /\ g = Parent(b)
                                  /\ BlockRound(Parent(b)) + 1 = BlockRound(b)
  <1>1. PICK c \in store[n] : /\ g = Parent(Parent(c))
                              /\ BlockRound(Parent(Parent(c))) + 1 = BlockRound(Parent(c))
    BY DEF Committed
  <1>2. c \in Seq(Header) /\ Parent(c) \in Seq(Header)
    BY BlockFacts DEF CoreInv, TypeOK
  <1>3. GoodQC(Parent(c), votes)
    BY DEF CoreInv, CertificatesBacked
  <1>4. Parent(c) # Genesis
    <2>1. BlockRound(Parent(Parent(c))) \in Nat
      BY <1>2, BlockFacts, HotStuffAssumption
    <2> QED
      BY <2>1, <1>1, <1>2, BlockFacts
  <1> QED
    BY <1>1, <1>2, <1>3, <1>4 DEF GoodQC

(* No two nodes commit blocks of different chains: of the two QCs that committed       *)
(* them, the one of the later round extends both.                                        *)
LEMMA InvariantAgrees ==
    ASSUME CoreInv, NEW R \in SUBSET Honest, QuorumsMeetIn(Steady(R)), VotersInv(R)
    PROVE  OnOneChain
  <1> SUFFICES ASSUME NEW n \in Honest \ misled, NEW m \in Honest \ misled,
                      NEW g \in Committed(n), NEW h \in Committed(m)
               PROVE  Extends(g, h) \/ Extends(h, g)
    BY DEF OnOneChain
  <1>1. PICK b \in Seq(Header) : /\ SupportedBy(b, votes)
                                 /\ g = Parent(b)
                                 /\ BlockRound(Parent(b)) + 1 = BlockRound(b)
    BY CommittedFacts
  <1>2. PICK c \in Seq(Header) : /\ SupportedBy(c, votes)
                                 /\ h = Parent(c)
                                 /\ BlockRound(Parent(c)) + 1 = BlockRound(c)
    BY CommittedFacts
  <1>3. g \in Seq(Header) /\ h \in Seq(Header)
    BY <1>1, <1>2, BlockFacts
  <1>4. BlockRound(b) \in Nat /\ BlockRound(c) \in Nat
    BY BlockFacts, HotStuffAssumption
  <1>5. CASE BlockRound(c) >= BlockRound(b)
    <2>1. Extends(c, g)
      BY <1>1, <1>2, <1>5, LockHolds DEF CoreInv
    <2>2. Extends(c, h)
      BY <1>2, <1>3, ExtendsBase, ExtendsChild
    <2> QED
      BY <2>1, <2>2, <1>3, ExtendsTotal
  <1>6. CASE BlockRound(b) >= BlockRound(c)
    <2>1. Extends(b, h)
      BY <1>1, <1>2, <1>6, LockHolds DEF CoreInv
    <2>2. Extends(b, g)
      BY <1>1, <1>3, ExtendsBase, ExtendsChild
    <2> QED
      BY <2>1, <2>2, <1>3, ExtendsTotal
  <1> QED
    BY <1>4, <1>5, <1>6

LEMMA InvariantIncreases == CoreInv => RoundsIncrease
  BY DEF CoreInv, VotesFounded, Founded, RoundsIncrease

-----------------------------------------------------------------------------
(* The invariant holds initially.                                                 *)
LEMMA InitInvariant == Init => IInv
  <1> SUFFICES ASSUME Init PROVE IInv
    OBVIOUS
  <1> USE HotStuffAssumption DEF Init
  <1>1. Genesis \in Seq(Header) /\ BlockRound(Genesis) = 0 /\ Parent(Genesis) = Genesis
    BY DEF Genesis, BlockRound, Parent
  <1>2. TypeOK
    BY <1>1 DEF TypeOK, Round
  <1>3. HighBelow /\ StartsInRoundOne
    BY <1>1 DEF HighBelow, StartsInRoundOne
  <1>4. CertificatesBacked
    BY <1>1 DEF CertificatesBacked, GoodQC
  <1>5. VotesFounded /\ VotersInv(Honest)
    BY DEF VotesFounded, VotersInv, VotersRemember, OneVoteOf, LeadersRemember, VotesReasoned
  <1>6. AncestorsStored
    BY <1>1 DEF AncestorsStored
  <1> QED
    BY <1>2, <1>3, <1>4, <1>5, <1>6 DEF IInv, CoreInv

(* Votes and timeouts are never taken back, and so what they back stays backed.       *)
LEMMA BackingStays ==
    ASSUME NEW vs, NEW ws, vs \subseteq ws, NEW ts, NEW us, ts \subseteq us
    PROVE  /\ \A b : GoodQC(b, vs) => GoodQC(b, ws)
           /\ \A b : Founded(b, vs) => Founded(b, ws)
           /\ \A b : Follows(b, ts) => Follows(b, us)
  <1>1. \A b : GoodQC(b, vs) => GoodQC(b, ws)
    BY DEF GoodQC, SupportedBy
  <1>2. \A tc : BackedBy(tc, ts) => BackedBy(tc, us)
    BY DEF BackedBy
  <1> QED
    BY <1>1, <1>2 DEF Founded, Follows

(* The certificates that the guards of the actions ask for are backed.                *)
LEMMA VotesMakeQC ==
    ASSUME TypeOK, NEW n, NEW b, HasQuorum(VotersSeenBy(n, b))
    PROVE  GoodQC(b, votes)
  <1>1. VotersSeenBy(n, b) \in SUBSET {v.author : v \in {w \in votes : w.block = b}}
    BY DEF VotersSeenBy
  <1> QED
    BY <1>1, CertifiedSupported DEF GoodQC

LEMMA TimeoutsMakeTC ==
    ASSUME TypeOK, NEW tc \in TC, IsTC(tc)
    PROVE  BackedBy(tc, timeouts)
  <1> DEFINE atMost == {t \in timeouts : t.round = tc.round /\ t.high <= tc.high}
             V == {t.author : t \in atMost}
  <1>1. HasQuorum(V)
    BY DEF IsTC
  <1>2. V \in SUBSET Honest
    BY DEF TypeOK
  <1>3. \A a \in V : \E t \in timeouts :
           t.author = a /\ t.round = tc.round /\ t.high <= tc.high
    OBVIOUS
  <1> QED
    BY <1>1, <1>2, <1>3 DEF BackedBy

LEMMA PublicIsGood ==
    ASSUME CoreInv, NEW b, PublicQC(b)
    PROVE  GoodQC(b, votes)
  <1>1. CASE b = Genesis
    BY <1>1 DEF GoodQC
  <1>2. CASE \E p \in proposals : b = Parent(p.block)
    BY <1>2 DEF CoreInv, CertificatesBacked, Founded
  <1>3. CASE HasQuorum({v.author : v \in {w \in votes : w.block = b /\ ~ KeptBack(w)}})
    <2> DEFINE V == {v.author : v \in {w \in votes : w.block = b /\ ~ KeptBack(w)}}
    <2>1. V \in SUBSET {v.author : v \in {w \in votes : w.block = b}}
      OBVIOUS
    <2>2. HasQuorum(V)
      BY <1>3
    <2> HIDE DEF V
    <2> QED
      BY <2>1, <2>2, CertifiedSupported DEF GoodQC, CoreInv
  <1> QED
    BY <1>1, <1>2, <1>3 DEF PublicQC

(* A proposal that verifies.                                                         *)
GoodProposal(p) ==
    /\ p \in [block : Seq(Header), tc : TC \cup {NoTC}]
    /\ p.block # Genesis
    /\ GoodQC(Parent(p.block), votes)
    /\ p.tc = NoTC \/ BackedBy(p.tc, timeouts)

LEMMA VerifiedIsGood ==
    ASSUME CoreInv, NEW p \in Verified
    PROVE  GoodProposal(p)
  <1> DEFINE certified == {b \in {Genesis} \cup Voted : PublicQC(b)}
             tcs == {NoTC} \cup {tc \in TC : IsTC(tc)}
             headers == {h \in Header : Leader[h.round] \in Faulty /\ h.payload \in Offered[h.round]}
             onTop == {Proposal(Append(b, h), tc) : b \in certified, h \in headers, tc \in tcs}
             again == {Proposal(q.block, tc) : q \in proposals, tc \in tcs}
  <1>1. \A q \in proposals : /\ q \in [block : Seq(Header), tc : TC \cup {NoTC}]
                             /\ Founded(q.block, votes)
    BY DEF CoreInv, TypeOK, CertificatesBacked
  <1>2. \A tc \in tcs : tc \in TC \cup {NoTC} /\ (tc = NoTC \/ BackedBy(tc, timeouts))
    BY TimeoutsMakeTC DEF CoreInv
  <1>3. \A b \in certified : b \in Seq(Header) /\ GoodQC(b, votes)
    <2>1. Genesis \in Seq(Header)
      BY DEF Genesis
    <2>2. \A b \in Voted : b \in Seq(Header)
      BY DEF CoreInv, TypeOK, Voted
    <2> QED
      BY <2>1, <2>2, PublicIsGood
  <1>4. ASSUME p \in onTop PROVE GoodProposal(p)
    <2>1. PICK b \in certified, h \in headers, tc \in tcs : p = Proposal(Append(b, h), tc)
      BY <1>4
    <2>2. p = [block |-> Append(b, h), tc |-> tc]
      BY <2>1 DEF Proposal
    <2>3. h \in Header
      OBVIOUS
    <2> HIDE DEF certified, headers, tcs
    <2>4. b \in Seq(Header) /\ GoodQC(b, votes) /\ tc \in TC \cup {NoTC} /\ (tc = NoTC \/ BackedBy(tc, timeouts))
      BY <1>2, <1>3
    <2>5. /\ Append(b, h) \in Seq(Header) \ {Genesis}
          /\ Parent(Append(b, h)) = b
      BY <2>3, <2>4, NewBlock
    <2> QED
      BY <2>2, <2>4, <2>5 DEF GoodProposal
  <1>5. ASSUME p \in again PROVE GoodProposal(p)
    <2>1. PICK q \in proposals, tc \in tcs : p = Proposal(q.block, tc)
      BY <1>5
    <2>2. p = [block |-> q.block, tc |-> tc]
      BY <2>1 DEF Proposal
    <2>3. /\ q \in [block : Seq(Header), tc : TC \cup {NoTC}] /\ Founded(q.block, votes)
          /\ tc \in TC \cup {NoTC} /\ (tc = NoTC \/ BackedBy(tc, timeouts))
      BY <1>1, <1>2
    <2> QED
      BY <2>2, <2>3 DEF GoodProposal, Founded
  <1>6. ASSUME p \in proposals, p.tc = NoTC \/ IsTC(p.tc) PROVE GoodProposal(p)
    <2>1. p.tc = NoTC \/ p.tc \in TC
      BY <1>1, <1>6
    <2>2. p.tc = NoTC \/ BackedBy(p.tc, timeouts)
      BY <2>1, <1>6, TimeoutsMakeTC DEF CoreInv
    <2> QED
      BY <2>2, <1>1, <1>6 DEF GoodProposal, Founded
  <1>7. \/ p \in proposals /\ (p.tc = NoTC \/ IsTC(p.tc))
        \/ p \in onTop
        \/ p \in again
    BY DEF Verified, Forged
  <1> QED
    BY <1>4, <1>5, <1>6, <1>7

-----------------------------------------------------------------------------
(* The steps of a core, seen from the invariant.                                     *)

(* Why n may process b: the block verifies, n has just made it, or it is one that n has   *)
(* made before.                                                                           *)
Grounded(n, b, safe) ==
    /\ GoodQC(Parent(b), votes)
    /\ \/ /\ BlockRound(Parent(b)) <= BlockRound(high_qc'[n])
          /\ safe => Follows(b, timeouts)
       \/ Parent(b) = high_qc'[n]
       \/ \E p \in proposals : p.block = b /\ Leader[BlockRound(b)] = n

Proposed(n) ==
    \/ proposals' = proposals
    \/ \E p \in [block : Seq(Header), tc : TC \cup {NoTC}] :
         /\ p.block # Genesis
         /\ Parent(p.block) = high_qc'[n]
         /\ BlockRound(p.block) = round'[n]
         /\ Leader[BlockRound(p.block)] = n
         /\ proposals' = proposals \cup {p}

Processed(n) ==
    \/ UNCHANGED <<store, last_voted_round, votes>>
    \/ \E b \in Seq(Header) \ {Genesis}, safe \in BOOLEAN :
         /\ Parent(b) \in store[n]
         /\ StoreAndVote(n, b, round'[n], safe)
         /\ n \in misled' \/ Grounded(n, b, safe)

(* Every step of n but that of its timer: n may get to a later round and have a newer  *)
(* QC, it makes at most one proposal, and it processes at most one block after that.     *)
Moved(n) ==
    /\ timeouts' = timeouts
    /\ misled' \in {misled, misled \cup {n}}
    /\ round' = round \/ Booted(n)
    /\ round' \in [Honest -> Round]
    /\ high_qc' \in [Honest -> Seq(Header)]
    /\ \A m \in Honest \ {n} : round'[m] = round[m] /\ high_qc'[m] = high_qc[m]
    /\ GoodQC(high_qc'[n], votes)
    /\ BlockRound(high_qc[n]) <= BlockRound(high_qc'[n])
    /\ BlockRound(high_qc'[n]) < round'[n]
    /\ round[n] <= round'[n]
    /\ Proposed(n)
    /\ Processed(n)

(* What ProcessBlock does is one of the ways of Processed.                             *)
LEMMA ProcessBlockProcesses ==
    ASSUME NEW n, NEW p, p.block \in Seq(Header) \ {Genesis},
           ProcessBlock(n, p, round'[n]) \/ Suspended,
           Grounded(n, p.block, SafetyRule2(p.block, p.tc))
    PROVE  Processed(n)
  <1>1. SafetyRule2(p.block, p.tc) \in BOOLEAN
    BY DEF SafetyRule2, CanExtend
  <1>2. CASE UNCHANGED <<store, last_voted_round, votes>>
    BY <1>2 DEF Processed
  <1>3. CASE /\ Parent(p.block) \in store[n]
             /\ StoreAndVote(n, p.block, round'[n], SafetyRule2(p.block, p.tc))
    BY <1>1, <1>3 DEF Processed
  <1> QED
    BY <1>2, <1>3 DEF ProcessBlock, Suspended

(* What n proposes.                                                                   *)
LEMMA ProposesGood ==
    ASSUME NEW n \in Honest, NEW r \in Round, NEW qc \in Seq(Header), NEW tc \in TC \cup {NoTC},
           GoodQC(qc, votes), round'[n] = r, high_qc'[n] = qc,
           GenerateProposal(n, r, qc, tc)
    PROVE  Proposed(n) /\ Processed(n)
  <1>1. CASE Leader[r] # n
    BY <1>1 DEF GenerateProposal, Proposed, Processed
  <1>2. CASE Leader[r] = n
    <2>1. PICK x \in Offered[r] :
            LET p == Proposal(Append(qc, [round |-> r, payload |-> x]), tc)
            IN proposals' = proposals \cup {p} /\ ProcessBlock(n, p, r)
      BY <1>2 DEF GenerateProposal
    <2> DEFINE h == [round |-> r, payload |-> x]
               p == Proposal(Append(qc, h), tc)
    <2>2. h \in Header /\ h.round = r
      BY HotStuffAssumption DEF Header
    <2>5. proposals' = proposals \cup {p} /\ ProcessBlock(n, p, r)
      BY <2>1
    <2> HIDE DEF h
    <2>3. /\ Append(qc, h) \in Seq(Header) \ {Genesis}
          /\ Parent(Append(qc, h)) = qc
          /\ BlockRound(Append(qc, h)) = r
      BY <2>2, NewBlock
    <2>4. p.block = Append(qc, h) /\ p.tc = tc /\ p \in [block : Seq(Header), tc : TC \cup {NoTC}]
      BY <2>3 DEF Proposal
    <2> HIDE DEF p
    <2>6. Proposed(n)
      BY <1>2, <2>3, <2>4, <2>5 DEF Proposed
    <2>7. Grounded(n, p.block, SafetyRule2(p.block, p.tc))
      BY <2>3, <2>4 DEF Grounded
    <2>8. ProcessBlock(n, p, round'[n]) /\ p.block \in Seq(Header) \ {Genesis}
      BY <2>3, <2>4, <2>5
    <2>9. Processed(n)
      BY <2>7, <2>8, ProcessBlockProcesses
    <2> QED
      BY <2>6, <2>9
  <1> QED
    BY <1>1, <1>2

(* A core's round and its QC.                                                         *)
LEMMA CoreFacts ==
    ASSUME CoreInv, NEW n \in Honest
    PROVE  /\ high_qc[n] \in Seq(Header) /\ BlockRound(high_qc[n]) \in Nat
           /\ round[n] \in Round /\ round[n] \in Nat
           /\ BlockRound(high_qc[n]) < round[n]
           /\ GoodQC(high_qc[n], votes)
  <1>1. high_qc[n] \in Seq(Header) /\ round[n] \in Round
    BY DEF CoreInv, TypeOK
  <1>2. BlockRound(high_qc[n]) \in Nat
    BY <1>1, BlockFacts, HotStuffAssumption
  <1>3. round[n] \in Nat
    BY <1>1 DEF Round
  <1>4. BlockRound(high_qc[n]) < round[n] /\ GoodQC(high_qc[n], votes)
    BY DEF CoreInv, HighBelow, CertificatesBacked
  <1> QED
    BY <1>1, <1>2, <1>3, <1>4

(* A step that changes neither the rounds nor the QCs.                                *)
LEMMA StaysPut ==
    ASSUME CoreInv, NEW n \in Honest, UNCHANGED <<round, high_qc, timeouts>>,
           misled' \in {misled, misled \cup {n}}, Proposed(n), Processed(n)
    PROVE  Moved(n)
  <1>1. round' \in [Honest -> Round] /\ high_qc' \in [Honest -> Seq(Header)]
    BY DEF CoreInv, TypeOK
  <1> QED
    BY <1>1, CoreFacts DEF Moved

(* In the round in which n is, on top of its QC: at the start, and at each new start.    *)
LEMMA StartMoves ==
    ASSUME CoreInv, NEW n \in Honest, round[n] = 1, high_qc[n] = Genesis,
           GenerateProposal(n, 1, Genesis, NoTC), UNCHANGED <<round, high_qc, timeouts, misled>>
    PROVE  Moved(n)
  <1>1. Genesis \in Seq(Header) /\ GoodQC(Genesis, votes) /\ 1 \in Round
    BY HotStuffAssumption DEF Genesis, GoodQC, Round
  <1>2. round'[n] = 1 /\ high_qc'[n] = Genesis
    OBVIOUS
  <1>3. Proposed(n) /\ Processed(n)
    BY <1>1, <1>2, ProposesGood
  <1> QED
    BY <1>3, StaysPut

LEMMA BootMoves ==
    ASSUME CoreInv, NEW n \in Honest, Boot(n)
    PROVE  Moved(n)
  <1>1. round[n] = 1
    BY DEF Boot, CoreInv, StartsInRoundOne
  <1>2. high_qc[n] = Genesis
    <2>1. high_qc[n] \in Seq(Header) /\ BlockRound(high_qc[n]) \in Nat /\ BlockRound(high_qc[n]) < 1
      BY <1>1, CoreFacts
    <2>2. ~ (BlockRound(high_qc[n]) >= 1)
      BY <2>1
    <2> QED
      BY <2>1, <2>2, BlockFacts
  <1> QED
    BY <1>1, <1>2, StartMoves DEF Boot

(* What the pacemaker makes of a round.                                               *)
LEMMA AdvancedFacts ==
    ASSUME NEW r \in Nat, NEW c \in Nat
    PROVE  /\ Advanced(r, c) \in Nat
           /\ Advanced(r, c) >= r /\ Advanced(r, c) > c
           /\ c >= r => Advanced(r, c) = c + 1
           /\ Advanced(r, c) \in {r, c + 1}
  BY DEF Advanced

LEMMA HandleVoteMoves ==
    ASSUME CoreInv, NEW n \in Honest, NEW b \in Voted, HandleVote(n, b)
    PROVE  Moved(n)
  <1>1. b \in Seq(Header) /\ high_qc[n] \in Seq(Header) /\ round[n] \in Round
    BY CoreFacts DEF CoreInv, TypeOK, Voted
  <1>2. /\ BlockRound(b) \in Nat /\ BlockRound(high_qc[n]) \in Nat
        /\ round[n] \in Nat /\ BlockRound(high_qc[n]) < round[n]
    BY <1>1, BlockFacts, HotStuffAssumption, CoreFacts
  <1>3. /\ BlockRound(b) >= round[n] /\ BlockRound(b) < MaxRound
        /\ round' = [round EXCEPT ![n] = Advanced(@, BlockRound(b))]
        /\ high_qc' = [high_qc EXCEPT ![n] = HigherQC(b, @)]
        /\ GenerateProposal(n, round'[n], high_qc'[n], NoTC)
        /\ timeouts' = timeouts /\ misled' = misled
        /\ Booted(n) /\ HasQuorum(VotersSeenBy(n, b))
    BY DEF HandleVote
  <1>4. /\ round'[n] = BlockRound(b) + 1
        /\ \A m \in Honest \ {n} : round'[m] = round[m]
    BY <1>2, <1>3, AdvancedFacts DEF CoreInv, TypeOK
  <1>5. /\ high_qc'[n] = b
        /\ \A m \in Honest \ {n} : high_qc'[m] = high_qc[m]
    BY <1>2, <1>3 DEF CoreInv, TypeOK, HigherQC
  <1>6. BlockRound(b) + 1 \in Round
    BY <1>2, <1>3, HotStuffAssumption DEF Round
  <1>7. round' \in [Honest -> Round] /\ high_qc' \in [Honest -> Seq(Header)]
    BY <1>1, <1>3, <1>4, <1>5, <1>6 DEF CoreInv, TypeOK
  <1>8. GoodQC(b, votes)
    BY <1>3, VotesMakeQC DEF CoreInv
  <1>9. Proposed(n) /\ Processed(n)
    <2>1. GenerateProposal(n, BlockRound(b) + 1, b, NoTC)
      BY <1>3, <1>4, <1>5
    <2> QED
      BY <2>1, <1>1, <1>4, <1>5, <1>6, <1>8, ProposesGood
  <1>10. /\ BlockRound(high_qc[n]) <= BlockRound(high_qc'[n])
         /\ BlockRound(high_qc'[n]) < round'[n]
         /\ round[n] <= round'[n]
    BY <1>2, <1>3, <1>4, <1>5
  <1> QED
    BY <1>3, <1>4, <1>5, <1>7, <1>8, <1>9, <1>10 DEF Moved

(* A TC moves a core on, whoever sends it.                                            *)
LEMMA TCMoves ==
    ASSUME CoreInv, NEW n \in Honest, NEW tc \in TC, Booted(n), tc.round < MaxRound,
           round' = [round EXCEPT ![n] = Advanced(@, tc.round)],
           GenerateProposal(n, round'[n], high_qc[n], tc),
           UNCHANGED <<high_qc, timeouts, misled>>
    PROVE  Moved(n)
  <1>1. high_qc[n] \in Seq(Header) /\ round[n] \in Round /\ tc.round \in Round
    BY DEF CoreInv, TypeOK, TC
  <1>2. /\ BlockRound(high_qc[n]) \in Nat /\ tc.round \in Nat /\ GoodQC(high_qc[n], votes)
        /\ round[n] \in Nat /\ BlockRound(high_qc[n]) < round[n]
    BY <1>1, CoreFacts DEF Round
  <1>3. /\ round'[n] = Advanced(round[n], tc.round)
        /\ \A m \in Honest \ {n} : round'[m] = round[m]
    BY DEF CoreInv, TypeOK
  <1>4. round'[n] >= round[n] /\ round'[n] \in Nat /\ round'[n] \in {round[n], tc.round + 1}
    BY <1>2, <1>3, AdvancedFacts
  <1>5. round'[n] \in Round
    <2>1. tc.round + 1 \in Round
      BY <1>2, HotStuffAssumption DEF Round
    <2> QED
      BY <2>1, <1>1, <1>4
  <1>6. round' \in [Honest -> Round] /\ high_qc' \in [Honest -> Seq(Header)]
    BY <1>3, <1>5 DEF CoreInv, TypeOK
  <1>7. Proposed(n) /\ Processed(n)
    <2>1. high_qc'[n] = high_qc[n]
      OBVIOUS
    <2> QED
      BY <2>1, <1>1, <1>2, <1>5, ProposesGood
  <1>8. /\ BlockRound(high_qc[n]) <= BlockRound(high_qc'[n])
        /\ BlockRound(high_qc'[n]) < round'[n]
        /\ GoodQC(high_qc'[n], votes)
    BY <1>2, <1>4
  <1> QED
    BY <1>3, <1>4, <1>6, <1>7, <1>8 DEF Moved

LEMMA HandleProposalMoves ==
    ASSUME CoreInv, NEW n \in Honest, NEW p \in Verified, HandleProposal(n, p)
    PROVE  Moved(n)
  <1> DEFINE qc == Parent(p.block)
             r1 == Advanced(round[n], BlockRound(qc))
             r2 == IF p.tc = NoTC THEN r1 ELSE Advanced(r1, p.tc.round)
  <1>1. GoodProposal(p)
    BY VerifiedIsGood
  <1>2. qc \in Seq(Header) /\ high_qc[n] \in Seq(Header) /\ round[n] \in Round
    BY <1>1, BlockFacts DEF GoodProposal, CoreInv, TypeOK
  <1>3. /\ BlockRound(qc) \in Nat /\ BlockRound(high_qc[n]) \in Nat
        /\ round[n] \in Nat /\ BlockRound(high_qc[n]) < round[n]
    BY <1>2, BlockFacts, HotStuffAssumption, CoreFacts
  <1>4. p.tc # NoTC => p.tc.round \in Nat
    BY <1>1 DEF GoodProposal, TC, Round
  <1>5. /\ round' = [round EXCEPT ![n] = r2]
        /\ round'[n] \in Round
        /\ high_qc' = [high_qc EXCEPT ![n] = HigherQC(qc, @)]
        /\ ProcessBlock(n, p, round'[n]) \/ Suspended
        /\ proposals' = proposals /\ timeouts' = timeouts /\ misled' = misled
        /\ Booted(n)
    BY DEF HandleProposal
  <1>6. /\ round'[n] = r2
        /\ \A m \in Honest \ {n} : round'[m] = round[m]
        /\ round' \in [Honest -> Round]
    BY <1>5 DEF CoreInv, TypeOK
  <1>7. r2 > BlockRound(qc) /\ r2 >= round[n] /\ r2 \in Nat
    <2>1. r1 \in Nat /\ r1 > BlockRound(qc) /\ r1 >= round[n]
      BY <1>3, AdvancedFacts
    <2>2. CASE p.tc = NoTC
      BY <2>1, <2>2
    <2>3. CASE p.tc # NoTC
      <3> HIDE DEF r1
      <3>1. Advanced(r1, p.tc.round) \in Nat /\ Advanced(r1, p.tc.round) >= r1
        BY <2>1, <2>3, <1>4, AdvancedFacts
      <3> QED
        BY <3>1, <2>1, <2>3, <1>3
    <2> QED
      BY <2>2, <2>3
  <1>8. /\ high_qc'[n] \in {qc, high_qc[n]}
        /\ BlockRound(qc) <= BlockRound(high_qc'[n])
        /\ BlockRound(high_qc[n]) <= BlockRound(high_qc'[n])
        /\ \A m \in Honest \ {n} : high_qc'[m] = high_qc[m]
        /\ high_qc' \in [Honest -> Seq(Header)]
    BY <1>2, <1>3, <1>5 DEF CoreInv, TypeOK, HigherQC
  <1>9. GoodQC(high_qc'[n], votes) /\ BlockRound(high_qc'[n]) < round'[n]
    <2> HIDE DEF r2
    <2>1. GoodQC(qc, votes) /\ GoodQC(high_qc[n], votes)
      BY <1>1 DEF GoodProposal, CoreInv, CertificatesBacked
    <2> QED
      BY <2>1, <1>3, <1>6, <1>7, <1>8
  <1>10. Processed(n)
    <2>1. SafetyRule2(p.block, p.tc) => Follows(p.block, timeouts)
      <3>1. CASE BlockRound(Parent(p.block)) + 1 = BlockRound(p.block)
        BY <3>1 DEF Follows
      <3>2. CASE CanExtend(p.block, p.tc)
        <4>1. p.tc \in TC /\ BackedBy(p.tc, timeouts)
          BY <3>2, <1>1 DEF GoodProposal, CanExtend
        <4> QED
          BY <4>1, <3>2 DEF Follows, CanExtend
      <3> QED
        BY <3>1, <3>2 DEF SafetyRule2
    <2>2. Grounded(n, p.block, SafetyRule2(p.block, p.tc))
      BY <2>1, <1>1, <1>8 DEF Grounded, GoodProposal
    <2> QED
      BY <2>2, <1>1, <1>5, ProcessBlockProcesses DEF GoodProposal
  <1>11. round[n] <= round'[n]
    <2> HIDE DEF r2
    <2> QED
      BY <1>3, <1>6, <1>7
  <1> QED
    BY <1>5, <1>6, <1>8, <1>9, <1>10, <1>11 DEF Moved, Proposed

LEMMA ResumeOwnMoves ==
    ASSUME CoreInv, NEW n \in Honest, NEW p \in proposals, ResumeOwn(n, p)
    PROVE  Moved(n)
  <1>1. /\ Leader[BlockRound(p.block)] = n
        /\ ProcessBlock(n, p, round[n])
        /\ UNCHANGED <<round, high_qc, proposals, timeouts, misled>>
    BY DEF ResumeOwn
  <1>2. p.block \in Seq(Header) \ {Genesis} /\ GoodQC(Parent(p.block), votes)
    BY DEF CoreInv, TypeOK, CertificatesBacked, Founded
  <1>3. Grounded(n, p.block, SafetyRule2(p.block, p.tc))
    BY <1>1, <1>2 DEF Grounded
  <1>4. ProcessBlock(n, p, round'[n])
    BY <1>1
  <1>5. Processed(n)
    BY <1>2, <1>3, <1>4, ProcessBlockProcesses
  <1>6. Proposed(n)
    BY <1>1 DEF Proposed
  <1> QED
    BY <1>1, <1>5, <1>6, StaysPut

LEMMA HandleLoopBackMoves ==
    ASSUME CoreInv, NEW n \in Honest, NEW b \in StrayLoopBacks, HandleLoopBack(n, b)
    PROVE  Moved(n)
  <1>1. PICK safe \in BOOLEAN : StoreAndVote(n, b, round[n], safe)
    BY DEF HandleLoopBack
  <1>2. /\ Parent(b) \in store[n] /\ misled' = misled \cup {n}
        /\ UNCHANGED <<round, high_qc, proposals, timeouts>>
    BY DEF HandleLoopBack
  <1>3. b \in Seq(Header) \ {Genesis}
    BY StrayAssumption
  <1>4. StoreAndVote(n, b, round'[n], safe)
    BY <1>1, <1>2
  <1>5. Processed(n)
    BY <1>2, <1>3, <1>4 DEF Processed
  <1>6. Proposed(n)
    BY <1>2 DEF Proposed
  <1> QED
    BY <1>2, <1>5, <1>6, StaysPut

-----------------------------------------------------------------------------
(* The invariant is kept by every such step.                                          *)

LEMMA MovedKeepsTypes ==
    ASSUME CoreInv, NEW n \in Honest, Moved(n)
    PROVE  TypeOK' /\ AncestorsStored'
  <1>1. /\ store \in [Honest -> SUBSET Seq(Header)]
        /\ last_voted_round \in [Honest -> 0 .. MaxRound]
        /\ votes \subseteq [author : Honest, block : Seq(Header)]
    BY DEF CoreInv, TypeOK
  <1>2. /\ store' \in [Honest -> SUBSET Seq(Header)] /\ AncestorsStored'
        /\ last_voted_round' \in [Honest -> 0 .. MaxRound]
        /\ votes' \subseteq [author : Honest, block : Seq(Header)]
    <2>1. CASE UNCHANGED <<store, last_voted_round, votes>>
      BY <2>1, <1>1 DEF CoreInv, AncestorsStored
    <2>2. ASSUME NEW b \in Seq(Header), NEW safe, Parent(b) \in store[n],
                 StoreAndVote(n, b, round'[n], safe)
          PROVE  /\ store' \in [Honest -> SUBSET Seq(Header)] /\ AncestorsStored'
                 /\ last_voted_round' \in [Honest -> 0 .. MaxRound]
                 /\ votes' \subseteq [author : Honest, block : Seq(Header)]
      <3>1. store' = [store EXCEPT ![n] = @ \cup {b}]
        BY <2>2 DEF StoreAndVote
      <3>2. \A m \in Honest : store'[m] = IF m = n THEN store[n] \cup {b} ELSE store[m]
        BY <3>1, <1>1
      <3>3. store' \in [Honest -> SUBSET Seq(Header)]
        BY <3>1, <1>1
      <3>4. AncestorsStored'
        BY <3>2, <2>2 DEF CoreInv, AncestorsStored
      <3>5. BlockRound(b) \in 0 .. MaxRound
        BY BlockFacts
      <3>6. CASE UNCHANGED <<last_voted_round, votes>>
        BY <3>3, <3>4, <3>6, <1>1
      <3>7. CASE /\ last_voted_round' = [last_voted_round EXCEPT ![n] = BlockRound(b)]
                 /\ votes' = votes \cup {[author |-> n, block |-> b]}
        <4>1. last_voted_round' \in [Honest -> 0 .. MaxRound]
          BY <3>7, <3>5, <1>1
        <4>2. votes' \subseteq [author : Honest, block : Seq(Header)]
          BY <3>7, <1>1
        <4> QED
          BY <3>3, <3>4, <4>1, <4>2
      <3> QED
        BY <2>2, <3>6, <3>7 DEF StoreAndVote
    <2> QED
      BY <2>1, <2>2 DEF Moved, Processed
  <1>3. proposals' \subseteq [block : Seq(Header), tc : TC \cup {NoTC}]
    BY DEF CoreInv, TypeOK, Moved, Proposed
  <1>4. misled' \subseteq Honest
    BY DEF CoreInv, TypeOK, Moved
  <1> QED
    BY <1>2, <1>3, <1>4 DEF CoreInv, TypeOK, Moved

(* The vote that n may cast in such a step, and what it says of a voter that remembers.   *)
Casts(n, b) ==
    /\ BlockRound(b) = round'[n]
    /\ BlockRound(b) > last_voted_round[n]
    /\ last_voted_round' = [last_voted_round EXCEPT ![n] = BlockRound(b)]
    /\ votes' = votes \cup {[author |-> n, block |-> b]}

LEMMA MovedVotes ==
    ASSUME CoreInv, NEW n \in Honest, Moved(n)
    PROVE  \/ UNCHANGED <<last_voted_round, votes>>
           \/ \E b \in Seq(Header) :
                /\ Casts(n, b)
                /\ n \in misled' \/ (Founded(b, votes) /\ Grounded(n, b, TRUE))
  <1> SUFFICES ASSUME NEW b \in Seq(Header) \ {Genesis}, NEW safe \in BOOLEAN,
                      StoreAndVote(n, b, round'[n], safe),
                      n \in misled' \/ Grounded(n, b, safe),
                      ~ UNCHANGED <<last_voted_round, votes>>
               PROVE  Casts(n, b) /\ (n \in misled' \/ (Founded(b, votes) /\ Grounded(n, b, TRUE)))
    BY DEF Moved, Processed
  <1>1. Casts(n, b) /\ safe = TRUE
    BY DEF StoreAndVote, SafetyRule1, Casts
  <1>2. ASSUME Grounded(n, b, TRUE) PROVE Founded(b, votes)
    <2>1. GoodQC(Parent(b), votes)
      BY <1>2 DEF Grounded
    <2>2. high_qc'[n] \in Seq(Header) /\ BlockRound(high_qc'[n]) < round'[n] /\ Parent(b) \in Seq(Header)
      BY BlockFacts DEF Moved
    <2>3. /\ BlockRound(Parent(b)) \in Nat /\ BlockRound(high_qc'[n]) \in Nat
          /\ BlockRound(b) \in Nat
      BY <2>2, BlockFacts, HotStuffAssumption
    <2>4. CASE BlockRound(Parent(b)) <= BlockRound(high_qc'[n])
      BY <2>1, <2>2, <2>3, <2>4, <1>1 DEF Founded, Casts
    <2>5. CASE Parent(b) = high_qc'[n]
      BY <2>1, <2>2, <2>5, <1>1 DEF Founded, Casts
    <2>6. CASE \E p \in proposals : p.block = b
      BY <2>6 DEF CoreInv, CertificatesBacked
    <2> QED
      BY <1>2, <2>4, <2>5, <2>6 DEF Grounded
  <1> QED
    BY <1>1, <1>2

LEMMA MovedGrows ==
    ASSUME CoreInv, NEW n \in Honest, Moved(n)
    PROVE  votes \subseteq votes' /\ proposals \subseteq proposals' /\ timeouts' = timeouts
  <1>1. votes \subseteq votes'
    BY MovedVotes DEF Casts
  <1>2. proposals \subseteq proposals' /\ timeouts' = timeouts
    BY DEF Moved, Proposed
  <1> QED
    BY <1>1, <1>2

LEMMA MovedKeepsRounds ==
    ASSUME CoreInv, NEW n \in Honest, Moved(n)
    PROVE  HighBelow' /\ StartsInRoundOne'
  <1>1. HighBelow'
    BY DEF CoreInv, HighBelow, Moved
  <1>2. \A m \in Honest : Booted(m) => Booted(m)'
    BY MovedGrows DEF Booted
  <1>3. \A m \in Honest : round'[m] = round[m] \/ Booted(m)
    <2>1. \A m \in Honest \ {n} : round'[m] = round[m]
      BY DEF Moved
    <2>2. round'[n] = round[n] \/ Booted(n)
      BY DEF Moved
    <2> QED
      BY <2>1, <2>2
  <1>4. \A m \in Honest : Booted(m)' \/ round'[m] = 1
    BY <1>2, <1>3 DEF CoreInv, StartsInRoundOne
  <1> QED
    BY <1>1, <1>4 DEF StartsInRoundOne

LEMMA MovedKeepsCertificates ==
    ASSUME CoreInv, NEW n \in Honest, Moved(n)
    PROVE  CertificatesBacked'
  <1>1. /\ \A b : GoodQC(b, votes) => GoodQC(b, votes')
        /\ \A b : Founded(b, votes) => Founded(b, votes')
    BY MovedGrows, BackingStays
  <1>2. \A m \in Honest : GoodQC(high_qc'[m], votes)
    BY DEF Moved, CoreInv, CertificatesBacked
  <1>3. \A m \in Honest \ misled' : \A b \in store'[m] : GoodQC(Parent(b), votes)
    <2>1. misled \subseteq misled'
      BY DEF Moved
    <2>2. CASE store' = store
      BY <2>1, <2>2 DEF CoreInv, CertificatesBacked
    <2>3. ASSUME NEW b, store' = [store EXCEPT ![n] = @ \cup {b}],
                 n \in misled' \/ GoodQC(Parent(b), votes)
          PROVE  \A m \in Honest \ misled' : \A c \in store'[m] : GoodQC(Parent(c), votes)
      <3>1. \A m \in Honest : \A c \in store'[m] : c \in store[m] \/ (m = n /\ c = b)
        BY <2>3 DEF CoreInv, TypeOK
      <3> QED
        BY <3>1, <2>1, <2>3 DEF CoreInv, CertificatesBacked
    <2>4. \/ store' = store
          \/ \E b : /\ store' = [store EXCEPT ![n] = @ \cup {b}]
                    /\ n \in misled' \/ GoodQC(Parent(b), votes)
      BY DEF Moved, Processed, StoreAndVote, Grounded
    <2> QED
      BY <2>2, <2>3, <2>4
  <1>4. \A p \in proposals' : Founded(p.block, votes)
    <2> SUFFICES ASSUME NEW p \in proposals', p \notin proposals PROVE Founded(p.block, votes)
      BY DEF CoreInv, CertificatesBacked
    <2>1. /\ p.block # Genesis /\ Parent(p.block) = high_qc'[n] /\ BlockRound(p.block) = round'[n]
      BY DEF Moved, Proposed
    <2> QED
      BY <2>1 DEF Moved, Founded
  <1> QED
    BY <1>1, <1>2, <1>3, <1>4 DEF CertificatesBacked

LEMMA MovedKeepsVotes ==
    ASSUME CoreInv, NEW R \in SUBSET Honest, VotersInv(R), NEW n \in Honest, Moved(n)
    PROVE  VotesFounded' /\ VotersInv(R)'
  <1>1. /\ timeouts' = timeouts
        /\ \A m \in Honest \ {n} : high_qc'[m] = high_qc[m] /\ round'[m] = round[m]
        /\ BlockRound(high_qc[n]) <= BlockRound(high_qc'[n])
        /\ round[n] <= round'[n]
        /\ misled \subseteq misled'
    BY DEF Moved
  <1> DEFINE T == R \ misled'
  <1>T. Steady(R)' = T /\ T \subseteq Steady(R) /\ T \subseteq Honest
    BY <1>1 DEF Steady
  <1> HIDE DEF T
  <1>2. /\ votes \subseteq [author : Honest, block : Seq(Header)]
        /\ timeouts \subseteq [author : Honest, round : Round, high : 0 .. MaxRound - 1]
        /\ last_voted_round \in [Honest -> 0 .. MaxRound]
        /\ proposals \subseteq [block : Seq(Header), tc : TC \cup {NoTC}]
    BY DEF CoreInv, TypeOK
  <1>3. \A m \in Honest : /\ BlockRound(high_qc[m]) \in Nat /\ BlockRound(high_qc'[m]) \in Nat
                          /\ BlockRound(high_qc[m]) <= BlockRound(high_qc'[m])
                          /\ round[m] \in Nat /\ round'[m] \in Nat /\ round[m] <= round'[m]
    <2>1. \A m \in Honest : /\ high_qc[m] \in Seq(Header) /\ high_qc'[m] \in Seq(Header)
                            /\ round[m] \in Nat /\ round'[m] \in Nat
      BY DEF CoreInv, TypeOK, Moved, Round
    <2>2. \A m \in Honest : BlockRound(high_qc[m]) \in Nat /\ BlockRound(high_qc'[m]) \in Nat
      BY <2>1, BlockFacts, HotStuffAssumption
    <2> QED
      BY <2>1, <2>2, <1>1
  <1>4. \A b \in Seq(Header) : BlockRound(b) \in Nat /\ BlockRound(Parent(b)) \in Nat
    BY BlockFacts, HotStuffAssumption
  <1>5. \A m \in Honest : last_voted_round[m] \in Nat
    BY <1>2, HotStuffAssumption
  <1>6. \A v \in votes : v.author \in T =>
            BlockRound(Parent(v.block)) <= BlockRound(high_qc'[v.author])
    <2> SUFFICES ASSUME NEW v \in votes, v.author \in T
                 PROVE  BlockRound(Parent(v.block)) <= BlockRound(high_qc'[v.author])
      OBVIOUS
    <2>1. v.author \in Honest /\ v.block \in Seq(Header)
      BY <1>2
    <2>2. BlockRound(Parent(v.block)) <= BlockRound(high_qc[v.author])
      BY <1>T DEF VotersInv, VotersRemember
    <2> QED
      BY <2>1, <2>2, <1>3, <1>4
  (* The proposals, with the votes that there were.                              *)
  <1>7. \A p \in proposals' : \A a \in T : a = Leader[BlockRound(p.block)] =>
          /\ p.block \in Seq(Header)
          /\ BlockRound(p.block) <= round'[a]
          /\ BlockRound(Parent(p.block)) <= BlockRound(high_qc'[a])
          /\ CarriesOn(a, p.block, votes)
          /\ a = n => BlockRound(p.block) <= round'[n]
    <2> SUFFICES ASSUME NEW p \in proposals', NEW a \in T, a = Leader[BlockRound(p.block)]
                 PROVE  /\ p.block \in Seq(Header)
                        /\ BlockRound(p.block) <= round'[a]
                        /\ BlockRound(Parent(p.block)) <= BlockRound(high_qc'[a])
                        /\ CarriesOn(a, p.block, votes)
      OBVIOUS
    <2>1. CASE p \in proposals
      <3>1. p.block \in Seq(Header)
        BY <2>1, <1>2
      <3>2. /\ BlockRound(p.block) <= round[a]
            /\ BlockRound(Parent(p.block)) <= BlockRound(high_qc[a])
            /\ CarriesOn(a, p.block, votes)
        BY <2>1, <1>T DEF VotersInv, LeadersRemember
      <3>3. a \in Honest
        BY <1>T
      <3>4. BlockRound(p.block) <= round'[a]
        BY <3>1, <3>2, <3>3, <1>3, <1>4
      <3>5. BlockRound(Parent(p.block)) <= BlockRound(high_qc'[a])
        BY <3>1, <3>2, <3>3, <1>3, <1>4
      <3> QED
        BY <3>1, <3>2, <3>4, <3>5
    <2>2. CASE p \notin proposals
      <3>1. /\ p.block \in Seq(Header)
            /\ Parent(p.block) = high_qc'[n] /\ BlockRound(p.block) = round'[n]
            /\ Leader[BlockRound(p.block)] = n
        BY <2>2 DEF Moved, Proposed
      <3>2. CarriesOn(n, p.block, votes)
        BY <3>1, <1>6 DEF CarriesOn
      <3> QED
        BY <3>1, <3>2, <1>3
    <2> QED
      BY <2>1, <2>2
  <1>8. CASE UNCHANGED <<last_voted_round, votes>>
    <2>1. VotesFounded'
      BY <1>1, <1>8 DEF CoreInv, VotesFounded
    <2>2. OneVoteOf(R)'
      BY <1>8 DEF VotersInv, OneVoteOf
    <2>3. VotersRemember(R)'
      BY <1>1, <1>6, <1>8, <1>T DEF VotersInv, VotersRemember
    <2>4. LeadersRemember(R)'
      BY <1>7, <1>8, <1>T DEF LeadersRemember
    <2>5. VotesReasoned(R)'
      BY <1>1, <1>8, <1>T DEF VotersInv, VotesReasoned
    <2> QED
      BY <2>1, <2>2, <2>3, <2>4, <2>5 DEF VotersInv
  <1>9. ASSUME NEW b \in Seq(Header), Casts(n, b),
               n \in misled' \/ (Founded(b, votes) /\ Grounded(n, b, TRUE))
        PROVE  VotesFounded' /\ VotersInv(R)'
    <2> DEFINE w == [author |-> n, block |-> b]
    <2>1. w.author = n /\ w.block = b /\ votes' = votes \cup {w}
      BY <1>9 DEF Casts
    <2> HIDE DEF w
    <2>2. VotesFounded'
      <3>1. \A v \in votes' : v.author \notin misled' => Founded(v.block, votes)
        BY <2>1, <1>1, <1>9 DEF CoreInv, VotesFounded
      <3>2. \A c : Founded(c, votes) => Founded(c, votes')
        BY MovedGrows, BackingStays
      <3> QED
        BY <3>1, <3>2 DEF VotesFounded
    <2>3. /\ last_voted_round'[n] = BlockRound(b)
          /\ \A m \in Honest : last_voted_round[m] <= last_voted_round'[m]
          /\ \A m \in Honest : last_voted_round'[m] \in Nat
          /\ BlockRound(b) > last_voted_round[n] /\ BlockRound(b) = round'[n]
      BY <1>2, <1>4, <1>5, <1>9 DEF Casts
    <2>4. \A v \in votes : v.author \in R =>
            /\ BlockRound(v.block) <= last_voted_round[v.author]
            /\ v.author = n => BlockRound(v.block) < BlockRound(b)
      <3> SUFFICES ASSUME NEW v \in votes, v.author \in R
                   PROVE  /\ BlockRound(v.block) <= last_voted_round[v.author]
                          /\ v.author = n => BlockRound(v.block) < BlockRound(b)
        OBVIOUS
      <3>1. v.author \in Honest /\ v.block \in Seq(Header)
        BY <1>2
      <3>2. BlockRound(v.block) <= last_voted_round[v.author]
        BY DEF VotersInv, OneVoteOf
      <3> QED
        BY <3>1, <3>2, <1>4, <1>5, <2>3
    <2>5. OneVoteOf(R)'
      <3>1. \A v \in votes' : v.author \in R => BlockRound(v.block) <= last_voted_round'[v.author]
        <4>1. \A v \in votes : v.author \in R => BlockRound(v.block) <= last_voted_round'[v.author]
          <5> SUFFICES ASSUME NEW v \in votes, v.author \in R
                       PROVE  BlockRound(v.block) <= last_voted_round'[v.author]
            OBVIOUS
          <5>1. v.author \in Honest /\ v.block \in Seq(Header)
            BY <1>2
          <5>2. BlockRound(v.block) <= last_voted_round[v.author]
            BY <2>4
          <5> QED
            BY <5>1, <5>2, <1>4, <1>5, <2>3
        <4> QED
          BY <4>1, <2>1, <2>3, <1>4
      <3>2. \A v \in votes : v.author \in R /\ v.author = n => BlockRound(v.block) # BlockRound(b)
        BY <2>4, <1>2, <1>4
      <3> QED
        BY <2>1, <3>1, <3>2 DEF VotersInv, OneVoteOf
    <2>6. \A t \in timeouts : /\ t.author \in Honest /\ t.round \in Nat
                              /\ t.author \in T => t.round <= last_voted_round[t.author]
      BY <1>2, <1>T DEF VotersInv, VotersRemember, Round
    (* What the vote says of n, if n remembers.                                  *)
    <2>7. n \in T => /\ BlockRound(Parent(b)) <= BlockRound(high_qc'[n])
                     /\ Follows(b, timeouts) \/ CarriesOn(n, b, votes)
      <3> SUFFICES ASSUME n \in T
                   PROVE  /\ BlockRound(Parent(b)) <= BlockRound(high_qc'[n])
                          /\ Follows(b, timeouts) \/ CarriesOn(n, b, votes)
        OBVIOUS
      <3>1. Grounded(n, b, TRUE)
        BY <1>9 DEF T
      <3>2. CASE BlockRound(Parent(b)) <= BlockRound(high_qc'[n]) /\ Follows(b, timeouts)
        BY <3>2
      <3>3. CASE Parent(b) = high_qc'[n]
        <4>1. CarriesOn(n, b, votes)
          BY <3>3, <1>6 DEF CarriesOn
        <4> QED
          BY <3>3, <4>1, <1>3
      <3>4. CASE \E p \in proposals : p.block = b /\ Leader[BlockRound(b)] = n
        <4>1. PICK p \in proposals : p.block = b /\ Leader[BlockRound(b)] = n
          BY <3>4
        <4>2. p \in proposals'
          BY MovedGrows
        <4> QED
          BY <4>1, <4>2, <1>7
      <3> QED
        BY <3>1, <3>2, <3>3, <3>4 DEF Grounded
    <2>8. VotersRemember(R)'
      <3>1. \A v \in votes' : v.author \in T =>
                BlockRound(Parent(v.block)) <= BlockRound(high_qc'[v.author])
        BY <1>6, <2>1, <2>7
      <3>2. \A t \in timeouts' : t.author \in T => t.round <= last_voted_round'[t.author]
        BY <1>1, <1>5, <2>3, <2>6
      <3>3. \A v \in votes', t \in timeouts' :
               v.author \in T /\ v.author = t.author /\ BlockRound(v.block) <= t.round =>
                   BlockRound(Parent(v.block)) <= t.high
        <4>1. \A t \in timeouts : t.author \in T /\ t.author = n => ~ (BlockRound(b) <= t.round)
          BY <1>4, <1>5, <2>3, <2>6
        <4> QED
          BY <4>1, <1>1, <2>1, <1>T DEF VotersInv, VotersRemember
      <3> QED
        BY <3>1, <3>2, <3>3, <1>T DEF VotersRemember
    <2>9. LeadersRemember(R)'
      <3> SUFFICES ASSUME NEW p \in proposals', NEW a \in T, a = Leader[BlockRound(p.block)]
                   PROVE  CarriesOn(a, p.block, votes')
        BY <1>7, <1>T DEF LeadersRemember
      <3>1. /\ p.block \in Seq(Header) /\ CarriesOn(a, p.block, votes)
            /\ a = n => BlockRound(p.block) <= round'[n]
        BY <1>7
      <3>2. a = n => ~ (BlockRound(b) < BlockRound(p.block))
        BY <3>1, <2>3, <1>4
      <3> QED
        BY <3>1, <3>2, <2>1 DEF CarriesOn
    <2>10. VotesReasoned(R)'
      <3>1. \A v \in votes : v.author \in T =>
              Follows(v.block, timeouts) \/ CarriesOn(v.author, v.block, votes)
        BY <1>T DEF VotersInv, VotesReasoned
      <3>2. \A v \in votes : v.author \in T /\ v.author = n => ~ (BlockRound(b) < BlockRound(v.block))
        <4> SUFFICES ASSUME NEW v \in votes, v.author \in T, v.author = n
                     PROVE  ~ (BlockRound(b) < BlockRound(v.block))
          OBVIOUS
        <4>1. v.block \in Seq(Header) /\ v.author \in R
          BY <1>2 DEF T
        <4>2. BlockRound(v.block) < BlockRound(b)
          BY <4>1, <2>4
        <4> QED
          BY <4>1, <4>2, <1>4
      <3>3. \A v \in votes : v.author \in T /\ CarriesOn(v.author, v.block, votes) =>
              CarriesOn(v.author, v.block, votes')
        BY <3>2, <2>1 DEF CarriesOn
      <3>4. n \in T /\ CarriesOn(n, b, votes) => CarriesOn(n, b, votes')
        <4>1. ~ (BlockRound(b) < BlockRound(b))
          BY <1>4
        <4> QED
          BY <4>1, <2>1 DEF CarriesOn
      <3>5. \A v \in votes' : v.author \in T =>
              Follows(v.block, timeouts) \/ CarriesOn(v.author, v.block, votes')
        BY <3>1, <3>3, <3>4, <2>1, <2>7
      <3> QED
        BY <3>5, <1>1, <1>T DEF VotesReasoned
    <2> QED
      BY <2>2, <2>5, <2>8, <2>9, <2>10 DEF VotersInv
  <1> QED
    BY <1>8, <1>9, MovedVotes

LEMMA MovedKeepsInvariant ==
    ASSUME CoreInv, NEW R \in SUBSET Honest, VotersInv(R), NEW n \in Honest, Moved(n)
    PROVE  CoreInv' /\ VotersInv(R)'
  BY MovedKeepsTypes, MovedKeepsRounds, MovedKeepsCertificates, MovedKeepsVotes DEF CoreInv

-----------------------------------------------------------------------------
(* The invariant is kept by the timer.                                                *)

LEMMA LargerOfTwo ==
    ASSUME NEW i \in Nat, NEW j \in Nat
    PROVE  Max({i, j}) = IF i >= j THEN i ELSE j
  <1> DEFINE m == IF i >= j THEN i ELSE j
  <1>1. m \in {i, j} /\ \A y \in {i, j} : m >= y
    OBVIOUS
  <1>2. \A x \in {i, j} : (\A y \in {i, j} : x >= y) => x = m
    OBVIOUS
  <1> QED
    BY <1>1, <1>2 DEF Max

LEMMA TimerKeepsInvariant ==
    ASSUME CoreInv, NEW R \in SUBSET Honest, VotersInv(R), NEW n \in Honest, LocalTimeout(n)
    PROVE  CoreInv' /\ VotersInv(R)'
  <1> DEFINE t0 == [author |-> n, round |-> round[n], high |-> BlockRound(high_qc[n])]
             T == Steady(R)
  <1>1. /\ high_qc[n] \in Seq(Header) /\ BlockRound(high_qc[n]) \in Nat
        /\ round[n] \in Round /\ round[n] \in Nat
        /\ BlockRound(high_qc[n]) < round[n]
    BY CoreFacts
  <1>2. /\ votes \subseteq [author : Honest, block : Seq(Header)]
        /\ timeouts \subseteq [author : Honest, round : Round, high : 0 .. MaxRound - 1]
        /\ last_voted_round \in [Honest -> 0 .. MaxRound]
    BY DEF CoreInv, TypeOK
  <1>3. /\ last_voted_round' = [last_voted_round EXCEPT ![n] = Max({@, round[n]})]
        /\ timeouts' = timeouts \cup {t0}
        /\ UNCHANGED <<round, high_qc, store, proposals, votes, misled>>
    BY DEF LocalTimeout
  <1>4. /\ last_voted_round'[n] \in 0 .. MaxRound
        /\ last_voted_round'[n] >= round[n]
        /\ \A m \in Honest : /\ last_voted_round[m] \in Nat /\ last_voted_round'[m] \in Nat
                             /\ last_voted_round[m] <= last_voted_round'[m]
        /\ last_voted_round' \in [Honest -> 0 .. MaxRound]
    <2>1. last_voted_round[n] \in 0 .. MaxRound /\ round[n] \in 0 .. MaxRound
      BY <1>1, <1>2, HotStuffAssumption DEF Round
    <2>2. Max({last_voted_round[n], round[n]}) =
             IF last_voted_round[n] >= round[n] THEN last_voted_round[n] ELSE round[n]
      BY <2>1, LargerOfTwo, HotStuffAssumption
    <2>3. /\ Max({last_voted_round[n], round[n]}) \in 0 .. MaxRound
          /\ Max({last_voted_round[n], round[n]}) >= last_voted_round[n]
          /\ Max({last_voted_round[n], round[n]}) >= round[n]
      BY <2>1, <2>2, HotStuffAssumption
    <2>4. last_voted_round'[n] = Max({last_voted_round[n], round[n]})
      BY <1>2, <1>3
    <2>5. \A m \in Honest \ {n} : last_voted_round'[m] = last_voted_round[m]
      BY <1>2, <1>3
    <2>6. \A m \in Honest : last_voted_round[m] \in 0 .. MaxRound
      BY <1>2
    <2>7. last_voted_round' \in [Honest -> 0 .. MaxRound]
      BY <1>2, <1>3, <2>3
    <2> QED
      BY <2>3, <2>4, <2>5, <2>6, <2>7, HotStuffAssumption
  <1>5. BlockRound(high_qc[n]) \in 0 .. MaxRound - 1
    BY <1>1, HotStuffAssumption DEF Round
  <1>6. TypeOK'
    BY <1>1, <1>3, <1>4, <1>5 DEF CoreInv, TypeOK
  <1>7. HighBelow' /\ StartsInRoundOne' /\ AncestorsStored' /\ VotesFounded' /\ CertificatesBacked'
    BY <1>3 DEF CoreInv, HighBelow, StartsInRoundOne, Booted, AncestorsStored, VotesFounded,
                CertificatesBacked
  <1>T. Steady(R)' = T /\ T \subseteq R /\ T \subseteq Honest
    BY <1>3 DEF Steady
  <1> HIDE DEF T
  <1>8. \A v \in votes : /\ v.author \in Honest
                         /\ BlockRound(v.block) \in Nat
                         /\ v.author \in R => BlockRound(v.block) <= last_voted_round[v.author]
                         /\ v.author \in T =>
                              BlockRound(Parent(v.block)) <= BlockRound(high_qc[v.author])
    <2>1. \A v \in votes : v.author \in Honest /\ v.block \in Seq(Header)
      BY <1>2
    <2>2. \A b \in Seq(Header) : BlockRound(b) \in Nat
      BY BlockFacts, HotStuffAssumption
    <2> QED
      BY <2>1, <2>2 DEF VotersInv, OneVoteOf, VotersRemember, T
  <1>9. OneVoteOf(R)'
    <2>1. \A v \in votes : v.author \in R => BlockRound(v.block) <= last_voted_round'[v.author]
      BY <1>4, <1>8
    <2> QED
      BY <2>1, <1>3 DEF VotersInv, OneVoteOf
  <1>10. LeadersRemember(R)' /\ VotesReasoned(R)'
    <2>1. \A b : Follows(b, timeouts) => Follows(b, timeouts')
      BY <1>3, BackingStays
    <2>2. LeadersRemember(R)'
      BY <1>3 DEF VotersInv, LeadersRemember, Steady
    <2>3. VotesReasoned(R)'
      BY <2>1, <1>3 DEF VotersInv, VotesReasoned, Steady
    <2> QED
      BY <2>2, <2>3
  <1>11. VotersRemember(R)'
    <2>1. t0.author = n /\ t0.round = round[n] /\ t0.high = BlockRound(high_qc[n])
          /\ timeouts' = timeouts \cup {t0}
      BY <1>3
    <2> HIDE DEF t0
    <2>2. \A t \in timeouts : t.author \in T => t.round <= last_voted_round'[t.author]
      <3>1. \A t \in timeouts : t.author \in Honest /\ t.round \in Round
        BY <1>2
      <3>2. \A r \in Round : r \in Nat
        BY DEF Round
      <3>3. \A t \in timeouts : t.author \in T => t.round <= last_voted_round[t.author]
        BY DEF VotersInv, VotersRemember, T
      <3> QED
        BY <3>1, <3>2, <3>3, <1>4
    <2>3. \A t \in timeouts' : t.author \in T => t.round <= last_voted_round'[t.author]
      <3>1. t0.round <= last_voted_round'[t0.author]
        BY <1>4, <2>1
      <3> QED
        BY <3>1, <2>1, <2>2
    <2>4. \A v \in votes, t \in timeouts' :
             v.author \in T /\ v.author = t.author /\ BlockRound(v.block) <= t.round =>
                 BlockRound(Parent(v.block)) <= t.high
      <3>1. \A v \in votes, t \in timeouts :
               v.author \in T /\ v.author = t.author /\ BlockRound(v.block) <= t.round =>
                   BlockRound(Parent(v.block)) <= t.high
        BY DEF VotersInv, VotersRemember, T
      <3>2. \A v \in votes : v.author \in T /\ v.author = t0.author =>
                BlockRound(Parent(v.block)) <= t0.high
        BY <1>8, <2>1
      <3> QED
        BY <3>1, <3>2, <2>1
    <2> QED
      BY <1>3, <1>8, <1>T, <2>3, <2>4 DEF VotersRemember
  <1> QED
    BY <1>6, <1>7, <1>9, <1>10, <1>11 DEF CoreInv, VotersInv

-----------------------------------------------------------------------------
(* A core's step moves it, or it is its timer.                                         *)
LEMMA StepCases ==
    ASSUME CoreInv, NEW n \in Honest, Step(n)
    PROVE  Moved(n) \/ LocalTimeout(n)
  <1>1. CASE Boot(n)
    BY <1>1, BootMoves
  <1>2. ASSUME NEW b \in Voted, HandleVote(n, b) PROVE Moved(n)
    BY <1>2, HandleVoteMoves
  <1>3. ASSUME NEW tc \in TC, HandleTimeout(n, tc) PROVE Moved(n)
    BY <1>3, TCMoves DEF HandleTimeout
  <1>4. ASSUME NEW tc \in StrayTCs, HandleTC(n, tc) PROVE Moved(n)
    <2>1. tc \in TC
      BY StrayAssumption
    <2> QED
      BY <1>4, <2>1, TCMoves DEF HandleTC
  <1>5. ASSUME NEW p \in Verified, HandleProposal(n, p) PROVE Moved(n)
    BY <1>5, HandleProposalMoves
  <1>6. ASSUME NEW p \in proposals, ResumeOwn(n, p) PROVE Moved(n)
    BY <1>6, ResumeOwnMoves
  <1>7. ASSUME NEW b \in StrayLoopBacks, HandleLoopBack(n, b) PROVE Moved(n)
    BY <1>7, HandleLoopBackMoves
  <1> QED
    BY <1>1, <1>2, <1>3, <1>4, <1>5, <1>6, <1>7 DEF Step

LEMMA StepKeepsInvariant ==
    ASSUME CoreInv, NEW R \in SUBSET Honest, VotersInv(R), NEW n \in Honest, Step(n)
    PROVE  CoreInv' /\ VotersInv(R)'
  BY StepCases, MovedKeepsInvariant, TimerKeepsInvariant

(* A core's step leaves the rounds and the QCs of the others alone.                   *)
LEMMA StepIsOfOne ==
    ASSUME CoreInv, NEW n \in Honest, Step(n)
    PROVE  \A m \in Honest \ {n} : round'[m] = round[m] /\ high_qc'[m] = high_qc[m]
  BY StepCases DEF Moved, LocalTimeout

LEMMA NothingKeepsInvariant ==
    ASSUME CoreInv, NEW R, VotersInv(R), UNCHANGED vars
    PROVE  CoreInv' /\ VotersInv(R)'
  <1>1. CoreInv'
    BY DEF CoreInv, vars, TypeOK, HighBelow, StartsInRoundOne, Booted, CertificatesBacked, VotesFounded,
           AncestorsStored
  <1>2. VotersInv(R)'
    BY DEF vars, VotersInv, VotersRemember, OneVoteOf, LeadersRemember, VotesReasoned, Steady
  <1> QED
    BY <1>1, <1>2

(* The inductive invariant, of all steps of all cores: every QC that a core holds is      *)
(* backed by votes, whatever TCs and LoopBacks peers send, but those in the blocks that     *)
(* came by such a LoopBack; and what the voters carry on.                                     *)
THEOREM Invariant == Spec => []IInv
  <1>1. IInv /\ [Next]_vars => IInv'
    <2> SUFFICES ASSUME IInv, [Next]_vars PROVE CoreInv' /\ VotersInv(Honest)'
      BY DEF IInv
    <2>1. CoreInv /\ VotersInv(Honest)
      BY DEF IInv
    <2> QED
      BY <2>1, StepKeepsInvariant, NothingKeepsInvariant DEF Next
  <1> QED
    BY <1>1, InitInvariant, PTL DEF Spec

(* Less than a third of the stake is faulty, and so quorums share an honest authority:  *)
(* quorum_threshold is rounded the right way for every stake (config.rs:68-73).          *)
THEOREM HonestQuorums == QuorumsMeetIn(Honest)
  BY QuorumsMeetOutside, StakeAssumption, HotStuffAssumption DEF QuorumsMeetIn, Quorum, Honest

(* With less than a third in a set with the faulty, quorums share an authority outside.  *)
LEMMA QuorumsMeetWithout ==
    ASSUME NEW F \in SUBSET Honest, 3 * StakeOf(Faulty \cup F) < StakeOf(Authority)
    PROVE  QuorumsMeetIn(Honest \ F)
  <1>1. Faulty \cup F \in SUBSET Authority
    BY HotStuffAssumption DEF Honest
  <1> QED
    BY <1>1, QuorumsMeetOutside DEF QuorumsMeetIn, Quorum, Honest

LEMMA VotersVoteOnce == IInv => OneVotePerRound
  BY DEF IInv, CoreInv, TypeOK, VotersInv, OneVoteOf, OneVotePerRound

LEMMA FewMisledMeet == IInv /\ FewMisled => QuorumsMeetIn(Steady(Honest))
  BY QuorumsMeetWithout DEF IInv, CoreInv, TypeOK, FewMisled, Steady

(* The state variables of the cores keep their types; no core gets past MaxRound.      *)
THEOREM TypeCorrect == Spec => []TypeOK
  BY Invariant, PTL DEF IInv, CoreInv

(* "Ensure we won't vote for contradicting blocks" (core.rs:128), also by those whom peers *)
(* send blocks that nobody has verified.                                                     *)
THEOREM VotesOnce == Spec => []OneVotePerRound
  BY Invariant, VotersVoteOnce, PTL

(* A block is stored only after its parent (core.rs:285-316).                          *)
THEOREM StoresAncestors == Spec => []AncestorsStored
  BY Invariant, PTL DEF IInv, CoreInv

(* Rounds increase along the chains that are voted for (core.rs:108-127, 345), by all who  *)
(* have not processed a peer's LoopBack.                                                      *)
THEOREM Increasing == Spec => []RoundsIncrease
  <1>1. IInv => RoundsIncrease
    BY InvariantIncreases DEF IInv
  <1> QED
    BY <1>1, Invariant, PTL

(* The lock of the two-chain rule (core.rs:108-127): no QC for a block of another branch *)
(* in a later round than that of a block whose parent is in the round before, with less     *)
(* than a third of the stake faulty or misled, and whatever TCs peers send.                    *)
THEOREM Locks == Spec => []LockedBlocksStay
  <1>1. IInv => LockedBlocksStay
    BY FewMisledMeet, InvariantLocks DEF IInv, LockedBlocksStay
  <1> QED
    BY <1>1, Invariant, PTL

(* All that honest authorities commit lies on one chain (core.rs:303), under the same       *)
(* condition.                                                                                  *)
THEOREM Agreement == Spec => []CommitsAgree
  <1>1. IInv => CommitsAgree
    BY FewMisledMeet, InvariantAgrees DEF IInv, CommitsAgree
  <1> QED
    BY <1>1, Invariant, PTL

-----------------------------------------------------------------------------
(* Authorities that start again (HotStuffRestart).                                       *)

(* Who has started again, and not begun to receive, is where a new core is.              *)
RestartingAtStart ==
    /\ restarting \subseteq restarted
    /\ restarted \subseteq Honest
    /\ \A n \in restarting : round[n] = 1 /\ high_qc[n] = Genesis

RInv == CoreInv /\ VotersInv(Honest \ restarted) /\ RestartingAtStart

(* What a core forgets when it starts again is only said of the others.                  *)
LEMMA RestartKeeps ==
    ASSUME RInv, NEW n \in Honest, Restart(n)
    PROVE  RInv'
  <1>1. /\ round' = [round EXCEPT ![n] = 1]
        /\ last_voted_round' = [last_voted_round EXCEPT ![n] = 0]
        /\ high_qc' = [high_qc EXCEPT ![n] = Genesis]
        /\ restarted' = restarted \cup {n} /\ restarting' = restarting \cup {n}
        /\ UNCHANGED <<store, proposals, votes, timeouts, misled>>
    BY DEF Restart
  <1>2. Genesis \in Seq(Header) /\ BlockRound(Genesis) = 0 /\ GoodQC(Genesis, votes)
    BY DEF Genesis, BlockRound, GoodQC
  <1>3. /\ round \in [Honest -> Round] /\ last_voted_round \in [Honest -> 0 .. MaxRound]
        /\ high_qc \in [Honest -> Seq(Header)]
    BY DEF RInv, CoreInv, TypeOK
  <1>4. 1 \in Round /\ 0 \in 0 .. MaxRound
    BY HotStuffAssumption DEF Round
  <1>5. /\ round'[n] = 1 /\ last_voted_round'[n] = 0 /\ high_qc'[n] = Genesis
        /\ \A m \in Honest \ {n} : /\ round'[m] = round[m] /\ high_qc'[m] = high_qc[m]
                                   /\ last_voted_round'[m] = last_voted_round[m]
    BY <1>1, <1>3
  <1>6. /\ round' \in [Honest -> Round] /\ last_voted_round' \in [Honest -> 0 .. MaxRound]
        /\ high_qc' \in [Honest -> Seq(Header)]
    BY <1>1, <1>2, <1>3, <1>4
  <1>7. TypeOK'
    BY <1>1, <1>6 DEF RInv, CoreInv, TypeOK
  <1>8. HighBelow' /\ StartsInRoundOne'
    BY <1>1, <1>2, <1>5 DEF RInv, CoreInv, HighBelow, StartsInRoundOne, Booted
  <1>9. CertificatesBacked' /\ VotesFounded'
    BY <1>1, <1>2, <1>5 DEF RInv, CoreInv, CertificatesBacked, VotesFounded
  <1>10. AncestorsStored'
    BY <1>1 DEF RInv, CoreInv, AncestorsStored
  <1>11. VotersInv(Honest \ restarted)'
    <2>1. VotersInv(Honest \ restarted)
      BY DEF RInv
    <2>2. OneVoteOf(Honest \ restarted)'
      BY <2>1, <1>1, <1>5 DEF VotersInv, OneVoteOf
    <2>3. VotersRemember(Honest \ restarted)'
      BY <2>1, <1>1, <1>5 DEF VotersInv, VotersRemember, Steady
    <2>4. LeadersRemember(Honest \ restarted)'
      BY <2>1, <1>1, <1>5 DEF VotersInv, LeadersRemember, Steady
    <2>5. VotesReasoned(Honest \ restarted)'
      BY <2>1, <1>1 DEF VotersInv, VotesReasoned, Steady
    <2> QED
      BY <2>2, <2>3, <2>4, <2>5 DEF VotersInv
  <1>12. RestartingAtStart'
    BY <1>1, <1>5 DEF RInv, RestartingAtStart
  <1> QED
    BY <1>7, <1>8, <1>9, <1>10, <1>11, <1>12 DEF RInv, CoreInv

LEMMA RestartInductive ==
    ASSUME RInv, [RNext]_restartVars
    PROVE  RInv'
  <1>1. PICK R : R = Honest \ restarted
    OBVIOUS
  <1>2. R \in SUBSET Honest /\ CoreInv /\ VotersInv(R)
    BY <1>1 DEF RInv
  <1>3. ASSUME UNCHANGED restarted, VotersInv(R)' PROVE VotersInv(Honest \ restarted)'
    <2>1. (Honest \ restarted)' = R
      BY <1>1, <1>3
    <2> QED
      BY <1>3, <2>1 DEF VotersInv, VotersRemember, OneVoteOf, LeadersRemember, VotesReasoned, Steady
  <1>4. ASSUME NEW n \in Honest, Restart(n) PROVE RInv'
    BY <1>4, RestartKeeps
  <1>5. ASSUME NEW n \in Honest, Begin(n) PROVE RInv'
    <2>1. Moved(n)
      BY <1>5, StartMoves DEF Begin, RInv, RestartingAtStart
    <2>2. CoreInv' /\ VotersInv(R)'
      BY <1>2, <2>1, MovedKeepsInvariant
    <2>3. RestartingAtStart'
      BY <1>5 DEF Begin, RInv, RestartingAtStart
    <2>4. UNCHANGED restarted
      BY <1>5 DEF Begin
    <2> QED
      BY <1>3, <2>2, <2>3, <2>4 DEF RInv
  <1>6. ASSUME NEW n \in Honest \ restarting, Step(n), UNCHANGED <<restarting, restarted>>
        PROVE  RInv'
    <2>1. CoreInv' /\ VotersInv(R)'
      BY <1>2, <1>6, StepKeepsInvariant
    <2>2. \A m \in Honest \ {n} : round'[m] = round[m] /\ high_qc'[m] = high_qc[m]
      BY <1>6, StepIsOfOne DEF RInv
    <2>3. RestartingAtStart'
      BY <1>6, <2>2 DEF RInv, RestartingAtStart
    <2> QED
      BY <1>3, <1>6, <2>1, <2>3 DEF RInv
  <1>7. CASE UNCHANGED restartVars
    <2>1. UNCHANGED vars /\ UNCHANGED <<restarting, restarted>>
      BY <1>7 DEF restartVars
    <2>2. CoreInv' /\ VotersInv(R)'
      BY <1>2, <2>1, NothingKeepsInvariant
    <2>3. RestartingAtStart'
      BY <2>1 DEF RInv, RestartingAtStart, vars
    <2> QED
      BY <1>3, <2>1, <2>2, <2>3 DEF RInv
  <1> QED
    BY <1>4, <1>5, <1>6, <1>7 DEF RNext

THEOREM RestartInvariant == RSpec => []RInv
  <1>1. RInit => RInv
    <2> SUFFICES ASSUME RInit PROVE RInv
      OBVIOUS
    <2>1. IInv /\ restarting = {} /\ restarted = {}
      BY InitInvariant DEF RInit
    <2>2. Honest \ restarted = Honest
      BY <2>1
    <2> QED
      BY <2>1, <2>2 DEF RInv, IInv, RestartingAtStart
  <1>2. RInv /\ [RNext]_restartVars => RInv'
    BY RestartInductive
  <1> QED
    BY <1>1, <1>2, PTL DEF RSpec

(* Only who has started again can vote twice in a round (core.rs:65-102, 128).            *)
THEOREM RestartsForget == RSpec => []OnlyRestartsForget
  <1>1. RInv => OnlyRestartsForget
    BY DEF RInv, CoreInv, TypeOK, VotersInv, OneVoteOf, OnlyRestartsForget
  <1> QED
    BY <1>1, RestartInvariant, PTL

(* As long as less than a third of the stake is faulty, misled, or has started again,       *)
(* nothing that is committed is abandoned.                                                    *)
THEOREM RestartsAgree == RSpec => []RestartsKeepCommits
  <1>1. RInv => RestartsKeepCommits
    <2> SUFFICES ASSUME RInv, 3 * StakeOf(Faulty \cup misled \cup restarted) < StakeOf(Authority)
                 PROVE  OnOneChain /\ LocksHold
      BY DEF RestartsKeepCommits
    <2>1. PICK F : F = misled \cup restarted
      OBVIOUS
    <2>2. F \in SUBSET Honest /\ Faulty \cup misled \cup restarted = Faulty \cup F
      BY <2>1 DEF RInv, CoreInv, TypeOK, RestartingAtStart
    <2>3. QuorumsMeetIn(Honest \ F)
      BY <2>2, QuorumsMeetWithout
    <2>4. PICK R : R = Honest \ restarted
      OBVIOUS
    <2>5. Steady(R) = Honest \ F
      BY <2>1, <2>4 DEF Steady
    <2>6. CoreInv /\ R \in SUBSET Honest /\ QuorumsMeetIn(Steady(R)) /\ VotersInv(R)
      BY <2>3, <2>4, <2>5 DEF RInv
    <2> QED
      BY <2>6, InvariantLocks, InvariantAgrees
  <1> QED
    BY <1>1, RestartInvariant, PTL
=============================================================================
