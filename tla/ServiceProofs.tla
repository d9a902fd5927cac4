------------------------------ MODULE ServiceProofs ------------------------------
(***************************************************************************)
(* The services of a node around consensus, for every value of the constants:  *)
(* the store loses no wake-up and implements AtomicStore; gossip keeps the       *)
(* order of what a node sends on a topic; the mempool loses no payload and          *)
(* proposes what it knows; the ledger is made of whole blocks.  The four               *)
(* components share no variable; their proofs share the first section, about             *)
(* sequences: Picked is a recursive function, and what is known of it comes from           *)
(* its equations.                                                                            *)
(***************************************************************************)
EXTENDS Store, Gossip, Mempool, Ledger, WellFoundedInduction, TLAPS

(* A set of numbers has a least one.                                          *)
LEMMA SmallestExists ==
    ASSUME NEW T, T \subseteq Nat, T # {}
    PROVE  \E x \in T : \A y \in T : x <= y
  <1>1. PICK x \in T : \A y \in T : ~ (<<y, x>> \in OpToRel(<, Nat))
    BY NatLessThanWellFounded, WFMin
  <1>2. ASSUME NEW y \in T PROVE x <= y
    <2>1. ~ (<<y, x>> \in OpToRel(<, Nat))
      BY <1>1
    <2> QED BY <2>1 DEF OpToRel
  <1> QED BY <1>2

(* An iteration: f[0] is a, and f[j] comes from f[j - 1] by step[j].           *)
IsIteration(f, k, a, step) ==
    f = [j \in 0 .. k |-> IF j = 0 THEN a ELSE step[j][f[j - 1]]]

LEMMA IterationExists ==
    ASSUME NEW k \in Nat, NEW S, NEW a \in S, NEW step \in [1 .. k -> [S -> S]]
    PROVE  \E f \in [0 .. k -> S] : IsIteration(f, k, a, step)
  <1> DEFINE P(n) == \E f \in [0 .. n -> S] : IsIteration(f, n, a, step)
             bad == {n \in 0 .. k : ~ P(n)}
  <1>1. bad = {}
    <2> SUFFICES ASSUME bad # {} PROVE FALSE
      OBVIOUS
    <2>1. PICK n \in bad : \A m \in bad : n <= m
      <3>1. bad \subseteq Nat
        OBVIOUS
      <3> HIDE DEF bad
      <3> QED BY <3>1, SmallestExists
    <2>2. n # 0
      <3> DEFINE f == [j \in 0 .. 0 |-> a]
      <3>1. f \in [0 .. 0 -> S] /\ IsIteration(f, 0, a, step)
        BY DEF IsIteration
      <3> QED BY <3>1
    <2>3. n - 1 \in 0 .. k /\ n - 1 \notin bad /\ n \in 1 .. k
      BY <2>1, <2>2
    <2>4. PICK f \in [0 .. n - 1 -> S] : IsIteration(f, n - 1, a, step)
      BY <2>3
    <2> DEFINE g == [j \in 0 .. n |-> IF j = n THEN step[n][f[n - 1]] ELSE f[j]]
    <2>5. g \in [0 .. n -> S]
      BY <2>3, <2>4
    <2>6. \A j \in 0 .. n - 1 : f[j] = IF j = 0 THEN a ELSE step[j][f[j - 1]]
      BY <2>3, <2>4 DEF IsIteration
    <2>7. \A j \in 0 .. n : g[j] = IF j = 0 THEN a ELSE step[j][g[j - 1]]
      <3> SUFFICES ASSUME NEW j \in 0 .. n
                   PROVE  g[j] = IF j = 0 THEN a ELSE step[j][g[j - 1]]
        OBVIOUS
      <3>1. j # 0 => j - 1 \in 0 .. n - 1 /\ g[j - 1] = f[j - 1]
        BY <2>3
      <3>2. CASE j = n
        BY <2>3, <3>1, <3>2
      <3>3. CASE j # n
        BY <2>3, <2>6, <3>1, <3>3
      <3> QED BY <3>2, <3>3
    <2>8. IsIteration(g, n, a, step)
      <3> HIDE DEF g
      <3> DEFINE v(j) == IF j = 0 THEN a ELSE step[j][g[j - 1]]
      <3>1. g = [j \in 0 .. n |-> g[j]] /\ \A j \in 0 .. n : g[j] = v(j)
        BY <2>5, <2>7
      <3> HIDE DEF v
      <3>2. g = [j \in 0 .. n |-> v(j)]
        BY <3>1
      <3> QED BY <3>2 DEF IsIteration, v
    <2> QED BY <2>1, <2>5, <2>8
  <1> QED BY <1>1


-----------------------------------------------------------------------------
(* What Picked goes through: f[k] is what is picked of the front k elements.   *)
IsPicking(f, s, places) ==
    /\ DOMAIN f = 0 .. Len(s)
    /\ f[0] = << >>
    /\ \A k \in 1 .. Len(s) :
          f[k] = IF k \in places THEN Append(f[k - 1], s[k]) ELSE f[k - 1]

LEMMA PickingExists ==
    ASSUME NEW S, NEW s \in Seq(S), NEW places
    PROVE  \E f : /\ IsPicking(f, s, places) /\ Picked(s, places) = f[Len(s)]
                  /\ \A k \in 0 .. Len(s) : f[k] \in Seq(S)
  <1> DEFINE n == Len(s)
             one(x, k) == IF k \in places THEN Append(x, s[k]) ELSE x
             v(f, k) == IF k = 0 THEN << >>
                        ELSE IF k \in places THEN Append(f[k - 1], s[k]) ELSE f[k - 1]
             IsRest(f) == f = [k \in 0 .. n |-> v(f, k)]
             rest == CHOOSE f : IsRest(f)
             step == [k \in 1 .. n |-> [x \in Seq(S) |-> one(x, k)]]
  <1>1. n \in Nat /\ << >> \in Seq(S)
    OBVIOUS
  <1>2. \A k \in 1 .. n, x \in Seq(S) : one(x, k) \in Seq(S)
    OBVIOUS
  <1>3. step \in [1 .. n -> [Seq(S) -> Seq(S)]]
    <2> HIDE DEF one, n
    <2> QED BY <1>2
  <1>4. \A k \in 1 .. n, x \in Seq(S) : step[k][x] = one(x, k)
    <2> HIDE DEF one
    <2> QED OBVIOUS
  <1> HIDE DEF step
  <1>5. ASSUME NEW f \in [0 .. n -> Seq(S)], IsIteration(f, n, << >>, step)
        PROVE  IsRest(f)
    <2> DEFINE u(k) == IF k = 0 THEN << >> ELSE step[k][f[k - 1]]
    <2>1. ASSUME NEW k \in 0 .. n PROVE u(k) = v(f, k)
      <3>1. k # 0 => k \in 1 .. n /\ f[k - 1] \in Seq(S)
        BY <1>1
      <3> QED BY <1>4, <3>1
    <2>2. f = [k \in 0 .. n |-> u(k)]
      BY <1>5 DEF IsIteration
    <2> HIDE DEF u, v
    <2> QED BY <2>1, <2>2
  <1>6. \E f : IsRest(f)
    <2>1. PICK f \in [0 .. n -> Seq(S)] : IsIteration(f, n, << >>, step)
      <3> HIDE DEF n
      <3> QED BY <1>1, <1>3, IterationExists
    <2> HIDE DEF IsRest
    <2> QED BY <1>5, <2>1
  <1>7. IsRest(rest)
    <2> HIDE DEF IsRest
    <2> QED BY <1>6
  <1>8. Picked(s, places) = rest[n]
    BY DEF Picked
  <1> HIDE DEF rest
  <1>9. DOMAIN rest = 0 .. n /\ \A k \in 0 .. n : rest[k] = v(rest, k)
    <2> HIDE DEF v
    <2> QED BY <1>7
  <1>10. IsPicking(rest, s, places)
    <2>1. rest[0] = << >>
      BY <1>1, <1>9
    <2>2. ASSUME NEW k \in 1 .. n
          PROVE  rest[k] = IF k \in places THEN Append(rest[k - 1], s[k]) ELSE rest[k - 1]
      <3>1. k \in 0 .. n /\ k # 0
        BY <1>1
      <3>2. rest[k] = v(rest, k)
        BY <1>9, <3>1
      <3> QED BY <3>1, <3>2
    <2> QED BY <1>9, <2>1, <2>2 DEF IsPicking
  <1> DEFINE bad == {k \in 0 .. n : rest[k] \notin Seq(S)}
  <1>11. bad = {}
    <2> SUFFICES ASSUME bad # {} PROVE FALSE
      OBVIOUS
    <2>1. PICK k \in bad : \A i \in bad : k <= i
      <3>1. bad \subseteq Nat
        BY <1>1
      <3> HIDE DEF bad
      <3> QED BY <3>1, SmallestExists
    <2>2. k # 0
      BY <1>1, <1>9, <2>1
    <2>3. k - 1 \in 0 .. n /\ k - 1 \notin bad /\ k \in 1 .. n
      BY <1>1, <2>1, <2>2
    <2>4. rest[k] = one(rest[k - 1], k)
      BY <1>9, <2>2, <2>3
    <2> HIDE DEF one
    <2> QED BY <1>2, <2>1, <2>3, <2>4
  <1>12. \A k \in 0 .. n : rest[k] \in Seq(S)
    BY <1>11
  <1> QED BY <1>8, <1>10, <1>12

(* Two pickings are the same as far as their sequences and places are.          *)
LEMMA PickingsAgree ==
    ASSUME NEW S, NEW s \in Seq(S), NEW t \in Seq(S), NEW P, NEW Q, NEW f, NEW g,
           IsPicking(f, s, P), IsPicking(g, t, Q),
           NEW n \in 0 .. Len(s), n <= Len(t),
           \A k \in 1 .. n : s[k] = t[k] /\ (k \in P <=> k \in Q)
    PROVE  \A k \in 0 .. n : f[k] = g[k]
  <1> DEFINE bad == {k \in 0 .. n : f[k] # g[k]}
  <1>1. bad = {}
    <2> SUFFICES ASSUME bad # {} PROVE FALSE
      OBVIOUS
    <2>1. PICK k \in bad : \A i \in bad : k <= i
      <3>1. bad \subseteq Nat
        OBVIOUS
      <3> HIDE DEF bad
      <3> QED BY <3>1, SmallestExists
    <2>2. k # 0
      BY <2>1 DEF IsPicking
    <2>3. k - 1 \in 0 .. n /\ k - 1 \notin bad /\ k \in 1 .. n
      BY <2>1, <2>2
    <2>4. f[k - 1] = g[k - 1]
      BY <2>3
    <2>5. k \in 1 .. Len(s) /\ k \in 1 .. Len(t)
      BY <2>3
    <2>6. f[k] = g[k]
      BY <2>3, <2>4, <2>5 DEF IsPicking
    <2> QED BY <2>1, <2>6
  <1> QED BY <1>1

(* What is picked is a sequence of elements at the places.                       *)
LEMMA PickedElements ==
    ASSUME NEW S, NEW s \in Seq(S), NEW places
    PROVE  /\ Picked(s, places) \in Seq(S)
           /\ {Picked(s, places)[j] : j \in DOMAIN Picked(s, places)} =
                {s[k] : k \in places \cap DOMAIN s}
  <1> DEFINE n == Len(s)
  <1>1. PICK f : /\ IsPicking(f, s, places) /\ Picked(s, places) = f[n]
                 /\ \A k \in 0 .. n : f[k] \in Seq(S)
    BY PickingExists
  <1> DEFINE
             Has(x, k) == {x[j] : j \in DOMAIN x} = {s[i] : i \in places \cap 1 .. k}
             bad == {k \in 0 .. n : ~ Has(f[k], k)}
  <1>2. n \in Nat /\ DOMAIN s = 1 .. n /\ \A k \in 1 .. n : s[k] \in S
    OBVIOUS
  <1>a. f[0] = << >> /\ \A k \in 1 .. n :
          f[k] = IF k \in places THEN Append(f[k - 1], s[k]) ELSE f[k - 1]
    BY <1>1 DEF IsPicking
  <1> HIDE DEF n
  <1>3. bad = {}
    <2> SUFFICES ASSUME bad # {} PROVE FALSE
      OBVIOUS
    <2>1. PICK k \in bad : \A i \in bad : k <= i
      <3>1. bad \subseteq Nat
        BY <1>2
      <3> HIDE DEF bad
      <3> QED BY <3>1, SmallestExists
    <2>2. k # 0
      <3>1. Has(<< >>, 0)
        OBVIOUS
      <3> HIDE DEF Has
      <3> QED BY <1>a, <2>1, <3>1
    <2>3. k - 1 \in 0 .. n /\ k - 1 \notin bad /\ k \in 1 .. n
      <3> HIDE DEF Has
      <3> QED BY <1>2, <2>1, <2>2
    <2>4. Has(f[k - 1], k - 1)
      <3> HIDE DEF Has
      <3> QED BY <2>3
    <2>5. f[k - 1] \in Seq(S) /\ s[k] \in S
      BY <1>1, <1>2, <2>3
    <2>6. Has(f[k], k)
      <3>1. CASE k \in places
        <4> DEFINE x == f[k - 1]
        <4>1. f[k] = Append(x, s[k])
          BY <1>a, <2>3, <3>1
        <4>2. /\ DOMAIN Append(x, s[k]) = DOMAIN x \cup {Len(x) + 1}
              /\ Append(x, s[k])[Len(x) + 1] = s[k]
              /\ \A j \in DOMAIN x : Append(x, s[k])[j] = x[j]
          <5> HIDE DEF x
          <5>1. x \in Seq(S) /\ s[k] \in S
            BY <2>5 DEF x
          <5> QED BY <5>1
        <4>3. {f[k][j] : j \in DOMAIN f[k]} = {x[j] : j \in DOMAIN x} \cup {s[k]}
          BY <4>1, <4>2
        <4>4. places \cap 1 .. k = (places \cap 1 .. k - 1) \cup {k}
          BY <2>3, <3>1
        <4> QED BY <2>4, <4>3, <4>4
      <3>2. CASE k \notin places
        <4>1. f[k] = f[k - 1]
          BY <1>a, <2>3, <3>2
        <4>2. places \cap 1 .. k = places \cap 1 .. k - 1
          BY <2>3, <3>2
        <4> QED BY <2>4, <4>1, <4>2
      <3> QED BY <3>1, <3>2
    <2> QED BY <2>1, <2>6
  <1>4. Has(f[n], n)
    <2> HIDE DEF Has
    <2> QED BY <1>2, <1>3
  <1>5. places \cap 1 .. n = places \cap DOMAIN s /\ Picked(s, places) \in Seq(S)
    BY <1>1, <1>2
  <1> QED BY <1>1, <1>4, <1>5

(* Sequences put together, under names that lemmas can be cited for.             *)
Joined(x, y) == x \o y
Added(x, e) == Append(x, e)

LEMMA JoinedEmpty ==
    ASSUME NEW S, NEW x \in Seq(S)
    PROVE  Joined(x, << >>) = x /\ Joined(<< >>, x) = x
  BY DEF Joined

LEMMA JoinedAppend ==
    ASSUME NEW S, NEW x \in Seq(S), NEW y \in Seq(S), NEW e \in S
    PROVE  Added(Joined(x, y), e) = Joined(x, Added(y, e))
  BY DEF Joined, Added

(* One more element.                                                             *)
LEMMA PickedAppend ==
    ASSUME NEW S, NEW s \in Seq(S), NEW e \in S, NEW P, NEW Q,
           \A k \in 1 .. Len(s) : k \in P <=> k \in Q
    PROVE  Picked(Added(s, e), Q) =
             IF Len(s) + 1 \in Q THEN Added(Picked(s, P), e) ELSE Picked(s, P)
  <1> DEFINE t == Append(s, e)
             n == Len(s)
  <1>1. t \in Seq(S) /\ Len(t) = n + 1 /\ t[n + 1] = e /\ \A k \in 1 .. n : t[k] = s[k]
    OBVIOUS
  <1>2. n \in Nat
    OBVIOUS
  <1>3. PICK f : IsPicking(f, s, P) /\ Picked(s, P) = f[n]
    BY PickingExists
  <1> HIDE DEF t
  <1>4. PICK g : IsPicking(g, t, Q) /\ Picked(t, Q) = g[Len(t)]
    BY <1>1, PickingExists
  <1>5. \A k \in 0 .. n : f[k] = g[k]
    <2>1. n \in 0 .. Len(s) /\ n <= Len(t) /\ \A k \in 1 .. n : s[k] = t[k]
      BY <1>1, <1>2
    <2>2. \A k \in 1 .. n : s[k] = t[k] /\ (k \in P <=> k \in Q)
      BY <2>1
    <2>3. t \in Seq(S) /\ IsPicking(f, s, P) /\ IsPicking(g, t, Q)
      BY <1>1, <1>3, <1>4
    <2> HIDE DEF n
    <2> QED BY <2>1, <2>2, <2>3, PickingsAgree
  <1>6. g[n + 1] = IF n + 1 \in Q THEN Append(g[n], e) ELSE g[n]
    BY <1>1, <1>2, <1>4 DEF IsPicking
  <1>7. g[n] = f[n]
    BY <1>2, <1>5
  <1>8. Picked(t, Q) = g[n + 1]
    BY <1>1, <1>4
  <1> HIDE DEF n
  <1>9. Picked(t, Q) = IF n + 1 \in Q THEN Append(Picked(s, P), e) ELSE Picked(s, P)
    BY <1>3, <1>6, <1>7, <1>8
  <1> QED BY <1>9 DEF n, t, Added

(* One element less in front.                                                     *)
LEMMA PickedTail ==
    ASSUME NEW S, NEW s \in Seq(S), s # << >>, NEW P, NEW Q,
           \A k \in 2 .. Len(s) : k \in P <=> k - 1 \in Q
    PROVE  Picked(s, P) =
             Joined(IF 1 \in P THEN << Head(s) >> ELSE << >>, Picked(Tail(s), Q))
  <1> DEFINE t == Tail(s)
             n == Len(s)
             front == IF 1 \in P THEN << Head(s) >> ELSE << >>
  <1>1. /\ t \in Seq(S) /\ Len(t) = n - 1 /\ \A k \in 2 .. n : t[k - 1] = s[k]
        /\ n \in Nat /\ n >= 1 /\ Head(s) = s[1] /\ s[1] \in S
    OBVIOUS
  <1>2. PICK f : IsPicking(f, s, P) /\ Picked(s, P) = f[n]
    BY PickingExists
  <1> HIDE DEF t
  <1>3. PICK g : /\ IsPicking(g, t, Q) /\ Picked(t, Q) = g[Len(t)]
                 /\ \A k \in 0 .. Len(t) : g[k] \in Seq(S)
    <2>1. t \in Seq(S)
      BY <1>1
    <2> QED BY <2>1, PickingExists
  <1>a. \A k \in 1 .. n : f[k] = IF k \in P THEN Append(f[k - 1], s[k]) ELSE f[k - 1]
    BY <1>2 DEF IsPicking
  <1>b. \A k \in 2 .. n : (k \in P <=> k - 1 \in Q) /\ s[k] \in S
    OBVIOUS
  <1>4. front \in Seq(S) /\ front = IF 1 \in P THEN << s[1] >> ELSE << >>
    BY <1>1
  <1>5. f[1] = front
    <2>1. f[0] = << >> /\ 1 \in 1 .. n /\ 1 - 1 = 0
      BY <1>1, <1>2 DEF IsPicking
    <2>2. f[1] = IF 1 \in P THEN Append(<< >>, s[1]) ELSE << >>
      BY <1>a, <2>1
    <2>3. Append(<< >>, s[1]) = << s[1] >>
      BY <1>1
    <2> QED BY <1>4, <2>2, <2>3
  <1> HIDE DEF n, front
  <1> DEFINE bad == {k \in 0 .. Len(t) : f[k + 1] # Joined(front, g[k])}
  <1>6. bad = {}
    <2> SUFFICES ASSUME bad # {} PROVE FALSE
      OBVIOUS
    <2>1. PICK k \in bad : \A i \in bad : k <= i
      <3>1. bad \subseteq Nat
        BY <1>1
      <3> HIDE DEF bad
      <3> QED BY <3>1, SmallestExists
    <2>2. k # 0
      <3>1. g[0] = << >> /\ 0 + 1 = 1
        BY <1>3 DEF IsPicking
      <3>2. Joined(front, << >>) = front
        BY <1>4, JoinedEmpty
      <3> QED BY <1>5, <2>1, <3>1, <3>2
    <2>3. k \in 1 .. Len(t) /\ k + 1 \in 2 .. n /\ k - 1 \in 0 .. Len(t)
      BY <1>1, <2>1, <2>2
    <2>4. f[k] = Joined(front, g[k - 1]) /\ g[k - 1] \in Seq(S)
      <3>1. k - 1 \notin bad /\ k - 1 + 1 = k
        BY <2>1, <2>3
      <3> QED BY <1>3, <2>3, <3>1
    <2>5. f[k + 1] = IF k + 1 \in P THEN Append(f[k], s[k + 1]) ELSE f[k]
      <3>1. k + 1 \in 1 .. n /\ k + 1 - 1 = k
        BY <2>3
      <3> QED BY <1>a, <3>1
    <2>6. g[k] = IF k \in Q THEN Append(g[k - 1], t[k]) ELSE g[k - 1]
      BY <1>3, <2>3 DEF IsPicking
    <2>7. (k + 1 \in P <=> k \in Q) /\ t[k] = s[k + 1] /\ t[k] \in S
      <3>1. k + 1 - 1 = k
        BY <2>3
      <3> QED BY <1>1, <1>b, <2>3, <3>1
    <2> DEFINE x == f[k]
               x1 == f[k + 1]
               y == g[k - 1]
               y1 == g[k]
               e == t[k]
    <2>8. CASE k \in Q
      <3> HIDE DEF bad, x, x1, y, y1, e
      <3>1. x1 = Added(x, e) /\ y1 = Added(y, e)
        BY <2>5, <2>6, <2>7, <2>8 DEF x, x1, y, y1, e, Added
      <3>2. x = Joined(front, y) /\ front \in Seq(S) /\ y \in Seq(S) /\ e \in S
        BY <1>4, <2>4, <2>7 DEF x, y, e
      <3>3. Added(Joined(front, y), e) = Joined(front, Added(y, e))
        BY <3>2, JoinedAppend
      <3>4. x1 = Joined(front, y1)
        BY <3>1, <3>2, <3>3
      <3> QED BY <2>1, <3>4 DEF bad, x1, y1
    <2>9. CASE k \notin Q
      BY <2>1, <2>4, <2>5, <2>6, <2>7, <2>9
    <2> QED BY <2>8, <2>9
  <1>7. Len(t) \in 0 .. Len(t) /\ Len(t) + 1 = n
    BY <1>1
  <1>8. f[n] = Joined(front, g[Len(t)])
    BY <1>6, <1>7
  <1> QED BY <1>2, <1>3, <1>8 DEF front, t

LEMMA JoinedTyped ==
    ASSUME NEW S, NEW x \in Seq(S), NEW y \in Seq(S)
    PROVE  Joined(x, y) \in Seq(S)
  BY DEF Joined

LEMMA ElementTyped ==
    ASSUME NEW S, NEW x \in Seq(S), NEW e \in S
    PROVE  Added(x, e) \in Seq(S) /\ << e >> \in Seq(S) /\ << >> \in Seq(S)
  BY DEF Added

LEMMA JoinedAssociative ==
    ASSUME NEW S, NEW x \in Seq(S), NEW y \in Seq(S), NEW z \in Seq(S)
    PROVE  Joined(Joined(x, y), z) = Joined(x, Joined(y, z))
  BY DEF Joined


-----------------------------------------------------------------------------
(* The store.                                                                 *)

(* What the head of the channel can be, and where the rest of it goes.         *)
LEMMA HeadAndTail ==
    ASSUME channel \in Seq(StoreCommand), channel # << >>
    PROVE  /\ Head(channel) \in StoreCommand
           /\ Head(channel) = channel[1]
           /\ Tail(channel) \in Seq(StoreCommand)
           /\ Len(Tail(channel)) = Len(channel) - 1
           /\ \A n \in 2 .. Len(channel) : Tail(channel)[n - 1] = channel[n]
  OBVIOUS

(* A request in the channel is still there when a command is added.             *)
LEMMA PlacesStay ==
    ASSUME TypeOK, NEW command \in StoreCommand, Send(command), NEW r \in Request
    PROVE  PlacesOf(r) \subseteq PlacesOf(r)'
  BY DEF TypeOK, Send, PlacesOf

(* It is also still there when another command is taken.                        *)
LEMMA PlacesMove ==
    ASSUME TypeOK, channel # << >>, channel' = Tail(channel), NEW r \in Request,
           NEW n \in PlacesOf(r), n # 1
    PROVE  n - 1 \in PlacesOf(r)'
  BY HeadAndTail DEF TypeOK, PlacesOf

(* Of the requests that an answer reaches none waits any longer.                *)
LEMMA AnsweredFacts ==
    ASSUME TypeOK, NEW requests, NEW v \in Value \cup {Absent}
    PROVE  /\ Answered(requests, v) \in [Request -> Value \cup {Absent, New, Asked, Dropped}]
           /\ \A r \in Request : Answered(requests, v)[r] = Asked =>
                 reply[r] = Asked /\ r \notin requests
  BY StoreAssumption DEF TypeOK, Answered

(* The channel after a command is added.                                        *)
LEMMA SendType ==
    ASSUME TypeOK, NEW command \in StoreCommand, Send(command)
    PROVE  channel' \in Seq(StoreCommand) /\ Len(channel') <= ChannelCapacity
  BY StoreAssumption DEF TypeOK, Send

-----------------------------------------------------------------------------
(* The types.                                                                  *)
LEMMA TypeStep == TypeOK /\ [Next]_vars => TypeOK'
  <1> SUFFICES ASSUME TypeOK, [Next]_vars PROVE TypeOK'
    OBVIOUS
  <1> USE DEF TypeOK
  <1>1. ASSUME NEW k \in Key, NEW v \in Value, Write(k, v) PROVE TypeOK'
    <2>1. [kind |-> "Write", key |-> k, value |-> v] \in StoreCommand
      BY DEF StoreCommand, WriteCmd
    <2>2. channel' \in Seq(StoreCommand) /\ Len(channel') <= ChannelCapacity
      BY <1>1, <2>1, SendType DEF Write
    <2> QED BY <1>1, <2>2 DEF Write
  <1>2. ASSUME NEW k \in Key, NEW r \in Request, NEW kind \in {"Read", "NotifyRead"},
               Ask(r, kind, k)
        PROVE  TypeOK'
    <2>1. [kind |-> kind, key |-> k, sender |-> r] \in StoreCommand
      BY DEF StoreCommand, ReadCmd
    <2>2. channel' \in Seq(StoreCommand) /\ Len(channel') <= ChannelCapacity
      BY <1>2, <2>1, SendType DEF Ask
    <2> QED BY <1>2, <2>2 DEF Ask
  <1>3. ASSUME NEW r \in Request, Drop(r) PROVE TypeOK'
    BY <1>3 DEF Drop
  <1>4. CASE ServeWrite
    <2>1. Head(channel).key \in Key /\ Head(channel).value \in Value
      BY <1>4, HeadAndTail DEF ServeWrite, StoreCommand, WriteCmd, ReadCmd
    <2>2. reply' \in [Request -> Value \cup {Absent, New, Asked, Dropped}]
      BY <1>4, <2>1, AnsweredFacts DEF ServeWrite
    <2> QED BY <1>4, <2>1, <2>2, HeadAndTail, StoreAssumption DEF ServeWrite
  <1>5. CASE ServeRead
    <2>1. Head(channel).key \in Key
      BY <1>5, HeadAndTail DEF ServeRead, StoreCommand, WriteCmd, ReadCmd
    <2>2. reply' \in [Request -> Value \cup {Absent, New, Asked, Dropped}]
      BY <1>5, <2>1, AnsweredFacts DEF ServeRead
    <2>3. UNCHANGED <<db, obligations>> /\ channel # << >> /\ channel' = Tail(channel)
      BY <1>5 DEF ServeRead
    <2>4. channel' \in Seq(StoreCommand) /\ Len(channel') <= ChannelCapacity
      BY <2>3, HeadAndTail, StoreAssumption
    <2> QED BY <2>2, <2>3, <2>4
  <1>6. CASE ServeNotifyRead
    <2>1. Head(channel).key \in Key /\ Head(channel).sender \in Request
      BY <1>6, HeadAndTail DEF ServeNotifyRead, StoreCommand, WriteCmd, ReadCmd
    <2>2. reply' \in [Request -> Value \cup {Absent, New, Asked, Dropped}]
      BY <1>6, <2>1, AnsweredFacts DEF ServeNotifyRead
    <2>3. obligations' \in [Key -> SUBSET Request]
      BY <1>6, <2>1 DEF ServeNotifyRead
    <2> QED BY <1>6, <2>2, <2>3, HeadAndTail, StoreAssumption DEF ServeNotifyRead
  <1>7. CASE UNCHANGED vars
    BY <1>7 DEF vars
  <1> QED BY <1>1, <1>2, <1>3, <1>4, <1>5, <1>6, <1>7 DEF Next, Serve

(* The state variables keep their types, and the channel its capacity.        *)
THEOREM TypeCorrect == Spec => []TypeOK
  <1>1. Init => TypeOK
    BY StoreAssumption DEF Init, TypeOK
  <1> QED BY <1>1, TypeStep, PTL DEF Spec

-----------------------------------------------------------------------------
(* No wake-up is lost.  The property is inductive with the types.              *)

(* A waiting request is where it was, when the step neither serves a command nor *)
(* takes an obligation away.                                                      *)
LEMMA SendingWakes ==
    ASSUME TypeOK, NoLostWakeup, NEW command \in StoreCommand, Send(command),
           UNCHANGED <<db, obligations>>,
           \A r \in Request : reply'[r] = Asked =>
              reply[r] = Asked \/ (command.kind # "Write" /\ command.sender = r)
    PROVE  NoLostWakeup'
  <1>1. ASSUME NEW r \in Request, reply'[r] = Asked
        PROVE  PlacesOf(r)' # {} \/ \E k \in Key : r \in obligations'[k]
    <2>1. CASE reply[r] = Asked
      BY <2>1, PlacesStay DEF NoLostWakeup
    <2>2. CASE command.kind # "Write" /\ command.sender = r
      <3>1. Len(channel) + 1 \in PlacesOf(r)'
        BY <2>2 DEF Send, PlacesOf, TypeOK
      <3> QED BY <3>1
    <2> QED BY <1>1, <2>1, <2>2
  <1> QED BY <1>1 DEF NoLostWakeup

(* A request that still waits after a command was served is in the channel, unless *)
(* it was that command's or an obligation.                                          *)
LEMMA StillInChannel ==
    ASSUME TypeOK, channel # << >>, channel' = Tail(channel), NEW r \in Request,
           PlacesOf(r) # {}, Head(channel).kind # "Write" => Head(channel).sender # r
    PROVE  PlacesOf(r)' # {}
  <1>1. PICK n \in PlacesOf(r) : TRUE
    OBVIOUS
  <1>2. n # 1
    BY <1>1, HeadAndTail DEF PlacesOf, TypeOK
  <1> QED BY <1>2, PlacesMove

LEMMA WakeupStep == TypeOK /\ NoLostWakeup /\ [Next]_vars => NoLostWakeup'
  <1> SUFFICES ASSUME TypeOK, NoLostWakeup, [Next]_vars PROVE NoLostWakeup'
    OBVIOUS
  <1>1. ASSUME NEW k \in Key, NEW v \in Value, Write(k, v) PROVE NoLostWakeup'
    <2> DEFINE command == [kind |-> "Write", key |-> k, value |-> v]
    <2>1. command \in StoreCommand
      BY DEF StoreCommand, WriteCmd
    <2> QED BY <1>1, <2>1, SendingWakes DEF Write
  <1>2. ASSUME NEW k \in Key, NEW r \in Request, NEW kind \in {"Read", "NotifyRead"},
               Ask(r, kind, k)
        PROVE  NoLostWakeup'
    <2> DEFINE command == [kind |-> kind, key |-> k, sender |-> r]
    <2>1. command \in StoreCommand /\ command.kind # "Write" /\ command.sender = r
      BY DEF StoreCommand, ReadCmd
    <2>2. \A s \in Request : reply'[s] = Asked => reply[s] = Asked \/ s = r
      BY <1>2 DEF Ask, TypeOK
    <2> HIDE DEF command
    <2>3. Send(command) /\ UNCHANGED <<db, obligations>>
      BY <1>2 DEF Ask, command
    <2> QED BY <2>1, <2>2, <2>3, SendingWakes
  <1>3. ASSUME NEW r \in Request, Drop(r) PROVE NoLostWakeup'
    <2>1. \A s \in Request : reply'[s] = Asked => reply[s] = Asked
      BY <1>3, StoreAssumption DEF Drop, TypeOK
    <2>2. \A s \in Request : PlacesOf(s)' = PlacesOf(s)
      BY <1>3 DEF Drop, PlacesOf
    <2> QED BY <1>3, <2>1, <2>2 DEF Drop, NoLostWakeup
  <1>4. CASE ServeWrite
    <2> DEFINE k == Head(channel).key
    <2>1. k \in Key /\ Head(channel).value \in Value
      BY <1>4, HeadAndTail DEF ServeWrite, TypeOK, StoreCommand, WriteCmd, ReadCmd
    <2>2. \A s \in Request : reply'[s] = Asked => reply[s] = Asked /\ s \notin obligations[k]
      BY <1>4, <2>1, AnsweredFacts DEF ServeWrite
    <2>3. \A j \in Key : obligations'[j] = IF j = k THEN {} ELSE obligations[j]
      BY <1>4, <2>1 DEF ServeWrite, TypeOK
    <2>4. \A j \in Key : obligations'[j] # {} => db'[j] = Absent
      BY <1>4, <2>1, <2>3 DEF ServeWrite, TypeOK, NoLostWakeup
    <2>5. \A s \in Request : PlacesOf(s) # {} => PlacesOf(s)' # {}
      BY <1>4, StillInChannel DEF ServeWrite
    <2> QED BY <2>2, <2>3, <2>4, <2>5 DEF NoLostWakeup
  <1>5. CASE ServeRead
    <2>1. Head(channel).key \in Key /\ Head(channel).sender \in Request
      BY <1>5, HeadAndTail DEF ServeRead, TypeOK, StoreCommand, WriteCmd, ReadCmd
    <2>2. \A s \in Request : reply'[s] = Asked => reply[s] = Asked /\ s # Head(channel).sender
      BY <1>5, <2>1, AnsweredFacts DEF ServeRead, TypeOK
    <2>3. \A s \in Request : s # Head(channel).sender /\ PlacesOf(s) # {} => PlacesOf(s)' # {}
      BY <1>5, StillInChannel DEF ServeRead
    <2> QED BY <1>5, <2>2, <2>3 DEF ServeRead, NoLostWakeup
  <1>6. CASE ServeNotifyRead
    <2> DEFINE k == Head(channel).key
               r == Head(channel).sender
    <2>1. k \in Key /\ r \in Request
      BY <1>6, HeadAndTail DEF ServeNotifyRead, TypeOK, StoreCommand, WriteCmd, ReadCmd
    <2>2. \A s \in Request : s # r /\ PlacesOf(s) # {} => PlacesOf(s)' # {}
      BY <1>6, StillInChannel DEF ServeNotifyRead
    <2>3. CASE db[k] = Absent
      <3>1. \A j \in Key : obligations'[j] = IF j = k THEN obligations[j] \cup {r}
                                             ELSE obligations[j]
        BY <1>6, <2>1, <2>3 DEF ServeNotifyRead, TypeOK
      <3>2. UNCHANGED <<db, reply>>
        BY <1>6, <2>3 DEF ServeNotifyRead
      <3> QED BY <2>1, <2>2, <2>3, <3>1, <3>2 DEF NoLostWakeup
    <2>4. CASE db[k] # Absent
      <3>1. reply' = Answered({r}, db[k]) /\ UNCHANGED <<db, obligations>>
        BY <1>6, <2>4 DEF ServeNotifyRead
      <3>2. \A s \in Request : reply'[s] = Asked => reply[s] = Asked /\ s # r
        BY <2>1, <3>1, AnsweredFacts DEF TypeOK
      <3> QED BY <2>2, <3>1, <3>2 DEF NoLostWakeup
    <2> QED BY <2>3, <2>4
  <1>7. CASE UNCHANGED vars
    BY <1>7 DEF vars, NoLostWakeup, PlacesOf
  <1> QED BY <1>1, <1>2, <1>3, <1>4, <1>5, <1>6, <1>7 DEF Next, Serve

(* A notify_read that races the write of its key is answered by one of them, and no  *)
(* waiter of the synchronizers sleeps through the write it waits for (lib.rs:33-56).  *)
THEOREM WakeupsKept == Spec => []NoLostWakeup
  <1>1. Init => NoLostWakeup
    BY StoreAssumption DEF Init, NoLostWakeup
  <1> QED BY <1>1, TypeStep, TypeCorrect, WakeupStep, PTL DEF Spec

-----------------------------------------------------------------------------
(* The last and the first write to a key in a sequence of commands.  These are *)
(* Latest and FirstFrom for any sequence, so that what is said of them can be    *)
(* used of the channel before and after a step.                                   *)
Writes(s, k, i, j) == {n \in i .. j : s[n].kind = "Write" /\ s[n].key = k}

LastValue(d, s, k, j) ==
    LET writes == Writes(s, k, 1, j) IN
    IF writes = {} THEN d
    ELSE s[CHOOSE n \in writes : \A m \in writes : m <= n].value

FirstValue(s, k, i) ==
    LET writes == Writes(s, k, i, Len(s)) IN
    IF writes = {} THEN Asked
    ELSE s[CHOOSE n \in writes : \A m \in writes : n <= m].value

(* A set of places has a first and, if it is bounded, a last one.             *)
LEMMA SmallestPlace ==
    ASSUME NEW T, T \subseteq Nat, T # {}
    PROVE  \E x \in T : \A y \in T : x <= y
  <1>1. PICK x \in T : \A y \in T : ~ (<<y, x>> \in OpToRel(<, Nat))
    BY NatLessThanWellFounded, WFMin
  <1>2. ASSUME NEW y \in T PROVE x <= y
    <2>1. ~ (<<y, x>> \in OpToRel(<, Nat))
      BY <1>1
    <2> QED BY <2>1 DEF OpToRel
  <1> QED BY <1>2

LEMMA LargestPlace ==
    ASSUME NEW j \in Nat, NEW T, T \subseteq 1 .. j, T # {}
    PROVE  \E x \in T : \A y \in T : y <= x
  <1> DEFINE U == {j - x : x \in T}
  <1>1. U \subseteq Nat /\ U # {}
    <2>1. \A x \in T : x \in 1 .. j /\ j - x \in Nat
      OBVIOUS
    <2> QED BY <2>1
  <1>2. PICK u \in U : \A w \in U : u <= w
    BY <1>1, SmallestPlace
  <1>3. PICK x \in T : u = j - x
    OBVIOUS
  <1>4. ASSUME NEW y \in T PROVE y <= x
    <2>1. j - y \in U
      OBVIOUS
    <2>2. u <= j - y
      BY <1>2, <2>1
    <2> QED BY <1>3, <2>2
  <1> QED BY <1>4

(* The last write gives the last value; without one it is what was there before. *)
LEMMA LastIs ==
    ASSUME NEW d, NEW s, NEW k, NEW j \in Nat,
           NEW n \in Writes(s, k, 1, j), \A m \in Writes(s, k, 1, j) : m <= n
    PROVE  LastValue(d, s, k, j) = s[n].value
  <1> DEFINE w == Writes(s, k, 1, j)
             x == CHOOSE i \in w : \A m \in w : m <= i
  <1>1. x \in w /\ \A m \in w : m <= x
    OBVIOUS
  <1>2. w \subseteq Nat
    BY DEF Writes
  <1>3. x = n
    BY <1>1, <1>2
  <1> QED BY <1>3 DEF LastValue

LEMMA LastCases ==
    ASSUME NEW d, NEW s, NEW k, NEW j \in Nat
    PROVE  \/ Writes(s, k, 1, j) = {} /\ LastValue(d, s, k, j) = d
           \/ \E n \in Writes(s, k, 1, j) :
                 /\ \A m \in Writes(s, k, 1, j) : m <= n
                 /\ LastValue(d, s, k, j) = s[n].value
  <1>1. CASE Writes(s, k, 1, j) = {}
    BY <1>1 DEF LastValue
  <1>2. CASE Writes(s, k, 1, j) # {}
    <2>1. Writes(s, k, 1, j) \subseteq 1 .. j
      BY DEF Writes
    <2>2. PICK n \in Writes(s, k, 1, j) : \A m \in Writes(s, k, 1, j) : m <= n
      BY <1>2, <2>1, LargestPlace
    <2> QED BY <2>2, LastIs
  <1> QED BY <1>1, <1>2

(* The same of the first write.                                               *)
LEMMA FirstIs ==
    ASSUME NEW s, Len(s) \in Nat, NEW k, NEW i \in Nat,
           NEW n \in Writes(s, k, i, Len(s)), \A m \in Writes(s, k, i, Len(s)) : n <= m
    PROVE  FirstValue(s, k, i) = s[n].value
  <1> DEFINE w == Writes(s, k, i, Len(s))
             x == CHOOSE j \in w : \A m \in w : j <= m
  <1>1. x \in w /\ \A m \in w : x <= m
    OBVIOUS
  <1>2. w \subseteq Nat
    BY DEF Writes
  <1>3. x = n
    BY <1>1, <1>2
  <1> QED BY <1>3 DEF FirstValue

LEMMA FirstCases ==
    ASSUME NEW s, Len(s) \in Nat, NEW k, NEW i \in Nat
    PROVE  \/ Writes(s, k, i, Len(s)) = {} /\ FirstValue(s, k, i) = Asked
           \/ \E n \in Writes(s, k, i, Len(s)) :
                 /\ \A m \in Writes(s, k, i, Len(s)) : n <= m
                 /\ FirstValue(s, k, i) = s[n].value
  <1>1. CASE Writes(s, k, i, Len(s)) = {}
    BY <1>1 DEF FirstValue
  <1>2. CASE Writes(s, k, i, Len(s)) # {}
    <2>1. Writes(s, k, i, Len(s)) \subseteq Nat
      BY DEF Writes
    <2>2. PICK n \in Writes(s, k, i, Len(s)) : \A m \in Writes(s, k, i, Len(s)) : n <= m
      BY <1>2, <2>1, SmallestPlace
    <2> QED BY <2>2, FirstIs
  <1> QED BY <1>1, <1>2

(* The values depend on the places only.                                       *)
LEMMA SamePlaces ==
    ASSUME NEW s, Len(s) \in Nat, NEW k, NEW d
    PROVE  /\ \A i \in Nat, j \in Nat : Writes(s, k, 1, i) = Writes(s, k, 1, j)
                 => LastValue(d, s, k, i) = LastValue(d, s, k, j)
           /\ \A i \in Nat, j \in Nat : Writes(s, k, i, Len(s)) = Writes(s, k, j, Len(s))
                 => FirstValue(s, k, i) = FirstValue(s, k, j)
  <1>1. ASSUME NEW i \in Nat, NEW j \in Nat, Writes(s, k, 1, i) = Writes(s, k, 1, j)
        PROVE  LastValue(d, s, k, i) = LastValue(d, s, k, j)
    <2>1. CASE Writes(s, k, 1, i) = {} /\ LastValue(d, s, k, i) = d
      <3>1. LastValue(d, s, k, j) = d
        BY <1>1, <2>1, LastCases
      <3> QED BY <2>1, <3>1
    <2>2. ASSUME NEW n \in Writes(s, k, 1, i), \A m \in Writes(s, k, 1, i) : m <= n,
                 LastValue(d, s, k, i) = s[n].value
          PROVE  LastValue(d, s, k, j) = s[n].value
      BY <1>1, <2>2, LastIs
    <2> QED BY <2>1, <2>2, LastCases
  <1>2. ASSUME NEW i \in Nat, NEW j \in Nat,
               Writes(s, k, i, Len(s)) = Writes(s, k, j, Len(s))
        PROVE  FirstValue(s, k, i) = FirstValue(s, k, j)
    <2>1. CASE Writes(s, k, i, Len(s)) = {} /\ FirstValue(s, k, i) = Asked
      <3>1. FirstValue(s, k, j) = Asked
        BY <1>2, <2>1, FirstCases
      <3> QED BY <2>1, <3>1
    <2>2. ASSUME NEW n \in Writes(s, k, i, Len(s)),
                 \A m \in Writes(s, k, i, Len(s)) : n <= m,
                 FirstValue(s, k, i) = s[n].value
          PROVE  FirstValue(s, k, j) = s[n].value
      BY <1>2, <2>2, FirstIs
    <2> QED BY <2>1, <2>2, FirstCases
  <1> QED BY <1>1, <1>2

(* What the values can be.                                                    *)
LEMMA ValueTypes ==
    ASSUME NEW s \in Seq(StoreCommand), NEW k, NEW d \in Value \cup {Absent}
    PROVE  /\ \A j \in 0 .. Len(s) : LastValue(d, s, k, j) \in Value \cup {Absent}
           /\ \A i \in 1 .. Len(s) + 1 : FirstValue(s, k, i) \in Value \cup {Asked}
  <1>1. ASSUME NEW n \in 1 .. Len(s), s[n].kind = "Write" PROVE s[n].value \in Value
    <2>1. s[n] \in StoreCommand
      OBVIOUS
    <2> QED BY <1>1, <2>1 DEF StoreCommand, WriteCmd, ReadCmd
  <1>2. ASSUME NEW j \in 0 .. Len(s) PROVE LastValue(d, s, k, j) \in Value \cup {Absent}
    <2>1. CASE LastValue(d, s, k, j) = d
      BY <2>1
    <2>2. CASE \E n \in Writes(s, k, 1, j) : LastValue(d, s, k, j) = s[n].value
      BY <1>1, <2>2 DEF Writes
    <2> QED BY <2>1, <2>2, LastCases
  <1>3. ASSUME NEW i \in 1 .. Len(s) + 1 PROVE FirstValue(s, k, i) \in Value \cup {Asked}
    <2>1. CASE FirstValue(s, k, i) = Asked
      BY <2>1
    <2>2. CASE \E n \in Writes(s, k, i, Len(s)) : FirstValue(s, k, i) = s[n].value
      BY <1>1, <2>2 DEF Writes
    <2> QED BY <2>1, <2>2, FirstCases
  <1> QED BY <1>2, <1>3

-----------------------------------------------------------------------------
(* A command is added.                                                         *)
LEMMA LastOfAppend ==
    ASSUME NEW s \in Seq(StoreCommand), NEW c \in StoreCommand, NEW d, NEW k
    PROVE  /\ \A j \in 0 .. Len(s) :
                 LastValue(d, Append(s, c), k, j) = LastValue(d, s, k, j)
           /\ LastValue(d, Append(s, c), k, Len(s) + 1) =
                 IF c.kind = "Write" /\ c.key = k THEN c.value
                 ELSE LastValue(d, s, k, Len(s))
  <1> DEFINE t == Append(s, c)
  <1>1. /\ \A n \in 1 .. Len(s) : t[n] = s[n]
        /\ t[Len(s) + 1] = c
    OBVIOUS
  <1> HIDE DEF t
  <1>2. ASSUME NEW j \in 0 .. Len(s) PROVE LastValue(d, t, k, j) = LastValue(d, s, k, j)
    <2>1. Writes(t, k, 1, j) = Writes(s, k, 1, j)
      BY <1>1 DEF Writes
    <2>2. CASE Writes(s, k, 1, j) = {}
      BY <2>1, <2>2 DEF LastValue
    <2>3. ASSUME NEW n \in Writes(s, k, 1, j), \A m \in Writes(s, k, 1, j) : m <= n,
                 LastValue(d, s, k, j) = s[n].value
          PROVE  LastValue(d, t, k, j) = s[n].value
      <3>1. LastValue(d, t, k, j) = t[n].value
        BY <2>1, <2>3, LastIs
      <3> QED BY <1>1, <3>1 DEF Writes
    <2> QED BY <2>2, <2>3, LastCases
  <1>3. CASE c.kind = "Write" /\ c.key = k
    <2>1. Len(s) + 1 \in Writes(t, k, 1, Len(s) + 1)
      BY <1>1, <1>3 DEF Writes
    <2>2. \A m \in Writes(t, k, 1, Len(s) + 1) : m <= Len(s) + 1
      BY DEF Writes
    <2>3. LastValue(d, t, k, Len(s) + 1) = t[Len(s) + 1].value
      BY <2>1, <2>2, LastIs
    <2> QED BY <1>1, <1>2, <1>3, <2>3 DEF t
  <1>4. CASE ~ (c.kind = "Write" /\ c.key = k)
    <2>1. Writes(t, k, 1, Len(s) + 1) = Writes(t, k, 1, Len(s))
      BY <1>1, <1>4 DEF Writes
    <2>2. LastValue(d, t, k, Len(s) + 1) = LastValue(d, t, k, Len(s))
      <3>1. Len(t) \in Nat /\ Len(s) \in Nat /\ Len(s) + 1 \in Nat
        BY DEF t
      <3> QED BY <2>1, <3>1, SamePlaces
    <2> QED BY <1>2, <1>4, <2>2 DEF t
  <1> QED BY <1>3, <1>4

(* The first write stays the first; an added one is it if there was none.     *)
LEMMA FirstOfAppend ==
    ASSUME NEW s \in Seq(StoreCommand), NEW c \in StoreCommand, NEW k,
           NEW i \in 1 .. Len(s) + 1
    PROVE  FirstValue(Append(s, c), k, i) =
              IF FirstValue(s, k, i) = Asked /\ c.kind = "Write" /\ c.key = k
              THEN c.value ELSE FirstValue(s, k, i)
  <1> DEFINE t == Append(s, c)
  <1>1. /\ \A n \in 1 .. Len(s) : t[n] = s[n]
        /\ t[Len(s) + 1] = c
        /\ Len(t) = Len(s) + 1
    OBVIOUS
  <1> HIDE DEF t
  <1>2. CASE Writes(s, k, i, Len(s)) = {} /\ FirstValue(s, k, i) = Asked
    <2>1. CASE c.kind = "Write" /\ c.key = k
      <3>1. Len(s) + 1 \in Writes(t, k, i, Len(t))
        BY <1>1, <2>1 DEF Writes
      <3>2. \A m \in Writes(t, k, i, Len(t)) : Len(s) + 1 <= m
        BY <1>1, <1>2 DEF Writes
      <3>3. FirstValue(t, k, i) = t[Len(s) + 1].value
        BY <1>1, <3>1, <3>2, FirstIs
      <3> QED BY <1>1, <1>2, <2>1, <3>3 DEF t
    <2>2. CASE ~ (c.kind = "Write" /\ c.key = k)
      <3>1. Writes(t, k, i, Len(t)) = {}
        BY <1>1, <1>2, <2>2 DEF Writes
      <3>2. FirstValue(t, k, i) = Asked
        BY <3>1 DEF FirstValue
      <3> QED BY <1>2, <2>2, <3>2 DEF t
    <2> QED BY <2>1, <2>2
  <1>3. ASSUME NEW n \in Writes(s, k, i, Len(s)),
               \A m \in Writes(s, k, i, Len(s)) : n <= m,
               FirstValue(s, k, i) = s[n].value
        PROVE  FirstValue(t, k, i) = FirstValue(s, k, i) /\ FirstValue(s, k, i) # Asked
    <2>1. n \in Writes(t, k, i, Len(t)) /\ n \in 1 .. Len(s)
      BY <1>1 DEF Writes
    <2>2. ASSUME NEW m \in Writes(t, k, i, Len(t)) PROVE n <= m
      BY <1>1, <1>3, <2>1, <2>2 DEF Writes
    <2>3. FirstValue(t, k, i) = t[n].value
      <3>1. Len(t) \in Nat /\ i \in Nat
        BY <1>1
      <3>2. n \in Writes(t, k, i, Len(t)) /\ \A m \in Writes(t, k, i, Len(t)) : n <= m
        BY <2>1, <2>2
      <3> HIDE <2>1, <2>2
      <3> QED BY <3>1, <3>2, FirstIs
    <2>4. s[n] \in StoreCommand /\ s[n].kind = "Write"
      BY <2>1 DEF Writes
    <2>5. s[n].value \in Value
      BY <2>4 DEF StoreCommand, WriteCmd, ReadCmd
    <2> QED BY <1>1, <1>3, <2>1, <2>3, <2>5, StoreAssumption
  <1> QED BY <1>2, <1>3, FirstCases DEF t

(* There is no write behind the end.                                            *)
LEMMA FirstOfNone ==
    ASSUME NEW s \in Seq(StoreCommand), NEW k
    PROVE  FirstValue(s, k, Len(s) + 1) = Asked
  <1>1. Writes(s, k, Len(s) + 1, Len(s)) = {}
    BY DEF Writes
  <1> QED BY <1>1 DEF FirstValue

-----------------------------------------------------------------------------
(* The first command is taken.                                                  *)
LEMMA LastOfOne ==
    ASSUME NEW s \in Seq(StoreCommand), NEW d, NEW k
    PROVE  LastValue(d, s, k, 1) =
              IF s[1].kind = "Write" /\ s[1].key = k THEN s[1].value ELSE d
  <1>1. CASE s[1].kind = "Write" /\ s[1].key = k
    <2>1. 1 \in Writes(s, k, 1, 1) /\ \A m \in Writes(s, k, 1, 1) : m <= 1
      BY <1>1 DEF Writes
    <2> QED BY <1>1, <2>1, LastIs
  <1>2. CASE ~ (s[1].kind = "Write" /\ s[1].key = k)
    <2>1. Writes(s, k, 1, 1) = {}
      BY <1>2 DEF Writes
    <2> QED BY <1>2, <2>1 DEF LastValue
  <1> QED BY <1>1, <1>2

(* The writes behind the head keep their order, the head counts as done.      *)
LEMMA LastOfTail ==
    ASSUME NEW s \in Seq(StoreCommand), s # << >>, NEW d, NEW k, NEW j \in 1 .. Len(s)
    PROVE  LastValue(LastValue(d, s, k, 1), Tail(s), k, j - 1) = LastValue(d, s, k, j)
  <1> DEFINE t == Tail(s)
             e == LastValue(d, s, k, 1)
  <1>1. \A n \in 2 .. Len(s) : t[n - 1] = s[n]
    OBVIOUS
  <1>2. \A n \in 1 .. j - 1 : t[n] = s[n + 1]
    OBVIOUS
  <1> HIDE DEF t, e
  <1>3. CASE Writes(t, k, 1, j - 1) = {} /\ LastValue(e, t, k, j - 1) = e
    <2>1. ASSUME NEW n \in 2 .. j PROVE n \notin Writes(s, k, 1, j)
      <3>1. n - 1 \notin Writes(t, k, 1, j - 1) /\ n - 1 \in 1 .. j - 1
        BY <1>3
      <3> QED BY <1>1, <3>1 DEF Writes
    <2>2. Writes(s, k, 1, j) = Writes(s, k, 1, 1)
      BY <2>1 DEF Writes
    <2>3. LastValue(d, s, k, j) = LastValue(d, s, k, 1)
      <3>1. Len(s) \in Nat /\ j \in Nat
        OBVIOUS
      <3> QED BY <2>2, <3>1, SamePlaces
    <2> QED BY <1>3, <2>3 DEF e, t
  <1>4. ASSUME NEW n \in Writes(t, k, 1, j - 1),
               \A m \in Writes(t, k, 1, j - 1) : m <= n,
               LastValue(e, t, k, j - 1) = t[n].value
        PROVE  LastValue(e, t, k, j - 1) = LastValue(d, s, k, j)
    <2>1. n \in 1 .. j - 1 /\ n + 1 \in Writes(s, k, 1, j)
      BY <1>2 DEF Writes
    <2>2. ASSUME NEW m \in Writes(s, k, 1, j) PROVE m <= n + 1
      <3>1. CASE m = 1
        BY <2>1, <3>1
      <3>2. CASE m # 1
        <4>1. m \in 2 .. j /\ m - 1 \in 1 .. j - 1
          BY <3>2 DEF Writes
        <4>2. t[m - 1] = s[m]
          BY <1>1, <4>1
        <4>3. m - 1 \in Writes(t, k, 1, j - 1)
          BY <4>1, <4>2 DEF Writes
        <4> QED BY <1>4, <2>1, <4>1, <4>3
      <3> QED BY <3>1, <3>2
    <2>3. LastValue(d, s, k, j) = s[n + 1].value
      BY <2>1, <2>2, LastIs
    <2> QED BY <1>2, <1>4, <2>1, <2>3
  <1>5. j - 1 \in Nat
    OBVIOUS
  <1> QED BY <1>3, <1>4, <1>5, LastCases DEF t, e

(* The same of the first write, and what the head adds to it.                 *)
LEMMA FirstOfTail ==
    ASSUME NEW s \in Seq(StoreCommand), s # << >>, NEW k, NEW i \in 2 .. Len(s) + 1
    PROVE  FirstValue(Tail(s), k, i - 1) = FirstValue(s, k, i)
  <1> DEFINE t == Tail(s)
  <1>1. /\ \A n \in 2 .. Len(s) : t[n - 1] = s[n]
        /\ \A n \in 1 .. Len(s) - 1 : t[n] = s[n + 1]
        /\ Len(t) = Len(s) - 1
        /\ Len(t) \in Nat
    OBVIOUS
  <1> HIDE DEF t
  <1>2. CASE Writes(s, k, i, Len(s)) = {} /\ FirstValue(s, k, i) = Asked
    <2>1. ASSUME NEW n \in Writes(t, k, i - 1, Len(t)) PROVE FALSE
      <3>1. n \in 1 .. Len(s) - 1 /\ n + 1 \in i .. Len(s)
        BY <1>1 DEF Writes
      <3>2. n + 1 \in Writes(s, k, i, Len(s))
        BY <1>1, <3>1 DEF Writes
      <3> QED BY <1>2, <3>2
    <2>2. FirstValue(t, k, i - 1) = Asked
      BY <2>1 DEF FirstValue
    <2> QED BY <1>2, <2>2 DEF t
  <1>3. ASSUME NEW n \in Writes(s, k, i, Len(s)),
               \A m \in Writes(s, k, i, Len(s)) : n <= m,
               FirstValue(s, k, i) = s[n].value
        PROVE  FirstValue(t, k, i - 1) = FirstValue(s, k, i)
    <2>1. n \in 2 .. Len(s) /\ n \in i .. Len(s)
      BY DEF Writes
    <2>2. t[n - 1] = s[n]
      BY <1>1, <2>1
    <2>3. n - 1 \in Writes(t, k, i - 1, Len(t))
      BY <1>1, <2>1, <2>2 DEF Writes
    <2>4. ASSUME NEW m \in Writes(t, k, i - 1, Len(t)) PROVE n - 1 <= m
      <3>1. m \in 1 .. Len(s) - 1 /\ m + 1 \in i .. Len(s)
        BY <1>1 DEF Writes
      <3>2. m + 1 \in Writes(s, k, i, Len(s))
        BY <1>1, <3>1 DEF Writes
      <3> QED BY <1>3, <2>1, <3>1, <3>2
    <2>5. FirstValue(t, k, i - 1) = t[n - 1].value
      BY <1>1, <2>3, <2>4, FirstIs
    <2> QED BY <1>3, <2>2, <2>5 DEF t
  <1>4. Len(s) \in Nat /\ i \in Nat
    OBVIOUS
  <1> QED BY <1>2, <1>3, <1>4, FirstCases DEF t

LEMMA FirstOfOne ==
    ASSUME NEW s \in Seq(StoreCommand), s # << >>, NEW k
    PROVE  FirstValue(s, k, 1) =
              IF s[1].kind = "Write" /\ s[1].key = k THEN s[1].value
              ELSE FirstValue(Tail(s), k, 1)
  <1>1. CASE s[1].kind = "Write" /\ s[1].key = k
    <2>1. 1 \in Writes(s, k, 1, Len(s)) /\ \A m \in Writes(s, k, 1, Len(s)) : 1 <= m
      BY <1>1 DEF Writes
    <2> QED BY <1>1, <2>1, FirstIs
  <1>2. CASE ~ (s[1].kind = "Write" /\ s[1].key = k)
    <2>1. Writes(s, k, 1, Len(s)) = Writes(s, k, 2, Len(s))
      BY <1>2 DEF Writes
    <2>2. FirstValue(s, k, 1) = FirstValue(s, k, 2)
      <3>1. Len(s) \in Nat
        OBVIOUS
      <3> QED BY <2>1, <3>1, SamePlaces
    <2>3. FirstValue(Tail(s), k, 2 - 1) = FirstValue(s, k, 2)
      BY FirstOfTail
    <2> QED BY <1>2, <2>2, <2>3
  <1> QED BY <1>1, <1>2

-----------------------------------------------------------------------------
(* Where a request is: in one place of the channel or an obligation of one key, *)
(* and nowhere before it is made.                                                 *)
OnePlace ==
    \A r \in Request :
      /\ reply[r] = New => PlacesOf(r) = {} /\ \A k \in Key : r \notin obligations[k]
      /\ \A m \in PlacesOf(r), n \in PlacesOf(r) : m = n
      /\ PlacesOf(r) # {} => \A k \in Key : r \notin obligations[k]
      /\ \A j \in Key, k \in Key : r \in obligations[j] /\ r \in obligations[k] => j = k

IInv == TypeOK /\ NoLostWakeup /\ OnePlace

(* The places of the requests after a command is added and after one is taken.  *)
LEMMA PlacesOfAppend ==
    ASSUME TypeOK, NEW c \in StoreCommand, Send(c), NEW r \in Request
    PROVE  PlacesOf(r)' = IF c.kind # "Write" /\ c.sender = r
                          THEN PlacesOf(r) \cup {Len(channel) + 1} ELSE PlacesOf(r)
  <1>1. /\ Len(channel') = Len(channel) + 1
        /\ \A n \in 1 .. Len(channel) : channel'[n] = channel[n]
        /\ channel'[Len(channel) + 1] = c
        /\ Len(channel) \in Nat
    BY DEF TypeOK, Send
  <1> QED BY <1>1 DEF PlacesOf

LEMMA PlacesOfTail ==
    ASSUME TypeOK, channel # << >>, channel' = Tail(channel), NEW r \in Request
    PROVE  /\ PlacesOf(r)' = {n \in 1 .. Len(channel) - 1 : n + 1 \in PlacesOf(r)}
           /\ \A n \in PlacesOf(r) : n \in 1 .. Len(channel) /\ (n # 1 => n - 1 \in PlacesOf(r)')
           /\ 1 \in PlacesOf(r) <=>
                Head(channel).kind # "Write" /\ Head(channel).sender = r
  <1>1. /\ Len(channel') = Len(channel) - 1
        /\ \A n \in 1 .. Len(channel) - 1 : channel'[n] = channel[n + 1]
        /\ Head(channel) = channel[1]
        /\ Len(channel) \in Nat \ {0}
    BY DEF TypeOK
  <1>2. PlacesOf(r)' = {n \in 1 .. Len(channel) - 1 : n + 1 \in PlacesOf(r)}
    BY <1>1 DEF PlacesOf
  <1>3. \A n \in PlacesOf(r) : n \in 1 .. Len(channel) /\ (n # 1 => n - 1 \in PlacesOf(r)')
    BY <1>1, <1>2, PlacesMove DEF PlacesOf
  <1>4. 1 \in PlacesOf(r) <=> Head(channel).kind # "Write" /\ Head(channel).sender = r
    BY <1>1 DEF PlacesOf
  <1> QED BY <1>2, <1>3, <1>4

(* A served command leaves the requests in the channel where they are.          *)
LEMMA PlacesTaken ==
    ASSUME TypeOK, OnePlace, channel # << >>, channel' = Tail(channel), NEW r \in Request
    PROVE  /\ PlacesOf(r) = {} => PlacesOf(r)' = {}
           /\ 1 \in PlacesOf(r) => PlacesOf(r)' = {}
           /\ \A m \in PlacesOf(r)', n \in PlacesOf(r)' : m = n
  <1>1. \A m \in PlacesOf(r), n \in PlacesOf(r) : m = n
    BY DEF OnePlace
  <1>2. PlacesOf(r)' = {n \in 1 .. Len(channel) - 1 : n + 1 \in PlacesOf(r)}
    BY PlacesOfTail
  <1>3. Len(channel) \in Nat
    BY DEF TypeOK
  <1>4. ASSUME NEW m \in PlacesOf(r)', NEW n \in PlacesOf(r)' PROVE m = n
    <2>1. m \in Int /\ n \in Int /\ m + 1 \in PlacesOf(r) /\ n + 1 \in PlacesOf(r)
      BY <1>2, <1>3
    <2>2. m + 1 = n + 1
      BY <1>1, <2>1
    <2> QED BY <2>1, <2>2
  <1>5. ASSUME 1 \in PlacesOf(r), NEW n \in PlacesOf(r)' PROVE FALSE
    <2>1. n \in 1 .. Len(channel) - 1 /\ n + 1 \in PlacesOf(r)
      BY <1>2
    <2>2. n + 1 = 1
      BY <1>1, <1>5, <2>1
    <2> QED BY <1>3, <2>1, <2>2
  <1>6. PlacesOf(r) = {} => PlacesOf(r)' = {}
    BY <1>2
  <1> QED BY <1>4, <1>5, <1>6

(* Every request keeps to one place.                                          *)
LEMMA OnePlaceStep == TypeOK /\ OnePlace /\ [Next]_vars => OnePlace'
  <1> SUFFICES ASSUME TypeOK, OnePlace, [Next]_vars PROVE OnePlace'
    OBVIOUS
  <1>1. ASSUME NEW k \in Key, NEW v \in Value, Write(k, v) PROVE OnePlace'
    <2> DEFINE c == [kind |-> "Write", key |-> k, value |-> v]
    <2>1. c \in StoreCommand /\ c.kind = "Write"
      BY DEF StoreCommand, WriteCmd
    <2>2. Send(c) /\ UNCHANGED <<obligations, reply>>
      BY <1>1 DEF Write
    <2> HIDE DEF c
    <2>3. \A r \in Request : PlacesOf(r)' = PlacesOf(r)
      BY <2>1, <2>2, PlacesOfAppend
    <2> QED BY <2>2, <2>3 DEF OnePlace
  <1>2. ASSUME NEW k \in Key, NEW q \in Request, NEW kind \in {"Read", "NotifyRead"},
               Ask(q, kind, k)
        PROVE  OnePlace'
    <2> DEFINE c == [kind |-> kind, key |-> k, sender |-> q]
    <2>1. c \in StoreCommand /\ c.kind # "Write" /\ c.sender = q
      BY DEF StoreCommand, ReadCmd
    <2>2. Send(c) /\ UNCHANGED obligations /\ reply[q] = New
      BY <1>2 DEF Ask
    <2> HIDE DEF c
    <2>3. \A r \in Request : r # q => PlacesOf(r)' = PlacesOf(r) /\ reply'[r] = reply[r]
      BY <1>2, <2>1, <2>2, PlacesOfAppend DEF Ask, TypeOK
    <2>4. PlacesOf(q) = {} /\ \A j \in Key : q \notin obligations[j]
      BY <2>2 DEF OnePlace
    <2>5. PlacesOf(q)' = {Len(channel) + 1} /\ reply'[q] # New
      BY <1>2, <2>1, <2>2, <2>4, PlacesOfAppend, StoreAssumption DEF Ask, TypeOK
    <2> QED BY <2>2, <2>3, <2>4, <2>5 DEF OnePlace
  <1>3. ASSUME NEW q \in Request, Drop(q) PROVE OnePlace'
    <2>1. \A r \in Request : PlacesOf(r)' = PlacesOf(r) /\ (reply'[r] = New => reply[r] = New)
      BY <1>3, StoreAssumption DEF Drop, PlacesOf, TypeOK
    <2> QED BY <1>3, <2>1 DEF Drop, OnePlace
  <1>4. ASSUME Serve,
               \/ reply' = reply
               \/ \E s \in SUBSET Request, v \in Value \cup {Absent} : reply' = Answered(s, v),
               \A r \in Request, k \in Key : r \in obligations'[k] =>
                  r \in obligations[k]
                  \/ (Head(channel).kind = "NotifyRead" /\ Head(channel).sender = r
                        /\ Head(channel).key = k)
        PROVE  OnePlace'
    <2>1. channel # << >> /\ channel' = Tail(channel)
      BY <1>4 DEF Serve, ServeWrite, ServeRead, ServeNotifyRead
    <2>2. \A r \in Request : reply'[r] = New => reply[r] = New
      BY <1>4, StoreAssumption DEF Answered
    <2>3. ASSUME NEW r \in Request, 1 \in PlacesOf(r)
          PROVE  reply[r] # New /\ PlacesOf(r)' = {} /\ \A k \in Key : r \notin obligations[k]
      BY <2>1, <2>3, PlacesTaken DEF OnePlace
    <2>4. ASSUME NEW r \in Request, 1 \notin PlacesOf(r), NEW k \in Key, r \in obligations'[k]
          PROVE  r \in obligations[k]
      BY <1>4, <2>1, <2>4, PlacesOfTail
    <2>5. ASSUME NEW r \in Request
          PROVE  /\ reply'[r] = New => PlacesOf(r)' = {} /\ \A k \in Key : r \notin obligations'[k]
                 /\ \A m \in PlacesOf(r)', n \in PlacesOf(r)' : m = n
                 /\ PlacesOf(r)' # {} => \A k \in Key : r \notin obligations'[k]
                 /\ \A j \in Key, k \in Key :
                       r \in obligations'[j] /\ r \in obligations'[k] => j = k
      <3>1. CASE 1 \in PlacesOf(r)
        BY <1>4, <2>2, <2>3, <3>1
      <3>2. CASE 1 \notin PlacesOf(r)
        BY <2>1, <2>2, <2>4, <3>2, PlacesTaken DEF OnePlace
      <3> QED BY <3>1, <3>2
    <2> QED BY <2>5 DEF OnePlace
  <1>5. CASE ServeWrite
    <2>1. Head(channel).key \in Key /\ Head(channel).value \in Value
      BY <1>5, HeadAndTail DEF ServeWrite, TypeOK, StoreCommand, WriteCmd, ReadCmd
    <2>2. \E s \in SUBSET Request, v \in Value \cup {Absent} : reply' = Answered(s, v)
      BY <1>5, <2>1 DEF ServeWrite, TypeOK
    <2>3. \A r \in Request, k \in Key : r \in obligations'[k] => r \in obligations[k]
      BY <1>5, <2>1 DEF ServeWrite, TypeOK
    <2> QED BY <1>4, <1>5, <2>2, <2>3 DEF Serve
  <1>6. CASE ServeRead
    <2>1. Head(channel).key \in Key /\ Head(channel).sender \in Request
      BY <1>6, HeadAndTail DEF ServeRead, TypeOK, StoreCommand, WriteCmd, ReadCmd
    <2>2. \E s \in SUBSET Request, v \in Value \cup {Absent} : reply' = Answered(s, v)
      BY <1>6, <2>1 DEF ServeRead, TypeOK
    <2>3. obligations' = obligations
      BY <1>6 DEF ServeRead
    <2> QED BY <1>4, <1>6, <2>2, <2>3 DEF Serve
  <1>7. CASE ServeNotifyRead
    <2>1. /\ Head(channel).key \in Key /\ Head(channel).sender \in Request
          /\ Head(channel).kind = "NotifyRead"
      BY <1>7, HeadAndTail DEF ServeNotifyRead, TypeOK, StoreCommand, WriteCmd, ReadCmd
    <2>2. reply' = reply \/ \E s \in SUBSET Request, v \in Value \cup {Absent} : reply' = Answered(s, v)
      BY <1>7, <2>1 DEF ServeNotifyRead, TypeOK
    <2>3. \A r \in Request, k \in Key : r \in obligations'[k] =>
             r \in obligations[k] \/ (Head(channel).sender = r /\ Head(channel).key = k)
      BY <1>7, <2>1 DEF ServeNotifyRead, TypeOK
    <2> QED BY <1>4, <1>7, <2>1, <2>2, <2>3 DEF Serve
  <1>8. CASE UNCHANGED vars
    BY <1>8 DEF vars, OnePlace, PlacesOf
  <1> QED BY <1>1, <1>2, <1>3, <1>5, <1>6, <1>7, <1>8 DEF Next, Serve

-----------------------------------------------------------------------------
(* What the mapping gives, without its CHOOSE: the answer of a request follows   *)
(* from any place it has.                                                          *)
Located(r, k) == r \in obligations[k] \/ \E n \in PlacesOf(r) : channel[n].key = k

AnswerAt(n) ==
    LET k == channel[n].key
        v == LastValue(db[k], channel, k, n)
    IN  IF channel[n].kind = "Read" \/ v # Absent THEN v ELSE FirstValue(channel, k, n)

AnswersKnown ==
    \A r \in Request :
      /\ reply[r] # Asked => EffectiveAnswer(r) = reply[r]
      /\ reply[r] = Asked =>
            /\ \A n \in PlacesOf(r) : EffectiveAnswer(r) = AnswerAt(n)
            /\ \A k \in Key : r \in obligations[k] =>
                  EffectiveAnswer(r) = FirstValue(channel, k, 1)

(* It holds whenever every request has one place.                             *)
LEMMA AnswersFound == OnePlace => AnswersKnown
  <1> SUFFICES ASSUME OnePlace, NEW r \in Request
               PROVE  /\ reply[r] # Asked => EffectiveAnswer(r) = reply[r]
                      /\ reply[r] = Asked =>
                            /\ \A n \in PlacesOf(r) : EffectiveAnswer(r) = AnswerAt(n)
                            /\ \A k \in Key : r \in obligations[k] =>
                                  EffectiveAnswer(r) = FirstValue(channel, k, 1)
    BY DEF AnswersKnown
  <1>1. CASE reply[r] # Asked
    BY <1>1 DEF EffectiveAnswer
  <1>2. ASSUME reply[r] = Asked, NEW n \in PlacesOf(r) PROVE EffectiveAnswer(r) = AnswerAt(n)
    <2>1. (CHOOSE m \in PlacesOf(r) : TRUE) = n
      BY DEF OnePlace
    <2>2. EffectiveAnswer(r) =
            LET k == channel[n].key
            IN  IF channel[n].kind = "Read" \/ Latest(k, n) # Absent THEN Latest(k, n)
                ELSE FirstFrom(k, n)
      BY <1>2, <2>1 DEF EffectiveAnswer
    <2> QED BY <2>2 DEF AnswerAt, Latest, LastValue, FirstFrom, FirstValue, Writes, WritesTo
  <1>3. ASSUME reply[r] = Asked, NEW k \in Key, r \in obligations[k]
        PROVE  EffectiveAnswer(r) = FirstValue(channel, k, 1)
    <2>1. PlacesOf(r) = {}
      BY <1>3 DEF OnePlace
    <2>2. (CHOOSE j \in Key : r \in obligations[j]) = k
      BY <1>3 DEF OnePlace
    <2>3. EffectiveAnswer(r) = FirstFrom(k, 1)
      BY <1>3, <2>1, <2>2 DEF EffectiveAnswer
    <2> QED BY <2>3 DEF FirstFrom, FirstValue, Writes, WritesTo
  <1> QED BY <1>1, <1>2, <1>3

(* Who waits has a place.                                                        *)
LEMMA Somewhere ==
    ASSUME IInv, NEW r \in Request, reply[r] = Asked
    PROVE  \/ \E n \in PlacesOf(r) :
                 /\ n \in 1 .. Len(channel)
                 /\ channel[n].key \in Key
                 /\ \A k \in Key : Located(r, k) <=> k = channel[n].key
           \/ \E j \in Key :
                 /\ r \in obligations[j] /\ PlacesOf(r) = {}
                 /\ \A k \in Key : Located(r, k) <=> k = j
  <1>1. CASE PlacesOf(r) # {}
    <2>1. PICK n \in PlacesOf(r) : TRUE
      BY <1>1
    <2>2. n \in 1 .. Len(channel) /\ channel[n] \in ReadCmd
      BY <2>1 DEF PlacesOf, IInv, TypeOK, StoreCommand, WriteCmd
    <2>3. channel[n].key \in Key
      BY <2>2 DEF ReadCmd
    <2> QED BY <1>1, <2>2, <2>3 DEF IInv, OnePlace, Located
  <1>2. CASE PlacesOf(r) = {}
    <2>1. PICK j \in Key : r \in obligations[j]
      BY <1>2 DEF IInv, NoLostWakeup
    <2> QED BY <1>2, <2>1 DEF IInv, OnePlace, Located
  <1> QED BY <1>1, <1>2

(* A request that waits has no answer yet, a value, or that there is none.    *)
LEMMA AnswerTypes ==
    ASSUME IInv, AnswersKnown, NEW r \in Request, reply[r] = Asked
    PROVE  EffectiveAnswer(r) \in Value \cup {Absent, Asked}
  <1>1. ASSUME NEW n \in PlacesOf(r), n \in 1 .. Len(channel), channel[n].key \in Key
        PROVE  EffectiveAnswer(r) \in Value \cup {Absent, Asked}
    <2>1. db[channel[n].key] \in Value \cup {Absent} /\ channel \in Seq(StoreCommand)
      BY <1>1 DEF IInv, TypeOK
    <2>2. n \in 0 .. Len(channel) /\ n \in 1 .. Len(channel) + 1
      BY <1>1, <2>1
    <2>3. AnswerAt(n) \in Value \cup {Absent, Asked}
      BY <2>1, <2>2, ValueTypes DEF AnswerAt
    <2> QED BY <2>3 DEF AnswersKnown
  <1>2. ASSUME NEW k \in Key, r \in obligations[k]
        PROVE  EffectiveAnswer(r) \in Value \cup {Absent, Asked}
    <2>1. channel \in Seq(StoreCommand) /\ 1 \in 1 .. Len(channel) + 1
      BY DEF IInv, TypeOK
    <2>2. FirstValue(channel, k, 1) \in Value \cup {Asked}
      BY <2>1, ValueTypes
    <2> QED BY <1>2, <2>2 DEF AnswersKnown
  <1> QED BY <1>1, <1>2, Somewhere

-----------------------------------------------------------------------------
(* A command is put into the channel: it takes effect.                           *)
LEMMA AppendAnswers ==
    ASSUME IInv, AnswersKnown, AnswersKnown', NEW c \in StoreCommand, Send(c),
           UNCHANGED <<db, obligations>>, NEW r \in Request,
           reply[r] = Asked, reply'[r] = Asked, PlacesOf(r)' = PlacesOf(r)
    PROVE  /\ EffectiveAnswer(r)' =
                 IF EffectiveAnswer(r) = Asked /\ c.kind = "Write" /\ Located(r, c.key)
                 THEN c.value ELSE EffectiveAnswer(r)
           /\ \A k \in Key : Located(r, k)' <=> Located(r, k)
  <1>1. /\ channel \in Seq(StoreCommand) /\ channel' = Append(channel, c)
        /\ \A n \in 1 .. Len(channel) : channel'[n] = channel[n]
        /\ Len(channel) \in Nat
    BY DEF IInv, TypeOK, Send
  <1>2. \A n \in PlacesOf(r) : n \in 1 .. Len(channel)
    BY DEF PlacesOf
  <1>3. \A k \in Key : Located(r, k)' <=> Located(r, k)
    BY <1>1, <1>2 DEF Located
  <1>4. c.kind = "Write" => c.key \in Key
    BY DEF StoreCommand, WriteCmd, ReadCmd
  <1>5. ASSUME NEW n \in PlacesOf(r), n \in 1 .. Len(channel), channel[n].key \in Key,
               \A k \in Key : Located(r, k) <=> k = channel[n].key
        PROVE  EffectiveAnswer(r)' =
                 IF EffectiveAnswer(r) = Asked /\ c.kind = "Write" /\ Located(r, c.key)
                 THEN c.value ELSE EffectiveAnswer(r)
    <2> DEFINE k == channel[n].key
               v == LastValue(db[k], channel, k, n)
               f == FirstValue(channel, k, n)
    <2>1. EffectiveAnswer(r) = IF channel[n].kind = "Read" \/ v # Absent THEN v ELSE f
      BY DEF AnswersKnown, AnswerAt
    <2>2. EffectiveAnswer(r)' =
            IF channel'[n].kind = "Read"
               \/ LastValue(db'[channel'[n].key], channel', channel'[n].key, n) # Absent
            THEN LastValue(db'[channel'[n].key], channel', channel'[n].key, n)
            ELSE FirstValue(channel', channel'[n].key, n)
      BY DEF AnswersKnown, AnswerAt
    <2>3. LastValue(db'[k], channel', k, n) = v
      <3>1. n \in 0 .. Len(channel) /\ db' = db
        BY <1>1, <1>5
      <3> QED BY <1>1, <3>1, LastOfAppend
    <2>4. FirstValue(channel', k, n) =
             IF f = Asked /\ c.kind = "Write" /\ c.key = k THEN c.value ELSE f
      BY <1>1, <1>5, FirstOfAppend
    <2>5. v \in Value \cup {Absent}
      <3>1. db[k] \in Value \cup {Absent} /\ n \in 0 .. Len(channel)
        BY <1>1, <1>5 DEF IInv, TypeOK
      <3> QED BY <1>1, <3>1, ValueTypes
    <2>6. v # Asked
      BY <2>5, StoreAssumption
    <2>7. channel'[n] = channel[n]
      BY <1>1, <1>5
    <2> HIDE DEF v, f
    <2>8. EffectiveAnswer(r)' =
            IF channel[n].kind = "Read" \/ v # Absent THEN v
            ELSE FirstValue(channel', k, n)
      BY <2>2, <2>3, <2>7
    <2>9. c.kind = "Write" => (Located(r, c.key) <=> c.key = k)
      BY <1>4, <1>5
    <2> QED BY <2>1, <2>4, <2>6, <2>8, <2>9
  <1>6. ASSUME NEW j \in Key, r \in obligations[j], \A k \in Key : Located(r, k) <=> k = j
        PROVE  EffectiveAnswer(r)' =
                 IF EffectiveAnswer(r) = Asked /\ c.kind = "Write" /\ Located(r, c.key)
                 THEN c.value ELSE EffectiveAnswer(r)
    <2>1. /\ EffectiveAnswer(r) = FirstValue(channel, j, 1)
          /\ EffectiveAnswer(r)' = FirstValue(channel', j, 1)
      BY <1>6 DEF AnswersKnown
    <2>2. 1 \in 1 .. Len(channel) + 1
      BY <1>1
    <2> QED BY <1>1, <1>4, <1>6, <2>1, <2>2, FirstOfAppend
  <1> QED BY <1>3, <1>5, <1>6, Somewhere

(* The first command is served: it has taken effect before.                      *)
LEMMA ServedFacts ==
    ASSUME IInv, Serve
    PROVE  /\ channel # << >> /\ channel' = Tail(channel) /\ channel \in Seq(StoreCommand)
           /\ Head(channel) = channel[1] /\ channel[1] \in StoreCommand
           /\ Head(channel).key \in Key
           /\ Len(channel) \in Nat \ {0}
           /\ \A k \in Key : db'[k] = LastValue(db[k], channel, k, 1)
  <1>1. channel # << >> /\ channel' = Tail(channel) /\ channel \in Seq(StoreCommand)
    BY DEF Serve, ServeWrite, ServeRead, ServeNotifyRead, IInv, TypeOK
  <1>2. /\ Head(channel) = channel[1] /\ channel[1] \in StoreCommand
        /\ Len(channel) \in Nat \ {0}
    BY <1>1
  <1>3. Head(channel).key \in Key
    BY <1>2 DEF StoreCommand, WriteCmd, ReadCmd
  <1>4. ASSUME NEW k \in Key PROVE db'[k] = LastValue(db[k], channel, k, 1)
    <2>1. LastValue(db[k], channel, k, 1) =
             IF channel[1].kind = "Write" /\ channel[1].key = k THEN channel[1].value ELSE db[k]
      BY <1>1, LastOfOne
    <2>2. CASE ServeWrite
      <3>1. db' = [db EXCEPT ![channel[1].key] = channel[1].value] /\ channel[1].kind = "Write"
        BY <1>2, <2>2 DEF ServeWrite
      <3>2. db \in [Key -> Value \cup {Absent}]
        BY DEF IInv, TypeOK
      <3> QED BY <2>1, <3>1, <3>2
    <2>3. CASE ServeRead \/ ServeNotifyRead
      BY <1>2, <2>1, <2>3 DEF ServeRead, ServeNotifyRead
    <2> QED BY <2>2, <2>3 DEF Serve
  <1> QED BY <1>1, <1>2, <1>3, <1>4

(* Behind the head, what a place says of its request does not change.            *)
LEMMA ServedBehind ==
    ASSUME IInv, Serve, NEW n \in 2 .. Len(channel), channel[n].key \in Key
    PROVE  LET k == channel[n].key
               v == LastValue(db[k], channel, k, n)
               w == LastValue(db'[channel'[n - 1].key], channel', channel'[n - 1].key, n - 1)
           IN  /\ channel'[n - 1] = channel[n]
               /\ (IF channel[n].kind = "Read" \/ v # Absent THEN v
                   ELSE FirstValue(channel, k, n))
                  = (IF channel'[n - 1].kind = "Read" \/ w # Absent THEN w
                     ELSE FirstValue(channel', channel'[n - 1].key, n - 1))
  <1> DEFINE k == channel[n].key
  <1>1. channel'[n - 1] = channel[n]
    BY ServedFacts
  <1>2. n \in 1 .. Len(channel) /\ n \in 2 .. Len(channel) + 1
    BY ServedFacts
  <1>3. LastValue(db'[k], channel', k, n - 1) = LastValue(db[k], channel, k, n)
    <2>1. db'[k] = LastValue(db[k], channel, k, 1)
      BY ServedFacts
    <2>2. LastValue(LastValue(db[k], channel, k, 1), Tail(channel), k, n - 1)
            = LastValue(db[k], channel, k, n)
      BY <1>2, ServedFacts, LastOfTail
    <2> QED BY <2>1, <2>2, ServedFacts
  <1>4. FirstValue(channel', k, n - 1) = FirstValue(channel, k, n)
    BY <1>2, ServedFacts, FirstOfTail
  <1> QED BY <1>1, <1>3, <1>4

(* A request that the command is not about.                                       *)
LEMMA ServedOther ==
    ASSUME IInv, AnswersKnown, AnswersKnown', Serve, NEW r \in Request,
           reply'[r] = reply[r],
           \A k \in Key : r \in obligations'[k] <=> r \in obligations[k],
           ~ (Head(channel).kind # "Write" /\ Head(channel).sender = r),
           \A k \in Key : r \in obligations[k] =>
              ~ (Head(channel).kind = "Write" /\ Head(channel).key = k)
    PROVE  /\ EffectiveAnswer(r)' = EffectiveAnswer(r)
           /\ reply'[r] = Asked => \A k \in Key : Located(r, k)' <=> Located(r, k)
  <1>1. CASE reply[r] # Asked
    BY <1>1 DEF AnswersKnown
  <1>2. ASSUME reply[r] = Asked, NEW n \in PlacesOf(r), n \in 1 .. Len(channel),
               channel[n].key \in Key
        PROVE  /\ EffectiveAnswer(r)' = EffectiveAnswer(r)
               /\ \A k \in Key : Located(r, k)' <=> Located(r, k)
    <2>1. n # 1
      BY ServedFacts, PlacesOfTail DEF IInv
    <2>2. n \in 2 .. Len(channel)
      BY <1>2, <2>1, ServedFacts
    <2>3. n - 1 \in PlacesOf(r)'
      BY <2>1, ServedFacts, PlacesOfTail DEF IInv
    <2>4. channel'[n - 1] = channel[n]
      BY <1>2, <2>2, ServedBehind
    <2>5. EffectiveAnswer(r) = AnswerAt(n)
      BY <1>2 DEF AnswersKnown
    <2>6. EffectiveAnswer(r)' =
            LET w == LastValue(db'[channel'[n - 1].key], channel', channel'[n - 1].key, n - 1)
            IN  IF channel'[n - 1].kind = "Read" \/ w # Absent THEN w
                ELSE FirstValue(channel', channel'[n - 1].key, n - 1)
      BY <1>2, <2>3 DEF AnswersKnown, AnswerAt
    <2>7. EffectiveAnswer(r)' = EffectiveAnswer(r)
      BY <1>2, <2>2, <2>5, <2>6, ServedBehind DEF AnswerAt
    <2>8. \A m \in PlacesOf(r)' : m = n - 1
      BY <2>3, ServedFacts, PlacesTaken DEF IInv
    <2>9. \A m \in PlacesOf(r) : m = n
      BY DEF IInv, OnePlace
    <2> QED BY <2>3, <2>4, <2>7, <2>8, <2>9 DEF Located
  <1>3. ASSUME reply[r] = Asked, NEW j \in Key, r \in obligations[j], PlacesOf(r) = {}
        PROVE  /\ EffectiveAnswer(r)' = EffectiveAnswer(r)
               /\ \A k \in Key : Located(r, k)' <=> Located(r, k)
    <2>1. /\ EffectiveAnswer(r) = FirstValue(channel, j, 1)
          /\ EffectiveAnswer(r)' = FirstValue(channel', j, 1)
      BY <1>3 DEF AnswersKnown
    <2>2. FirstValue(channel, j, 1) = FirstValue(channel', j, 1)
      BY <1>3, ServedFacts, FirstOfOne
    <2>3. PlacesOf(r)' = {}
      BY <1>3, ServedFacts, PlacesTaken DEF IInv
    <2> QED BY <1>3, <2>1, <2>2, <2>3 DEF Located
  <1> QED BY <1>1, <1>2, <1>3, Somewhere

(* No answer changes by serving, and who still waits waits where it did.      *)
LEMMA ServedAnswers ==
    ASSUME IInv, AnswersKnown, AnswersKnown', Serve, NEW r \in Request
    PROVE  /\ EffectiveAnswer(r)' = EffectiveAnswer(r)
           /\ reply'[r] = Asked => reply[r] = Asked
           /\ reply'[r] = Asked => \A k \in Key : Located(r, k)' <=> Located(r, k)
  <1> DEFINE h == Head(channel)
             b == h.key
  <1>0. /\ reply \in [Request -> Value \cup {Absent, New, Asked, Dropped}]
        /\ obligations \in [Key -> SUBSET Request]
        /\ db \in [Key -> Value \cup {Absent}]
        /\ b \in Key
    BY ServedFacts DEF IInv, TypeOK
  <1>1. CASE ServeWrite
    <2>1. /\ h.kind = "Write" /\ reply' = Answered(obligations[b], h.value)
          /\ obligations' = [obligations EXCEPT ![b] = {}]
          /\ h.value \in Value
      BY <1>1, ServedFacts DEF ServeWrite, StoreCommand, WriteCmd, ReadCmd
    <2>2. CASE r \in obligations[b] /\ reply[r] = Asked
      <3>1. reply'[r] = h.value /\ reply'[r] # Asked
        BY <2>1, <2>2, StoreAssumption DEF Answered
      <3>2. EffectiveAnswer(r) = FirstValue(channel, b, 1)
        BY <1>0, <2>2 DEF AnswersKnown
      <3>3. FirstValue(channel, b, 1) = h.value
        BY <2>1, ServedFacts, FirstOfOne
      <3>4. EffectiveAnswer(r)' = reply'[r]
        BY <3>1 DEF AnswersKnown
      <3> QED BY <3>1, <3>2, <3>3, <3>4
    <2>3. CASE reply[r] # Asked
      <3>1. reply'[r] = reply[r]
        BY <2>1, <2>3 DEF Answered
      <3> QED BY <2>3, <3>1 DEF AnswersKnown
    <2>4. CASE r \notin obligations[b]
      <3>1. reply'[r] = reply[r] /\ \A k \in Key : r \in obligations'[k] <=> r \in obligations[k]
        BY <1>0, <2>1, <2>4 DEF Answered
      <3> QED BY <2>1, <2>4, <3>1, ServedOther
    <2> QED BY <2>2, <2>3, <2>4
  <1>2. CASE ServeRead \/ ServeNotifyRead
    <2>1. h.kind \in {"Read", "NotifyRead"} /\ h.sender \in Request
      BY <1>2, ServedFacts DEF ServeRead, ServeNotifyRead, StoreCommand, WriteCmd, ReadCmd
    <2>2. CASE r # h.sender
      <3>1. reply'[r] = reply[r] /\ \A k \in Key : r \in obligations'[k] <=> r \in obligations[k]
        BY <1>0, <1>2, <2>2 DEF ServeRead, ServeNotifyRead, Answered
      <3> QED BY <2>1, <2>2, <3>1, ServedOther
    <2>3. CASE r = h.sender /\ reply[r] # Asked
      <3>1. reply'[r] = reply[r]
        BY <1>0, <1>2, <2>3 DEF ServeRead, ServeNotifyRead, Answered
      <3> QED BY <2>3, <3>1 DEF AnswersKnown
    <2>4. ASSUME r = h.sender, reply[r] = Asked
          PROVE  /\ 1 \in PlacesOf(r) /\ PlacesOf(r)' = {}
                 /\ \A m \in PlacesOf(r) : m = 1
                 /\ \A k \in Key : r \notin obligations[k]
                 /\ LastValue(db[b], channel, b, 1) = db[b]
                 /\ EffectiveAnswer(r) =
                      IF h.kind = "Read" \/ db[b] # Absent THEN db[b]
                      ELSE FirstValue(channel', b, 1)
      <3>1. 1 \in PlacesOf(r)
        BY <2>1, <2>4, ServedFacts, PlacesOfTail DEF IInv
      <3>2. LastValue(db[b], channel, b, 1) = db[b]
        BY <2>1, ServedFacts, LastOfOne
      <3>3. FirstValue(channel, b, 1) = FirstValue(channel', b, 1)
        BY <2>1, ServedFacts, FirstOfOne
      <3>4. EffectiveAnswer(r) = AnswerAt(1)
        BY <2>4, <3>1 DEF AnswersKnown
      <3>5. AnswerAt(1) = IF h.kind = "Read" \/ db[b] # Absent THEN db[b]
                          ELSE FirstValue(channel, b, 1)
        BY <3>2, ServedFacts DEF AnswerAt
      <3> QED BY <3>1, <3>2, <3>3, <3>4, <3>5, ServedFacts, PlacesTaken DEF IInv, OnePlace
    <2>5. CASE r = h.sender /\ reply[r] = Asked /\ (h.kind = "Read" \/ db[b] # Absent)
      <3>1. reply'[r] = db[b]
        BY <1>0, <1>2, <2>5 DEF ServeRead, ServeNotifyRead, Answered
      <3>2. reply'[r] # Asked
        BY <1>0, <3>1, StoreAssumption
      <3> QED BY <2>4, <2>5, <3>1, <3>2 DEF AnswersKnown
    <2>6. CASE r = h.sender /\ reply[r] = Asked /\ h.kind = "NotifyRead" /\ db[b] = Absent
      <3>1. /\ reply' = reply
            /\ obligations' = [obligations EXCEPT ![b] = @ \cup {r}]
        BY <1>2, <2>6 DEF ServeRead, ServeNotifyRead
      <3>2. \A k \in Key : r \in obligations'[k] <=> k = b
        BY <1>0, <2>4, <2>6, <3>1
      <3>3. EffectiveAnswer(r)' = FirstValue(channel', b, 1)
        BY <1>0, <2>6, <3>1, <3>2 DEF AnswersKnown
      <3>4. \A k \in Key : Located(r, k)' <=> k = b
        BY <2>4, <2>6, <3>2 DEF Located
      <3>5. \A k \in Key : Located(r, k) <=> k = b
        BY <2>4, <2>6, ServedFacts DEF Located
      <3> QED BY <2>4, <2>6, <3>1, <3>3, <3>4, <3>5
    <2> QED BY <2>1, <2>2, <2>3, <2>5, <2>6
  <1> QED BY <1>1, <1>2 DEF Serve

-----------------------------------------------------------------------------
(* The steps, through the mapping.                                               *)
DictNow == [k \in Key |-> Latest(k, Len(channel))]
WaitsNow == [k \in Key |-> EffectiveWaits(k)]
AnswerNow == [r \in Request |-> EffectiveAnswer(r)]

(* The mapped state, pointwise.                                                *)
Mapped ==
    /\ \A k \in Key :
          /\ DictNow[k] = LastValue(db[k], channel, k, Len(channel))
          /\ \A r \in Request :
                r \in WaitsNow[k] <=> EffectiveAnswer(r) = Asked /\ Located(r, k)
          /\ WaitsNow[k] \subseteq Request
    /\ \A r \in Request : AnswerNow[r] = EffectiveAnswer(r)
    /\ DictNow = [k \in Key |-> DictNow[k]]
    /\ WaitsNow = [k \in Key |-> WaitsNow[k]]
    /\ AnswerNow = [r \in Request |-> AnswerNow[r]]

LEMMA MappedHolds == Mapped
  <1>1. ASSUME NEW k \in Key PROVE DictNow[k] = LastValue(db[k], channel, k, Len(channel))
    BY DEF DictNow, Latest, LastValue, Writes, WritesTo
  <1>2. ASSUME NEW k \in Key
        PROVE  /\ \A r \in Request :
                      r \in WaitsNow[k] <=> EffectiveAnswer(r) = Asked /\ Located(r, k)
               /\ WaitsNow[k] \subseteq Request
    BY DEF WaitsNow, EffectiveWaits, Located
  <1> QED BY <1>1, <1>2 DEF Mapped, DictNow, WaitsNow, AnswerNow

(* What a step of the store does to the mapped state, as AtomicStore says it.     *)
LEMMA WriteMaps ==
    ASSUME IInv, AnswersKnown, AnswersKnown', Mapped, Mapped',
           NEW k \in Key, NEW v \in Value, Write(k, v)
    PROVE  /\ DictNow' = [DictNow EXCEPT ![k] = v]
           /\ AnswerNow' = [r \in Request |-> IF r \in WaitsNow[k] THEN v ELSE AnswerNow[r]]
           /\ WaitsNow' = [WaitsNow EXCEPT ![k] = {}]
  <1> DEFINE c == [kind |-> "Write", key |-> k, value |-> v]
  <1>1. c \in StoreCommand /\ c.kind = "Write" /\ c.key = k /\ c.value = v
    BY DEF StoreCommand, WriteCmd
  <1>2. Send(c) /\ UNCHANGED <<db, obligations, reply>>
    BY DEF Write
  <1> HIDE DEF c
  <1>3. /\ channel \in Seq(StoreCommand) /\ channel' = Append(channel, c)
        /\ Len(channel') = Len(channel) + 1
    BY <1>1, <1>2 DEF Send, IInv, TypeOK
  <1>4. \A j \in Key : DictNow'[j] = IF j = k THEN v ELSE DictNow[j]
    BY <1>1, <1>2, <1>3, LastOfAppend DEF Mapped
  <1>5. ASSUME NEW r \in Request
        PROVE  /\ EffectiveAnswer(r)' = IF r \in WaitsNow[k] THEN v ELSE EffectiveAnswer(r)
               /\ \A j \in Key : r \in WaitsNow'[j] <=> j # k /\ r \in WaitsNow[j]
    <2>1. CASE reply[r] = Asked
      <3>1. PlacesOf(r)' = PlacesOf(r)
        BY <1>1, <1>2, PlacesOfAppend DEF IInv
      <3>2. /\ EffectiveAnswer(r)' = IF EffectiveAnswer(r) = Asked /\ Located(r, k)
                                     THEN v ELSE EffectiveAnswer(r)
            /\ \A j \in Key : Located(r, j)' <=> Located(r, j)
        BY <1>1, <1>2, <2>1, <3>1, AppendAnswers
      <3>3. \A i, j \in Key : Located(r, i) /\ Located(r, j) => i = j
        BY <2>1, Somewhere
      <3>4. v # Asked
        BY StoreAssumption
      <3> QED BY <3>2, <3>3, <3>4 DEF Mapped
    <2>2. CASE reply[r] # Asked
      BY <1>2, <2>2 DEF AnswersKnown, Mapped
    <2> QED BY <2>1, <2>2
  <1>6. AnswerNow' = [r \in Request |-> IF r \in WaitsNow[k] THEN v ELSE AnswerNow[r]]
    BY <1>5 DEF Mapped, AnswerNow
  <1>7. ASSUME NEW j \in Key PROVE WaitsNow'[j] = IF j = k THEN {} ELSE WaitsNow[j]
    <2>1. WaitsNow[j] \subseteq Request /\ WaitsNow'[j] \subseteq Request
      BY DEF Mapped
    <2>2. \A r \in Request : r \in WaitsNow'[j] <=> j # k /\ r \in WaitsNow[j]
      BY <1>5
    <2> QED BY <2>1, <2>2
  <1>8. DictNow' = [DictNow EXCEPT ![k] = v]
    BY <1>4 DEF DictNow
  <1>9. WaitsNow' = [WaitsNow EXCEPT ![k] = {}]
    BY <1>7 DEF WaitsNow
  <1> QED BY <1>6, <1>8, <1>9

(* An ask is a Read or a NotifyRead of that moment.                           *)
LEMMA AskMaps ==
    ASSUME IInv, AnswersKnown, AnswersKnown', Mapped, Mapped',
           NEW k \in Key, NEW q \in Request, NEW kind \in {"Read", "NotifyRead"},
           Ask(q, kind, k)
    PROVE  /\ AnswerNow[q] = New
           /\ DictNow' = DictNow
           /\ IF kind = "NotifyRead" /\ DictNow[k] = Absent
              THEN /\ AnswerNow' = [AnswerNow EXCEPT ![q] = Asked]
                   /\ WaitsNow' = [WaitsNow EXCEPT ![k] = @ \cup {q}]
              ELSE /\ AnswerNow' = [AnswerNow EXCEPT ![q] = DictNow[k]]
                   /\ WaitsNow' = WaitsNow
  <1> DEFINE c == [kind |-> kind, key |-> k, sender |-> q]
             n == Len(channel) + 1
  <1>1. c \in StoreCommand /\ c.kind = kind /\ c.kind # "Write" /\ c.sender = q /\ c.key = k
    BY DEF StoreCommand, ReadCmd
  <1>2. Send(c) /\ UNCHANGED <<db, obligations>> /\ reply[q] = New
    BY DEF Ask
  <1> HIDE DEF c
  <1>3. /\ channel \in Seq(StoreCommand) /\ channel' = Append(channel, c)
        /\ Len(channel') = n /\ channel'[n] = c /\ Len(channel) \in Nat
    BY <1>1, <1>2 DEF Send, IInv, TypeOK
  <1>4. DictNow[k] \in Value \cup {Absent}
    <2>1. db[k] \in Value \cup {Absent} /\ Len(channel) \in 0 .. Len(channel)
      BY <1>3 DEF IInv, TypeOK
    <2>2. LastValue(db[k], channel, k, Len(channel)) \in Value \cup {Absent}
      BY <1>3, <2>1, ValueTypes
    <2> QED BY <2>2 DEF Mapped
  <1>5. \A j \in Key : DictNow'[j] = DictNow[j]
    BY <1>1, <1>2, <1>3, LastOfAppend DEF Mapped
  <1>6. AnswerNow[q] = New
    BY <1>2, StoreAssumption DEF AnswersKnown, Mapped
  <1>7. ASSUME NEW r \in Request, r # q
        PROVE  /\ EffectiveAnswer(r)' = EffectiveAnswer(r)
               /\ \A j \in Key : r \in WaitsNow'[j] <=> r \in WaitsNow[j]
    <2>1. reply'[r] = reply[r] /\ PlacesOf(r)' = PlacesOf(r)
      BY <1>1, <1>2, <1>7, PlacesOfAppend DEF Ask, IInv, TypeOK
    <2>2. CASE reply[r] = Asked
      <3>1. /\ EffectiveAnswer(r)' = EffectiveAnswer(r)
            /\ \A j \in Key : Located(r, j)' <=> Located(r, j)
        BY <1>1, <1>2, <2>1, <2>2, AppendAnswers
      <3> QED BY <3>1 DEF Mapped
    <2>3. CASE reply[r] # Asked
      BY <2>1, <2>3 DEF AnswersKnown, Mapped
    <2> QED BY <2>2, <2>3
  <1>8. /\ reply'[q] = Asked /\ PlacesOf(q)' = {n}
        /\ \A j \in Key : q \notin obligations'[j]
    <2>1. PlacesOf(q) = {} /\ \A j \in Key : q \notin obligations[j]
      BY <1>2 DEF IInv, OnePlace
    <2>2. PlacesOf(q)' = {n}
      BY <1>1, <1>2, <2>1, PlacesOfAppend DEF IInv
    <2>3. reply'[q] = Asked
      BY DEF Ask, IInv, TypeOK
    <2> QED BY <1>2, <2>1, <2>2, <2>3
  <1>9. EffectiveAnswer(q)' = IF kind = "Read" \/ DictNow[k] # Absent THEN DictNow[k] ELSE Asked
    <2>1. EffectiveAnswer(q)' =
            LET w == LastValue(db'[channel'[n].key], channel', channel'[n].key, n)
            IN  IF channel'[n].kind = "Read" \/ w # Absent THEN w
                ELSE FirstValue(channel', channel'[n].key, n)
      BY <1>8 DEF AnswersKnown, AnswerAt
    <2>2. LastValue(db'[k], channel', k, n) = DictNow[k]
      BY <1>1, <1>2, <1>3, LastOfAppend DEF Mapped
    <2>3. FirstValue(channel', k, n) = Asked
      <3>1. n \in 1 .. Len(channel) + 1
        BY <1>3
      <3> QED BY <1>1, <1>3, <3>1, FirstOfAppend, FirstOfNone
    <2> QED BY <1>1, <1>3, <2>1, <2>2, <2>3
  <1>10. \A j \in Key : /\ Located(q, j)' <=> j = k
                        /\ q \notin WaitsNow[j]
    <2>1. \A j \in Key : Located(q, j)' <=> j = k
      BY <1>1, <1>3, <1>8 DEF Located
    <2>2. EffectiveAnswer(q) # Asked
      BY <1>2, StoreAssumption DEF AnswersKnown
    <2> QED BY <2>1, <2>2 DEF Mapped
  <1>11. DictNow' = DictNow
    BY <1>5 DEF DictNow
  <1>12. CASE kind = "NotifyRead" /\ DictNow[k] = Absent
    <2>1. EffectiveAnswer(q)' = Asked
      BY <1>9, <1>12
    <2>2. AnswerNow' = [AnswerNow EXCEPT ![q] = Asked]
      BY <1>7, <2>1 DEF AnswerNow
    <2>3. ASSUME NEW j \in Key
          PROVE  WaitsNow'[j] = IF j = k THEN WaitsNow[j] \cup {q} ELSE WaitsNow[j]
      <3>1. WaitsNow[j] \subseteq Request /\ WaitsNow'[j] \subseteq Request
        BY DEF Mapped
      <3>2. q \in WaitsNow'[j] <=> j = k
        BY <1>10, <2>1 DEF Mapped
      <3>3. q \notin WaitsNow[j] /\ \A r \in Request \ {q} :
                r \in WaitsNow'[j] <=> r \in WaitsNow[j]
        BY <1>7, <1>10
      <3> QED BY <3>1, <3>2, <3>3
    <2>4. WaitsNow' = [WaitsNow EXCEPT ![k] = @ \cup {q}]
      BY <2>3 DEF WaitsNow
    <2> QED BY <1>6, <1>11, <1>12, <2>2, <2>4
  <1>13. CASE kind = "Read" \/ DictNow[k] # Absent
    <2>1. EffectiveAnswer(q)' = DictNow[k] /\ DictNow[k] # Asked
      BY <1>4, <1>9, <1>13, StoreAssumption
    <2>2. AnswerNow' = [AnswerNow EXCEPT ![q] = DictNow[k]]
      BY <1>7, <2>1 DEF AnswerNow
    <2>3. ASSUME NEW j \in Key PROVE WaitsNow'[j] = WaitsNow[j]
      <3>1. WaitsNow[j] \subseteq Request /\ WaitsNow'[j] \subseteq Request
        BY DEF Mapped
      <3>2. q \notin WaitsNow'[j]
        BY <2>1 DEF Mapped
      <3>3. q \notin WaitsNow[j] /\ \A r \in Request \ {q} :
                r \in WaitsNow'[j] <=> r \in WaitsNow[j]
        BY <1>7, <1>10
      <3> QED BY <3>1, <3>2, <3>3
    <2>4. WaitsNow' = WaitsNow
      BY <2>3 DEF WaitsNow
    <2> QED BY <1>6, <1>11, <1>13, <2>2, <2>4
  <1> QED BY <1>12, <1>13

(* A dropped request is dropped.                                              *)
LEMMA DropMaps ==
    ASSUME IInv, AnswersKnown, AnswersKnown', Mapped, Mapped', NEW q \in Request, Drop(q)
    PROVE  /\ AnswerNow[q] \notin {New, Dropped}
           /\ AnswerNow' = [AnswerNow EXCEPT ![q] = Dropped]
           /\ WaitsNow' = [k \in Key |-> WaitsNow[k] \ {q}]
           /\ DictNow' = DictNow
  <1>1. /\ reply[q] = Asked /\ reply'[q] = Dropped /\ UNCHANGED <<db, channel, obligations>>
        /\ \A r \in Request : r # q => reply'[r] = reply[r]
        /\ \A r \in Request : PlacesOf(r)' = PlacesOf(r)
    BY DEF Drop, PlacesOf, IInv, TypeOK
  <1>2. AnswerNow[q] \notin {New, Dropped}
    BY <1>1, AnswerTypes, StoreAssumption DEF Mapped
  <1>3. EffectiveAnswer(q)' = Dropped /\ Dropped # Asked
    BY <1>1, StoreAssumption DEF AnswersKnown
  <1>4. ASSUME NEW r \in Request, r # q
        PROVE  /\ EffectiveAnswer(r)' = EffectiveAnswer(r)
               /\ \A k \in Key : Located(r, k)' <=> Located(r, k)
    <2>1. \A k \in Key : Located(r, k)' <=> Located(r, k)
      BY <1>1 DEF Located
    <2>2. EffectiveAnswer(r)' = EffectiveAnswer(r)
      <3>1. /\ \A k, n : Latest(k, n)' = Latest(k, n)
            /\ \A k, n : FirstFrom(k, n)' = FirstFrom(k, n)
        BY <1>1 DEF Latest, FirstFrom, WritesTo
      <3>2. reply'[r] = reply[r] /\ PlacesOf(r)' = PlacesOf(r)
        BY <1>1, <1>4
      <3> QED BY <1>1, <3>1, <3>2 DEF EffectiveAnswer
    <2> QED BY <2>1, <2>2
  <1>5. AnswerNow' = [AnswerNow EXCEPT ![q] = Dropped]
    BY <1>3, <1>4 DEF AnswerNow
  <1>6. \A k \in Key : WaitsNow'[k] = WaitsNow[k] \ {q}
    BY <1>3, <1>4 DEF Mapped
  <1>7. WaitsNow' = [k \in Key |-> WaitsNow[k] \ {q}]
    BY <1>6 DEF WaitsNow
  <1>8. DictNow' = DictNow
    <2>1. \A k \in Key : DictNow'[k] = DictNow[k]
      BY <1>1 DEF Mapped
    <2> QED BY <2>1 DEF DictNow
  <1> QED BY <1>2, <1>5, <1>7, <1>8

(* Serving is a stutter.                                                      *)
LEMMA ServeMaps ==
    ASSUME IInv, AnswersKnown, AnswersKnown', Mapped, Mapped', Serve
    PROVE  UNCHANGED <<DictNow, WaitsNow, AnswerNow>>
  <1>1. ASSUME NEW k \in Key PROVE DictNow'[k] = DictNow[k]
    <2>1. LastValue(LastValue(db[k], channel, k, 1), Tail(channel), k, Len(channel) - 1)
            = LastValue(db[k], channel, k, Len(channel))
      <3>1. Len(channel) \in 1 .. Len(channel)
        BY ServedFacts
      <3> QED BY <3>1, ServedFacts, LastOfTail
    <2>2. Len(channel') = Len(channel) - 1
      BY ServedFacts
    <2>3. db'[k] = LastValue(db[k], channel, k, 1) /\ channel' = Tail(channel)
      BY ServedFacts
    <2>4. LastValue(db'[k], channel', k, Len(channel'))
            = LastValue(db[k], channel, k, Len(channel))
      BY <2>1, <2>2, <2>3
    <2> QED BY <2>4 DEF Mapped
  <1>2. DictNow' = DictNow
    BY <1>1 DEF DictNow
  <1>3. \A r \in Request : EffectiveAnswer(r)' = EffectiveAnswer(r)
    BY ServedAnswers
  <1>4. AnswerNow' = AnswerNow
    BY <1>3 DEF AnswerNow
  <1>5. ASSUME NEW k \in Key, NEW r \in Request PROVE r \in WaitsNow'[k] <=> r \in WaitsNow[k]
    <2>1. CASE reply'[r] = Asked
      BY <2>1, ServedAnswers DEF Mapped
    <2>2. CASE reply'[r] # Asked
      BY <1>3, <2>2 DEF AnswersKnown, Mapped
    <2> QED BY <2>1, <2>2
  <1>6. \A k \in Key : WaitsNow'[k] = WaitsNow[k]
    BY <1>5 DEF Mapped
  <1>7. WaitsNow' = WaitsNow
    BY <1>6 DEF WaitsNow
  <1> QED BY <1>2, <1>4, <1>7

(* Every step of the store is a step of AtomicStore or a stutter.             *)
LEMMA StoreStep ==
    IInv /\ IInv' /\ AnswersKnown /\ AnswersKnown' /\ Mapped /\ Mapped' /\ [Next]_vars
    => [Atomic!Next]_Atomic!vars
  <1> SUFFICES ASSUME IInv, AnswersKnown, AnswersKnown', Mapped, Mapped', [Next]_vars
               PROVE  [Atomic!Next]_Atomic!vars
    OBVIOUS
  <1>1. ASSUME NEW k \in Key, NEW v \in Value, Write(k, v) PROVE Atomic!Write(k, v)
    BY <1>1, WriteMaps DEF Atomic!Write, DictNow, WaitsNow, AnswerNow
  <1>2. ASSUME NEW k \in Key, NEW q \in Request, NEW kind \in {"Read", "NotifyRead"},
               Ask(q, kind, k)
        PROVE  Atomic!Read(q, k) \/ Atomic!NotifyRead(q, k)
    <2>1. CASE kind = "Read"
      <3>1. /\ AnswerNow[q] = New
            /\ AnswerNow' = [AnswerNow EXCEPT ![q] = DictNow[k]]
            /\ DictNow' = DictNow /\ WaitsNow' = WaitsNow
        BY <1>2, <2>1, AskMaps
      <3> QED BY <3>1 DEF Atomic!Read, DictNow, WaitsNow, AnswerNow
    <2>2. CASE kind = "NotifyRead"
      <3>1. /\ AnswerNow[q] = New
            /\ DictNow' = DictNow
            /\ IF DictNow[k] = Absent
               THEN /\ AnswerNow' = [AnswerNow EXCEPT ![q] = Asked]
                    /\ WaitsNow' = [WaitsNow EXCEPT ![k] = @ \cup {q}]
               ELSE /\ AnswerNow' = [AnswerNow EXCEPT ![q] = DictNow[k]]
                    /\ WaitsNow' = WaitsNow
        BY <1>2, <2>2, AskMaps
      <3> QED BY <3>1 DEF Atomic!NotifyRead, DictNow, WaitsNow, AnswerNow
    <2> QED BY <2>1, <2>2
  <1>3. ASSUME NEW q \in Request, Drop(q) PROVE Atomic!Drop(q)
    BY <1>3, DropMaps DEF Atomic!Drop, DictNow, WaitsNow, AnswerNow
  <1>4. CASE Serve
    BY <1>4, ServeMaps DEF Atomic!vars, DictNow, WaitsNow, AnswerNow
  <1>5. CASE UNCHANGED vars
    <2>1. UNCHANGED <<db, channel, obligations, reply>>
      BY <1>5 DEF vars
    <2>2. /\ \A k : Latest(k, Len(channel))' = Latest(k, Len(channel))
          /\ \A r : EffectiveAnswer(r)' = EffectiveAnswer(r)
          /\ \A k : EffectiveWaits(k)' = EffectiveWaits(k)
      BY <2>1 DEF Latest, EffectiveAnswer, EffectiveWaits, PlacesOf, FirstFrom, WritesTo
    <2> QED BY <2>2 DEF Atomic!vars
  <1> QED BY <1>1, <1>2, <1>3, <1>4, <1>5 DEF Next, Atomic!Next

(* The users of the store see a dictionary that changes and is read at once, though  *)
(* write returns before the task has seen its command (lib.rs:64-68).                  *)
THEOREM ImplementsDictionary == Spec => ImplementsAtomicStore
  <1>1. Init => OnePlace
    <2> SUFFICES ASSUME Init PROVE OnePlace
      OBVIOUS
    <2>1. \A r \in Request : PlacesOf(r) = {}
      <3>1. channel = << >> /\ Len(channel) = 0
        BY DEF Init
      <3>2. 1 .. Len(channel) = {}
        BY <3>1
      <3> QED BY <3>2 DEF PlacesOf
    <2>2. \A k \in Key : obligations[k] = {}
      BY DEF Init
    <2> QED BY <2>1, <2>2 DEF OnePlace
  <1>2. Init => Atomic!Init
    <2> SUFFICES ASSUME Init PROVE Atomic!Init
      OBVIOUS
    <2>1. \A k \in Key : Latest(k, Len(channel)) = Absent
      BY DEF Init, Latest, WritesTo
    <2>2. \A r \in Request : EffectiveAnswer(r) = New
      BY StoreAssumption DEF Init, EffectiveAnswer
    <2>3. \A k \in Key : EffectiveWaits(k) = {}
      BY <2>2, StoreAssumption DEF EffectiveWaits
    <2> QED BY <2>1, <2>2, <2>3 DEF Atomic!Init
  <1>3. TypeOK /\ NoLostWakeup /\ OnePlace <=> IInv
    BY DEF IInv
  <1> QED
    BY <1>1, <1>2, <1>3, TypeCorrect, WakeupsKept, OnePlaceStep, AnswersFound, MappedHolds,
       StoreStep, PTL DEF Spec, ImplementsAtomicStore, Atomic!Spec

-----------------------------------------------------------------------------
(* Gossip.                                                                    *)

(* Messages on their way: delivered, in the task, in commands, in hand, outbound. *)
LEMMA AddedIsJoined ==
    ASSUME NEW S, NEW x \in Seq(S), NEW e \in S
    PROVE  Added(x, e) = Joined(x, << e >>)
  BY DEF Joined, Added

LEMMA HeadJoinedTail ==
    ASSUME NEW S, NEW x \in Seq(S), x # << >>
    PROVE  /\ x = Joined(<< Head(x) >>, Tail(x))
           /\ Head(x) \in S /\ Tail(x) \in Seq(S)
  BY DEF Joined

Line(a, b, c, d, e) == Joined(Joined(Joined(Joined(a, b), c), d), e)

(* What does not change the line but for its end: x is sent, taken by the forwarder,  *)
(* forwarded, taken by the task, delivered.                                             *)
LineEquations(a, b, c, d, e, x) ==
    /\ Line(a, b, c, d, Added(e, x)) = Added(Line(a, b, c, d, e), x)
    /\ e # << >> => Line(a, b, c, << Head(e) >>, Tail(e)) = Line(a, b, c, << >>, e)
    /\ Line(a, b, Added(c, x), << >>, e) = Line(a, b, c, << x >>, e)
    /\ Line(a, << x >>, c, d, e) = Line(a, << >>, Joined(<< x >>, c), d, e)
    /\ Line(Added(a, x), << >>, c, d, e) = Line(a, << x >>, c, d, e)

LEMMA LineSteps ==
    ASSUME NEW S, NEW a \in Seq(S), NEW b \in Seq(S), NEW c \in Seq(S), NEW d \in Seq(S),
           NEW e \in Seq(S), NEW x \in S
    PROVE  LineEquations(a, b, c, d, e, x)
  <1> DEFINE T == Seq(S)
             one == << x >>
             nil == << >>
  <1>1. \A y \in T, z \in T : Joined(y, z) \in T
    BY JoinedTyped
  <1>2. one \in T /\ nil \in T /\ \A y \in T : Added(y, x) = Joined(y, one)
    BY ElementTyped, AddedIsJoined
  <1>3. \A y \in T : Joined(y, nil) = y /\ Joined(nil, y) = y
    BY JoinedEmpty
  <1>4. \A y \in T, z \in T, w \in T : Joined(Joined(y, z), w) = Joined(y, Joined(z, w))
    BY JoinedAssociative
  <1>5. a \in T /\ b \in T /\ c \in T /\ d \in T /\ e \in T
    OBVIOUS
  <1>6. ASSUME e # << >>
        PROVE  << Head(e) >> \in T /\ Tail(e) \in T /\ Joined(<< Head(e) >>, Tail(e)) = e
    BY <1>6, HeadJoinedTail, ElementTyped
  <1> DEFINE first == << Head(e) >>
             rest == Tail(e)
  <1>7. e # << >> => first \in T /\ rest \in T /\ Joined(first, rest) = e
    BY <1>6
  <1> HIDE DEF T, one, nil, first, rest
  <1>8. Line(a, b, c, d, Joined(e, one)) = Joined(Line(a, b, c, d, e), one)
    <2> DEFINE y == Joined(Joined(Joined(a, b), c), d)
    <2>1. y \in T
      BY <1>1, <1>5
    <2> HIDE DEF y
    <2>2. Joined(y, Joined(e, one)) = Joined(Joined(y, e), one)
      BY <2>1, <1>2, <1>4, <1>5
    <2> QED BY <2>2 DEF Line, y
  <1>9. e # << >> => Line(a, b, c, first, rest) = Line(a, b, c, nil, e)
    <2> DEFINE y == Joined(Joined(a, b), c)
    <2>1. y \in T
      BY <1>1, <1>5
    <2> HIDE DEF y
    <2>2. e # << >> => Joined(Joined(y, first), rest) = Joined(Joined(y, nil), e)
      BY <2>1, <1>3, <1>4, <1>5, <1>7
    <2> QED BY <2>2 DEF Line, y
  <1>10. Line(a, b, Joined(c, one), nil, e) = Line(a, b, c, one, e)
    <2> DEFINE y == Joined(a, b)
    <2>1. y \in T /\ Joined(y, c) \in T /\ Joined(c, one) \in T /\ Joined(y, Joined(c, one)) \in T
      BY <1>1, <1>2, <1>5
    <2> HIDE DEF y
    <2>2. Joined(Joined(y, Joined(c, one)), nil) = Joined(Joined(y, c), one)
      BY <2>1, <1>2, <1>3, <1>4, <1>5
    <2> QED BY <2>2 DEF Line, y
  <1>11. Line(a, one, c, d, e) = Line(a, nil, Joined(one, c), d, e)
    <2>1. Joined(Joined(a, one), c) = Joined(Joined(a, nil), Joined(one, c))
      BY <1>2, <1>3, <1>4, <1>5
    <2> QED BY <2>1 DEF Line
  <1>12. Line(Joined(a, one), nil, c, d, e) = Line(a, one, c, d, e)
    <2>1. Joined(Joined(a, one), nil) = Joined(a, one)
      BY <1>1, <1>2, <1>3, <1>5
    <2> QED BY <2>1 DEF Line
  <1>13. Added(e, x) = Joined(e, one) /\ Added(c, x) = Joined(c, one) /\ Added(a, x) = Joined(a, one)
         /\ Added(Line(a, b, c, d, e), x) = Joined(Line(a, b, c, d, e), one)
    BY <1>1, <1>2, <1>5 DEF Line
  <1> QED
    BY <1>8, <1>9, <1>10, <1>11, <1>12, <1>13 DEF LineEquations, one, nil, first, rest

-----------------------------------------------------------------------------
(* The messages of records.                                                   *)
LEMMA MessagesTyped ==
    ASSUME NEW R, NEW M, \A r \in R : r.m \in M, NEW s \in Seq(R)
    PROVE  /\ Messages(s) \in Seq(M) /\ Len(Messages(s)) = Len(s)
           /\ \A k \in 1 .. Len(s) : Messages(s)[k] = s[k].m
           /\ Messages(<< >>) = << >>
  <1>1. Len(s) \in Nat /\ DOMAIN s = 1 .. Len(s) /\ \A k \in DOMAIN s : s[k] \in R
    OBVIOUS
  <1>2. Messages(s) \in [1 .. Len(s) -> M]
    BY <1>1 DEF Messages
  <1>3. Messages(s) \in Seq(M) /\ DOMAIN Messages(s) = 1 .. Len(s)
    BY <1>1, <1>2
  <1>4. Len(Messages(s)) = Len(s)
    BY <1>1, <1>3
  <1>5. Messages(<< >>) = << >>
    BY DEF Messages
  <1> QED BY <1>1, <1>3, <1>4, <1>5 DEF Messages

LEMMA MessagesOfRecords ==
    ASSUME NEW R, NEW M, \A r \in R : r.m \in M, NEW s \in Seq(R), NEW r \in R
    PROVE  /\ Messages(Added(s, r)) = Added(Messages(s), r.m)
           /\ Messages(Joined(<< r >>, s)) = Joined(<< r.m >>, Messages(s))
  <1> DEFINE n == Len(s)
             u == Append(s, r)
             w == << r >> \o s
             x == Messages(s)
             m == r.m
  <1>4. /\ DOMAIN u = 1 .. n + 1 /\ u[n + 1] = r /\ \A k \in 1 .. n : u[k] = s[k]
        /\ DOMAIN w = 1 .. n + 1 /\ w[1] = r /\ \A k \in 1 .. n : w[k + 1] = s[k]
        /\ n \in Nat
    OBVIOUS
  <1> HIDE DEF u, w, x, m, n
  <1>5. x \in Seq(M) /\ Len(x) = n /\ m \in M /\ \A k \in 1 .. n : x[k] = s[k].m
    <2>1. r.m \in M
      OBVIOUS
    <2> QED BY <2>1, MessagesTyped DEF x, n, m
  <1>6. Messages(u) = Append(x, m)
    <2> DEFINE y == Messages(u)
    <2>1. y = [k \in 1 .. n + 1 |-> u[k].m]
      BY <1>4 DEF Messages
    <2>2. \A k \in 1 .. n + 1 : u[k].m = IF k = n + 1 THEN m ELSE x[k]
      BY <1>4, <1>5 DEF m
    <2> DEFINE z == Append(x, m)
    <2>3. z = [k \in 1 .. n + 1 |-> z[k]] /\ \A k \in 1 .. n + 1 : z[k] = IF k = n + 1 THEN m ELSE x[k]
      <3>1. z \in Seq(M) /\ DOMAIN z = 1 .. n + 1
        BY <1>4, <1>5
      <3>2. z = [k \in 1 .. n + 1 |-> z[k]]
        <4> HIDE DEF z
        <4> QED BY <3>1
      <3>3. \A k \in 1 .. n + 1 : z[k] = IF k = n + 1 THEN m ELSE x[k]
        BY <1>4, <1>5
      <3> HIDE DEF z
      <3> QED BY <3>2, <3>3
    <2> HIDE DEF y, z
    <2>4. y = z
      BY <2>1, <2>2, <2>3
    <2> QED BY <2>4 DEF y, z
  <1>7. Messages(w) = << m >> \o x
    <2> DEFINE y == Messages(w)
               z == << m >> \o x
    <2>1. y = [k \in 1 .. n + 1 |-> w[k].m]
      BY <1>4 DEF Messages
    <2>2. \A k \in 1 .. n + 1 : w[k].m = IF k = 1 THEN m ELSE x[k - 1]
      <3> SUFFICES ASSUME NEW k \in 1 .. n + 1 PROVE w[k].m = IF k = 1 THEN m ELSE x[k - 1]
        OBVIOUS
      <3>1. CASE k = 1
        BY <1>4, <3>1 DEF m
      <3>2. CASE k # 1
        <4>1. k - 1 \in 1 .. n /\ (k - 1) + 1 = k
          BY <1>4, <3>2
        <4>2. w[k] = s[k - 1]
          BY <1>4, <4>1
        <4> QED BY <1>5, <3>2, <4>1, <4>2
      <3> QED BY <3>1, <3>2
    <2>3. z = [k \in 1 .. n + 1 |-> z[k]] /\ \A k \in 1 .. n + 1 : z[k] = IF k = 1 THEN m ELSE x[k - 1]
      <3>1. Len(<< m >>) = 1 /\ << m >>[1] = m /\ << m >> \in Seq(M)
        BY <1>5
      <3>2. z \in Seq(M) /\ DOMAIN z = 1 .. n + 1
        <4>1. z \in Seq(M)
          BY <1>5, <3>1, JoinedTyped DEF Joined
        <4>2. DOMAIN z = 1 .. Len(<< m >>) + Len(x)
          BY <1>5, <3>1
        <4>3. 1 + n = n + 1
          BY <1>4
        <4> QED BY <1>5, <3>1, <4>1, <4>2, <4>3
      <3>3. z = [k \in 1 .. n + 1 |-> z[k]]
        <4> HIDE DEF z
        <4> QED BY <3>2
      <3>4. \A k \in 1 .. n + 1 : z[k] = IF k = 1 THEN m ELSE x[k - 1]
        BY <1>4, <1>5
      <3> HIDE DEF z
      <3> QED BY <3>3, <3>4
    <2> HIDE DEF y, z
    <2>4. y = z
      BY <2>1, <2>2, <2>3
    <2> QED BY <2>4 DEF y, z
  <1> QED
    BY <1>6, <1>7 DEF Added, Joined, u, w, x, m

(* The messages of the records of one sort.                                    *)
Chosen(s, G) == {k \in DOMAIN s : s[k] \in G}
Sorted(s, G) == Messages(Picked(s, Chosen(s, G)))

LEMMA ChosenRecords ==
    ASSUME NEW R, NEW G, G \subseteq R, NEW s \in Seq(R)
    PROVE  Picked(s, Chosen(s, G)) \in Seq(G)
  <1> DEFINE p == Picked(s, Chosen(s, G))
  <1>1. /\ p \in Seq(R)
        /\ {p[j] : j \in DOMAIN p} = {s[k] : k \in Chosen(s, G) \cap DOMAIN s}
    BY PickedElements
  <1> HIDE DEF p
  <1>2. \A j \in DOMAIN p : p[j] \in G
    <2> SUFFICES ASSUME NEW j \in DOMAIN p PROVE p[j] \in G
      OBVIOUS
    <2>1. p[j] \in {s[k] : k \in Chosen(s, G) \cap DOMAIN s}
      BY <1>1
    <2> QED BY <2>1 DEF Chosen
  <1>3. p \in Seq(G)
    BY <1>1, <1>2
  <1> QED BY <1>3 DEF p

IsSort(R, M, G) == G \subseteq R /\ \A r \in G : r.m \in M

SortEquations(R, M, G, s) ==
    /\ Sorted(s, G) \in Seq(M)
    /\ \A r \in R : Sorted(Added(s, r), G) =
          IF r \in G THEN Added(Sorted(s, G), r.m) ELSE Sorted(s, G)
    /\ s # << >> => Sorted(s, G) =
          IF Head(s) \in G THEN Joined(<< Head(s).m >>, Sorted(Tail(s), G))
          ELSE Sorted(Tail(s), G)

LEMMA SortedSteps ==
    ASSUME NEW R, NEW M, NEW G, IsSort(R, M, G), NEW s \in Seq(R)
    PROVE  SortEquations(R, M, G, s)
  <1> USE DEF IsSort
  <1>1. Picked(s, Chosen(s, G)) \in Seq(G)
    BY ChosenRecords
  <1>2. Sorted(s, G) \in Seq(M)
    BY <1>1, MessagesTyped DEF Sorted
  <1>3. ASSUME NEW r \in R
        PROVE  Sorted(Added(s, r), G) =
                 IF r \in G THEN Added(Sorted(s, G), r.m) ELSE Sorted(s, G)
    <2> DEFINE P == Chosen(s, G)
               Q == Chosen(Added(s, r), G)
    <2>1. /\ \A k \in 1 .. Len(s) : k \in P <=> k \in Q
          /\ Len(s) + 1 \in Q <=> r \in G
      <3>1. /\ DOMAIN s = 1 .. Len(s) /\ DOMAIN Append(s, r) = 1 .. Len(s) + 1 /\ Len(s) \in Nat
            /\ Append(s, r)[Len(s) + 1] = r /\ \A k \in 1 .. Len(s) : Append(s, r)[k] = s[k]
        OBVIOUS
      <3> QED BY <3>1 DEF Chosen, Added
    <2> HIDE DEF P, Q
    <2>2. Picked(Added(s, r), Q) =
            IF Len(s) + 1 \in Q THEN Added(Picked(s, P), r) ELSE Picked(s, P)
      BY <2>1, PickedAppend
    <2>3. CASE r \in G
      <3>1. Picked(s, P) \in Seq(G)
        BY <1>1 DEF P
      <3> DEFINE x == Picked(s, P)
                 y == Picked(Added(s, r), Q)
      <3>2. x \in Seq(G) /\ y = Added(x, r)
        BY <2>1, <2>2, <2>3, <3>1
      <3> HIDE DEF x, y
      <3>3. Messages(y) = Added(Messages(x), r.m)
        BY <2>3, <3>2, MessagesOfRecords
      <3> QED BY <2>3, <3>3 DEF Sorted, x, y, P, Q
    <2>4. CASE r \notin G
      BY <2>1, <2>2, <2>4 DEF Sorted, P, Q
    <2> QED BY <2>3, <2>4
  <1>4. ASSUME s # << >>
        PROVE  Sorted(s, G) =
                 IF Head(s) \in G THEN Joined(<< Head(s).m >>, Sorted(Tail(s), G))
                 ELSE Sorted(Tail(s), G)
    <2> DEFINE P == Chosen(s, G)
               Q == Chosen(Tail(s), G)
               t == Tail(s)
    <2>1. /\ \A k \in 2 .. Len(s) : k \in P <=> k - 1 \in Q
          /\ 1 \in P <=> Head(s) \in G
      <3>1. /\ DOMAIN s = 1 .. Len(s) /\ DOMAIN Tail(s) = 1 .. Len(s) - 1
            /\ Len(s) \in Nat /\ Len(s) >= 1
            /\ Head(s) = s[1] /\ \A k \in 2 .. Len(s) : Tail(s)[k - 1] = s[k]
        BY <1>4
      <3>2. 1 \in P <=> Head(s) \in G
        BY <3>1 DEF Chosen
      <3>3. ASSUME NEW k \in 2 .. Len(s) PROVE k \in P <=> k - 1 \in Q
        <4>1. k \in DOMAIN s /\ k - 1 \in DOMAIN Tail(s) /\ Tail(s)[k - 1] = s[k]
          BY <3>1
        <4> QED BY <4>1 DEF Chosen
      <3> QED BY <3>2, <3>3
    <2>2. Head(s) \in R /\ t \in Seq(R)
      BY <1>4, HeadJoinedTail
    <2>3. Picked(t, Q) \in Seq(G)
      BY <2>2, ChosenRecords
    <2> HIDE DEF P, Q
    <2>4. Picked(s, P) = Joined(IF 1 \in P THEN << Head(s) >> ELSE << >>, Picked(Tail(s), Q))
      BY <1>4, <2>1, PickedTail
    <2> DEFINE x == Picked(t, Q)
               y == Picked(s, P)
               h == Head(s)
               one == << h >>
               m == h.m
    <2>5. x \in Seq(G) /\ h \in R /\ (1 \in P <=> h \in G)
      BY <2>1, <2>2, <2>3
    <2>6. y = Joined(IF h \in G THEN one ELSE << >>, x)
      BY <2>1, <2>4
    <2> HIDE DEF t, x, y, h, one, m
    <2>7. Messages(y) = IF h \in G THEN Joined(<< m >>, Messages(x)) ELSE Messages(x)
      <3>1. CASE h \in G
        <4>1. Messages(Joined(<< h >>, x)) = Joined(<< h.m >>, Messages(x))
          BY <2>5, <3>1, MessagesOfRecords
        <4> QED BY <2>6, <3>1, <4>1 DEF one, m
      <3>2. CASE h \notin G
        <4>1. Joined(<< >>, x) = x
          BY <2>5, JoinedEmpty
        <4> QED BY <2>6, <3>2, <4>1
      <3> QED BY <3>1, <3>2
    <2>8. Messages(y) = Sorted(s, G) /\ Messages(x) = Sorted(Tail(s), G)
      BY DEF Sorted, x, y, t, P, Q
    <2> QED BY <2>7, <2>8 DEF h, m
  <1> QED BY <1>2, <1>3, <1>4 DEF SortEquations

-----------------------------------------------------------------------------
(* The values that the variables of Gossip have.                               *)
SubscribeTo(t) == [cmd |-> "Subscribe", topic |-> t]
PublishOn(t, m) == [cmd |-> "Publish", topic |-> t, m |-> m]
Command == [cmd : {"Subscribe"}, topic : Topic] \cup [cmd : {"Publish"}, topic : Topic, m : Msg]
Publishes(t) == {r \in Command : r.cmd = "Publish" /\ r.topic = t}
Deliveries == [at : {"deliver"}, topic : Topic, m : Msg, own : BOOLEAN]
Records == [m : Msg, own : BOOLEAN]
Own == {r \in Records : r.own}
Hands == {<< >>} \cup {<< m >> : m \in Msg}

Panics == {Panic(why) : why \in {"topic", "record", "decode", "owner"}}

GossipTypes ==
    /\ cmds \in Seq(Command) /\ Len(cmds) <= CmdCapacity
    /\ task \in {Select} \cup Panics \cup Deliveries
    /\ subscriptions \subseteq owned /\ joined \subseteq subscriptions /\ owned \subseteq Topic
    /\ records \subseteq Msg /\ seen \subseteq Topic \X Msg
    /\ outbound_msgs \in [Topic -> Seq(Msg)] /\ inbound_msgs \in [Topic -> Seq(Msg)]
    /\ hand \in [Topic -> Hands]
    /\ sent \in [Topic -> Seq(Msg)] /\ delivered \in [Topic -> Seq(Records)]
    /\ \A t \in Topic : /\ Len(outbound_msgs[t]) <= OutboundCapacity
                        /\ Len(inbound_msgs[t]) <= OwnerCapacity

(* The command to subscribe to t is before place k.                            *)
Before(s, t, k) == \E j \in DOMAIN s : j < k /\ s[j] = SubscribeTo(t)

(* A topic is known before anything is published on it: its owner subscribes     *)
(* before it sends, and the commands keep that order.                             *)
TopicsKnown ==
    /\ task # Panic("topic")
    /\ \A t \in owned : t \in subscriptions \/ Before(cmds, t, Len(cmds) + 1)
    /\ \A k \in DOMAIN cmds :
          /\ cmds[k].topic \in owned
          /\ cmds[k].cmd = "Publish" =>
                cmds[k].topic \in subscriptions \/ Before(cmds, cmds[k].topic, k)
    /\ \A t \in Topic : hand[t] # << >> \/ outbound_msgs[t] # << >> => t \in owned

InLine(t) == Line(Sorted(delivered[t], Own), InTask(t), Sorted(cmds, Publishes(t)),
                  hand[t], outbound_msgs[t])
InOrder == task.at # "panicked" => \A t \in Topic : sent[t] = InLine(t)

GossipInv == GossipTypes /\ TopicsKnown /\ InOrder /\ closed \subseteq owned

(* One more command, and one less.                                             *)
LEMMA SequenceSteps ==
    ASSUME NEW S, NEW s \in Seq(S)
    PROVE  /\ Len(s) \in Nat /\ DOMAIN s = 1 .. Len(s) /\ \A k \in 1 .. Len(s) : s[k] \in S
           /\ \A e \in S : /\ Append(s, e) \in Seq(S) /\ Len(Append(s, e)) = Len(s) + 1
                           /\ Append(s, e)[Len(s) + 1] = e
                           /\ \A k \in 1 .. Len(s) : Append(s, e)[k] = s[k]
           /\ s # << >> => /\ Head(s) \in S /\ Head(s) = s[1] /\ Tail(s) \in Seq(S)
                           /\ Len(Tail(s)) = Len(s) - 1 /\ Len(s) > 0
                           /\ \A k \in 1 .. Len(s) - 1 : Tail(s)[k] = s[k + 1]
  OBVIOUS

LEMMA GossipTypesStep ==
    ASSUME GossipTypes, TopicsKnown, [GossipNext]_gossipVars PROVE GossipTypes'
  <1> USE GossipAssumption
  <1> DEFINE Cmds == cmds \in Seq(Command) /\ Len(cmds) <= CmdCapacity
             TaskOK == task \in {Select} \cup Panics \cup Deliveries
             Sets == /\ subscriptions \subseteq owned /\ joined \subseteq subscriptions
                     /\ owned \subseteq Topic
                     /\ records \subseteq Msg /\ seen \subseteq Topic \X Msg
             Out == /\ outbound_msgs \in [Topic -> Seq(Msg)]
                    /\ \A t \in Topic : Len(outbound_msgs[t]) <= OutboundCapacity
             Inb == /\ inbound_msgs \in [Topic -> Seq(Msg)]
                    /\ \A t \in Topic : Len(inbound_msgs[t]) <= OwnerCapacity
             HandOK == hand \in [Topic -> Hands]
             SentOK == sent \in [Topic -> Seq(Msg)]
             DeliveredOK == delivered \in [Topic -> Seq(Records)]
             All == /\ Cmds /\ TaskOK /\ Sets /\ Out /\ Inb /\ HandOK /\ SentOK /\ DeliveredOK
  <1>1. All
    BY DEF GossipTypes
  <1>2. SUFFICES All'
    BY DEF GossipTypes
  <1>c. ASSUME NEW r \in Command, Len(cmds) < CmdCapacity, cmds' = Append(cmds, r) PROVE Cmds'
    <2>1. Append(cmds, r) \in Seq(Command) /\ Len(Append(cmds, r)) = Len(cmds) + 1
      BY <1>1, SequenceSteps
    <2>2. Len(cmds) + 1 <= CmdCapacity
      BY <1>1, <1>c, SequenceSteps
    <2> QED BY <1>c, <2>1, <2>2
  <1>d. ASSUME cmds # << >>, cmds' = Tail(cmds)
        PROVE  Cmds' /\ Head(cmds) \in Command
    <2>1. /\ Tail(cmds) \in Seq(Command) /\ Len(Tail(cmds)) = Len(cmds) - 1 /\ Len(cmds) \in Nat
          /\ Head(cmds) \in Command
      BY <1>1, <1>d, SequenceSteps
    <2>2. Len(cmds) - 1 <= CmdCapacity
      BY <1>1, <2>1
    <2> QED BY <1>d, <2>1, <2>2
  <1>3. ASSUME NEW t \in Topic, Subscribe(t) PROVE All'
    <2>1. SubscribeTo(t) \in Command
      BY DEF SubscribeTo, Command
    <2>2. Cmds'
      BY <1>c, <1>3, <2>1 DEF Subscribe, SubscribeTo
    <2>3. /\ owned' = owned \cup {t}
          /\ UNCHANGED <<task, subscriptions, joined, records, seen, outbound_msgs, inbound_msgs,
                         hand, sent, delivered>>
      BY <1>3 DEF Subscribe, swarm
    <2> HIDE DEF Cmds
    <2> QED BY <1>1, <2>2, <2>3
  <1>4. ASSUME NEW t \in Topic, NEW m \in Msg, SendOutbound(t, m) PROVE All'
    <2>1. /\ UNCHANGED <<cmds, task, subscriptions, joined, records, seen, owned, inbound_msgs,
                         hand, delivered>>
          /\ Len(outbound_msgs[t]) < OutboundCapacity
          /\ outbound_msgs' = [outbound_msgs EXCEPT ![t] = Append(@, m)]
          /\ sent' = [sent EXCEPT ![t] = Append(@, m)]
      BY <1>4 DEF SendOutbound, swarm
    <2>2. /\ outbound_msgs[t] \in Seq(Msg) /\ sent[t] \in Seq(Msg)
      BY <1>1
    <2> DEFINE x == Append(outbound_msgs[t], m)
               y == Append(sent[t], m)
    <2>3. x \in Seq(Msg) /\ y \in Seq(Msg) /\ Len(x) = Len(outbound_msgs[t]) + 1
          /\ Len(outbound_msgs[t]) \in Nat
      BY <2>2, SequenceSteps
    <2>4. Len(x) <= OutboundCapacity
      BY <2>1, <2>3
    <2>5. outbound_msgs' = [outbound_msgs EXCEPT ![t] = x] /\ sent' = [sent EXCEPT ![t] = y]
      BY <2>1
    <2> HIDE DEF x, y
    <2>6. Out' /\ SentOK'
      BY <1>1, <2>3, <2>4, <2>5
    <2> HIDE DEF Out, SentOK
    <2> QED BY <1>1, <2>1, <2>6
  <1>5. ASSUME NEW t \in Topic, ReceiveInbound(t) PROVE All'
    <2>1. /\ UNCHANGED <<cmds, task, subscriptions, joined, records, seen, owned, outbound_msgs,
                         hand, sent, delivered>>
          /\ inbound_msgs[t] # << >>
          /\ inbound_msgs' = [inbound_msgs EXCEPT ![t] = Tail(@)]
      BY <1>5 DEF ReceiveInbound, swarm
    <2> DEFINE x == Tail(inbound_msgs[t])
    <2>2. x \in Seq(Msg) /\ Len(x) = Len(inbound_msgs[t]) - 1 /\ Len(inbound_msgs[t]) \in Nat
      BY <1>1, <2>1, SequenceSteps
    <2>3. inbound_msgs' = [inbound_msgs EXCEPT ![t] = x] /\ Len(x) <= OwnerCapacity
      BY <1>1, <2>1, <2>2
    <2> HIDE DEF x
    <2>4. Inb'
      BY <1>1, <2>2, <2>3
    <2> HIDE DEF Inb
    <2> QED BY <1>1, <2>1, <2>4
  <1>6. ASSUME NEW t \in Topic, TakeOutbound(t) PROVE All'
    <2>1. /\ UNCHANGED <<cmds, task, subscriptions, joined, records, seen, owned, inbound_msgs,
                         sent, delivered>>
          /\ outbound_msgs[t] # << >>
          /\ outbound_msgs' = [outbound_msgs EXCEPT ![t] = Tail(@)]
          /\ hand' = [hand EXCEPT ![t] = << Head(outbound_msgs[t]) >>]
      BY <1>6 DEF TakeOutbound, swarm
    <2> DEFINE x == Tail(outbound_msgs[t])
               h == << Head(outbound_msgs[t]) >>
    <2>2. /\ x \in Seq(Msg) /\ Len(x) = Len(outbound_msgs[t]) - 1 /\ Len(outbound_msgs[t]) \in Nat
          /\ Head(outbound_msgs[t]) \in Msg
      BY <1>1, <2>1, SequenceSteps
    <2>3. h \in Hands
      BY <2>2 DEF Hands
    <2>4. /\ outbound_msgs' = [outbound_msgs EXCEPT ![t] = x] /\ Len(x) <= OutboundCapacity
          /\ hand' = [hand EXCEPT ![t] = h]
      BY <1>1, <2>1, <2>2
    <2> HIDE DEF x, h
    <2>5. Out' /\ HandOK'
      BY <1>1, <2>2, <2>3, <2>4
    <2> HIDE DEF Out, HandOK
    <2> QED BY <1>1, <2>1, <2>5
  <1>7. ASSUME NEW t \in Topic, ForwardOutbound(t) PROVE All'
    <2>1. /\ UNCHANGED <<task, subscriptions, joined, records, seen, owned, outbound_msgs,
                         inbound_msgs, sent, delivered>>
          /\ hand[t] # << >> /\ Len(cmds) < CmdCapacity
          /\ cmds' = Append(cmds, PublishOn(t, hand[t][1]))
          /\ hand' = [hand EXCEPT ![t] = << >>]
      BY <1>7 DEF ForwardOutbound, PublishOn, swarm
    <2>2. hand[t][1] \in Msg
      BY <1>1, <2>1 DEF Hands
    <2>3. PublishOn(t, hand[t][1]) \in Command
      BY <2>2 DEF PublishOn, Command
    <2>4. Cmds'
      BY <1>c, <2>1, <2>3
    <2>5. HandOK'
      BY <1>1, <2>1 DEF Hands
    <2> HIDE DEF Cmds, HandOK
    <2> QED BY <1>1, <2>1, <2>4, <2>5
  <1>8. CASE TakeSubscribe
    <2>1. /\ UNCHANGED <<task, records, seen, owned, outbound_msgs, inbound_msgs, hand, sent, delivered>>
          /\ cmds # << >> /\ cmds' = Tail(cmds)
          /\ subscriptions' = subscriptions \cup {Head(cmds).topic}
          /\ joined' = joined \cup {Head(cmds).topic}
      BY <1>8 DEF TakeSubscribe
    <2>2. Cmds'
      BY <1>d, <2>1
    <2>3. Head(cmds).topic \in owned
      BY <1>1, <2>1, SequenceSteps DEF TopicsKnown
    <2> HIDE DEF Cmds
    <2> QED BY <1>1, <2>1, <2>2, <2>3
  <1>9. CASE TakePublish
    <2>1. /\ UNCHANGED <<joined, subscriptions, owned, outbound_msgs, inbound_msgs, hand, sent, delivered>>
          /\ cmds # << >> /\ cmds' = Tail(cmds) /\ Head(cmds).cmd = "Publish"
      BY <1>9 DEF TakePublish
    <2>2. Cmds' /\ Head(cmds) \in Command
      BY <1>d, <2>1
    <2>3. Head(cmds).topic \in Topic /\ Head(cmds).m \in Msg
      BY <2>1, <2>2 DEF Command
    <2> DEFINE h == Head(cmds)
    <2> HIDE DEF Cmds, h
    <2>4. /\ records' \subseteq records \cup {h.m}
          /\ seen' \subseteq seen \cup {<<h.topic, h.m>>}
          /\ task' \in {Panic("topic"), Panic("record"), Delivery(h.topic, h.m, TRUE)}
      BY <1>9 DEF TakePublish, h
    <2>5. Delivery(h.topic, h.m, TRUE) \in Deliveries
      BY <2>3 DEF Delivery, Deliveries, h
    <2>6. TaskOK'
      BY <2>4, <2>5 DEF Panics
    <2>7. Sets'
      BY <1>1, <2>1, <2>3, <2>4 DEF h
    <2> HIDE DEF TaskOK, Sets
    <2> QED BY <1>1, <2>1, <2>2, <2>6, <2>7
  <1>10. ASSUME NEW t \in Topic, NEW m \in Msg, TakeMessage(t, m) PROVE All'
    <2>1. /\ UNCHANGED <<cmds, joined, records, subscriptions, owned, outbound_msgs, inbound_msgs,
                         hand, sent, delivered>>
          /\ seen' = seen \cup {<<t, m>>}
          /\ task' \in {Panic("topic"), Delivery(t, m, FALSE)}
      BY <1>10 DEF TakeMessage, channels
    <2>2. Delivery(t, m, FALSE) \in Deliveries
      BY DEF Delivery, Deliveries
    <2>3. TaskOK'
      BY <2>1, <2>2 DEF Panics
    <2>4. Sets'
      BY <1>1, <2>1
    <2> HIDE DEF TaskOK, Sets
    <2> QED BY <1>1, <2>1, <2>3, <2>4
  <1>11. CASE Deliver
    <2>1. /\ UNCHANGED <<cmds, outbound_msgs, hand, joined, records, seen, subscriptions, owned, sent>>
          /\ task.at = "deliver" /\ task' = Select
          /\ Len(inbound_msgs[task.topic]) < OwnerCapacity
          /\ inbound_msgs' = [inbound_msgs EXCEPT ![task.topic] = Append(@, task.m)]
          /\ delivered' = [delivered EXCEPT ![task.topic] =
                             Append(@, [m |-> task.m, own |-> task.own])]
      BY <1>11 DEF Deliver, swarm
    <2>2. task.topic \in Topic /\ task.m \in Msg /\ task.own \in BOOLEAN
      BY <1>1, <2>1 DEF Select, Panics, Panic, Deliveries
    <2> DEFINE t == task.topic
               r == [m |-> task.m, own |-> task.own]
               x == Append(inbound_msgs[t], task.m)
               y == Append(delivered[t], r)
    <2>3. r \in Records /\ inbound_msgs[t] \in Seq(Msg) /\ delivered[t] \in Seq(Records)
      BY <1>1, <2>2 DEF Records
    <2> HIDE DEF r
    <2>4. x \in Seq(Msg) /\ y \in Seq(Records) /\ Len(x) = Len(inbound_msgs[t]) + 1
          /\ Len(inbound_msgs[t]) \in Nat
      BY <2>2, <2>3, SequenceSteps
    <2>5. Len(x) <= OwnerCapacity
      BY <2>1, <2>4
    <2>6. /\ inbound_msgs' = [inbound_msgs EXCEPT ![t] = x]
          /\ delivered' = [delivered EXCEPT ![t] = y]
      BY <2>1 DEF r
    <2> HIDE DEF x, y, t
    <2>7. Inb' /\ DeliveredOK'
      BY <1>1, <2>4, <2>5, <2>6
    <2> HIDE DEF Inb, DeliveredOK
    <2> QED BY <1>1, <2>1, <2>7
  <1>12. CASE UNCHANGED gossipVars
    BY <1>1, <1>12 DEF gossipVars, channels, swarm
  <1>13. ASSUME NEW t \in Topic, OwnerEnds(t) PROVE All'
    <2>1. /\ UNCHANGED <<cmds, task, subscriptions, joined, records, seen, owned, outbound_msgs,
                         hand, sent, delivered>>
          /\ inbound_msgs' = [inbound_msgs EXCEPT ![t] = << >>]
      BY <1>13 DEF OwnerEnds, swarm
    <2>2. << >> \in Seq(Msg) /\ Len(<< >>) = 0 /\ 0 <= OwnerCapacity
      OBVIOUS
    <2>3. Inb'
      BY <1>1, <2>1, <2>2
    <2> HIDE DEF Inb
    <2> QED BY <1>1, <2>1, <2>3
  <1>14. ASSUME TakeUndecodable \/ DeliverToNobody PROVE All'
    <2>1. /\ UNCHANGED <<cmds, subscriptions, joined, records, seen, owned, outbound_msgs,
                         inbound_msgs, hand, sent, delivered>>
          /\ task' \in {Panic("decode"), Panic("owner")}
      BY <1>14 DEF TakeUndecodable, DeliverToNobody, channels, swarm
    <2> QED BY <1>1, <2>1 DEF Panics
  <1> QED
    BY <1>3, <1>4, <1>5, <1>6, <1>7, <1>8, <1>9, <1>10, <1>11, <1>12, <1>13, <1>14
       DEF GossipNext, Owner, Forwarder

LEMMA TopicsKnownStep ==
    ASSUME GossipTypes, TopicsKnown, [GossipNext]_gossipVars PROVE TopicsKnown'
  <1> DEFINE OwnersKnown == \A t \in owned : t \in subscriptions \/ Before(cmds, t, Len(cmds) + 1)
             CommandsKnown ==
               \A k \in DOMAIN cmds :
                  /\ cmds[k].topic \in owned
                  /\ cmds[k].cmd = "Publish" =>
                        cmds[k].topic \in subscriptions \/ Before(cmds, cmds[k].topic, k)
             OutKnown == \A t \in Topic : hand[t] # << >> \/ outbound_msgs[t] # << >> => t \in owned
             NoPanic == task # Panic("topic")
             All == NoPanic /\ OwnersKnown /\ CommandsKnown /\ OutKnown
  <1>1. All
    BY DEF TopicsKnown
  <1>2. SUFFICES All'
    BY DEF TopicsKnown
  <1>t. /\ Len(cmds) \in Nat /\ DOMAIN cmds = 1 .. Len(cmds) /\ cmds \in Seq(Command)
        /\ \A k \in 1 .. Len(cmds) : cmds[k] \in Command
    BY SequenceSteps DEF GossipTypes
  (* A command is added. *)
  <1>a. ASSUME NEW r \in Command, cmds' = Append(cmds, r), subscriptions' = subscriptions,
               owned \subseteq owned',
               r.topic \in owned',
               r.cmd = "Publish" => r.topic \in owned,
               \A t \in owned' \ owned : r = SubscribeTo(t)
        PROVE  OwnersKnown' /\ CommandsKnown'
    <2> DEFINE n == Len(cmds)
    <2>1. /\ Len(cmds') = n + 1 /\ DOMAIN cmds' = 1 .. n + 1 /\ cmds'[n + 1] = r
          /\ \A k \in 1 .. n : cmds'[k] = cmds[k]
          /\ n \in Nat /\ DOMAIN cmds = 1 .. n
      BY <1>t, <1>a, SequenceSteps
    <2> HIDE DEF n
    <2>2. ASSUME NEW t, NEW k \in 1 .. n + 1, Before(cmds, t, k) PROVE Before(cmds', t, k)
      BY <2>1, <2>2 DEF Before
    <2>3. ASSUME NEW t \in owned' PROVE t \in subscriptions' \/ Before(cmds', t, Len(cmds') + 1)
      <3>1. CASE t \in owned
        <4>1. t \in subscriptions \/ Before(cmds, t, n + 1)
          BY <1>1, <3>1 DEF n
        <4>2. Before(cmds', t, n + 1) => Before(cmds', t, Len(cmds') + 1)
          BY <2>1 DEF Before
        <4>3. n + 1 \in 1 .. n + 1
          BY <2>1
        <4> QED BY <1>a, <2>2, <4>1, <4>2, <4>3
      <3>2. CASE t \notin owned
        <4>1. r = SubscribeTo(t)
          BY <1>a, <3>2
        <4>2. n + 1 \in DOMAIN cmds' /\ n + 1 < Len(cmds') + 1 /\ cmds'[n + 1] = SubscribeTo(t)
          BY <2>1, <4>1
        <4> QED BY <4>2 DEF Before
      <3> QED BY <3>1, <3>2
    <2>4. ASSUME NEW k \in DOMAIN cmds'
          PROVE  /\ cmds'[k].topic \in owned'
                 /\ cmds'[k].cmd = "Publish" =>
                       cmds'[k].topic \in subscriptions' \/ Before(cmds', cmds'[k].topic, k)
      <3>1. CASE k = n + 1
        <4>1. cmds'[k] = r
          BY <2>1, <3>1
        <4>2. ASSUME r.cmd = "Publish"
              PROVE  r.topic \in subscriptions' \/ Before(cmds', r.topic, k)
          <5>1. r.topic \in subscriptions \/ Before(cmds, r.topic, n + 1)
            BY <1>1, <1>a, <4>2 DEF n
          <5> QED BY <1>a, <2>2, <3>1, <5>1
        <4> QED BY <1>a, <4>1, <4>2
      <3>2. CASE k # n + 1
        <4>1. k \in 1 .. n /\ k \in 1 .. n + 1 /\ k \in DOMAIN cmds /\ cmds'[k] = cmds[k]
          BY <2>1, <3>2
        <4>2. /\ cmds[k].topic \in owned
              /\ cmds[k].cmd = "Publish" =>
                    cmds[k].topic \in subscriptions \/ Before(cmds, cmds[k].topic, k)
          BY <1>1, <4>1
        <4> QED BY <1>a, <2>2, <4>1, <4>2
      <3> QED BY <3>1, <3>2
    <2> QED BY <2>3, <2>4
  (* A command is taken. *)
  <1>b. ASSUME cmds # << >>, cmds' = Tail(cmds), owned' = owned,
               subscriptions \subseteq subscriptions',
               \A t : Head(cmds) = SubscribeTo(t) => t \in subscriptions'
        PROVE  OwnersKnown' /\ CommandsKnown'
    <2> DEFINE n == Len(cmds)
    <2>1. /\ Len(cmds') = n - 1 /\ DOMAIN cmds' = 1 .. n - 1 /\ cmds[1] = Head(cmds)
          /\ \A k \in 1 .. n - 1 : cmds'[k] = cmds[k + 1]
          /\ n \in Nat /\ DOMAIN cmds = 1 .. n
      BY <1>t, <1>b, SequenceSteps
    <2> HIDE DEF n
    <2>2. ASSUME NEW t, NEW k \in 1 .. n, Before(cmds, t, k + 1)
          PROVE  t \in subscriptions' \/ Before(cmds', t, k)
      <3>1. PICK j \in DOMAIN cmds : j < k + 1 /\ cmds[j] = SubscribeTo(t)
        BY <2>2 DEF Before
      <3>2. CASE j = 1
        BY <1>b, <2>1, <3>1, <3>2
      <3>3. CASE j # 1
        <4>1. j - 1 \in DOMAIN cmds' /\ j - 1 < k /\ j - 1 \in 1 .. n - 1 /\ (j - 1) + 1 = j
          BY <2>1, <3>1, <3>3
        <4>2. cmds'[j - 1] = SubscribeTo(t)
          BY <2>1, <3>1, <4>1
        <4> QED BY <4>1, <4>2 DEF Before
      <3> QED BY <3>2, <3>3
    <2>3. n >= 1
      BY <1>t, <1>b, SequenceSteps DEF n
    <2>4. ASSUME NEW t \in owned' PROVE t \in subscriptions' \/ Before(cmds', t, Len(cmds') + 1)
      <3>1. t \in subscriptions \/ Before(cmds, t, n + 1)
        BY <1>1, <1>b DEF n
      <3>2. n \in 1 .. n /\ Len(cmds') + 1 = n
        BY <2>1, <2>3
      <3> QED BY <1>b, <2>2, <3>1, <3>2
    <2>5. ASSUME NEW k \in DOMAIN cmds'
          PROVE  /\ cmds'[k].topic \in owned'
                 /\ cmds'[k].cmd = "Publish" =>
                       cmds'[k].topic \in subscriptions' \/ Before(cmds', cmds'[k].topic, k)
      <3>1. k \in 1 .. n - 1 /\ k \in 1 .. n /\ k + 1 \in DOMAIN cmds /\ cmds'[k] = cmds[k + 1]
        BY <2>1
      <3>2. /\ cmds[k + 1].topic \in owned
            /\ cmds[k + 1].cmd = "Publish" =>
                  cmds[k + 1].topic \in subscriptions \/ Before(cmds, cmds[k + 1].topic, k + 1)
        BY <1>1, <3>1
      <3> QED BY <1>b, <2>2, <3>1, <3>2
    <2> QED BY <2>4, <2>5
  <1>c. ASSUME UNCHANGED <<cmds, subscriptions, owned>> PROVE OwnersKnown' /\ CommandsKnown'
    BY <1>1, <1>c DEF Before
  <1> HIDE DEF OwnersKnown, CommandsKnown
  <1>3. ASSUME NEW t \in Topic, Subscribe(t) PROVE All'
    <2> DEFINE r == SubscribeTo(t)
    <2>1. /\ r \in Command /\ r.topic = t /\ r.cmd # "Publish"
      BY DEF SubscribeTo, Command
    <2>2. /\ cmds' = Append(cmds, r) /\ owned' = owned \cup {t}
          /\ UNCHANGED <<task, subscriptions, hand, outbound_msgs>>
      BY <1>3 DEF Subscribe, SubscribeTo, swarm
    <2>3. /\ r.topic \in owned' /\ owned \subseteq owned'
          /\ \A u \in owned' \ owned : r = SubscribeTo(u)
      BY <2>1, <2>2
    <2> HIDE DEF r
    <2>4. OwnersKnown' /\ CommandsKnown'
      BY <1>a, <2>1, <2>2, <2>3
    <2> QED BY <1>1, <2>2, <2>3, <2>4
  <1>4. ASSUME NEW t \in Topic, NEW m \in Msg, SendOutbound(t, m) PROVE All'
    <2>1. /\ UNCHANGED <<cmds, task, subscriptions, owned, hand>>
          /\ t \in owned
          /\ outbound_msgs' = [outbound_msgs EXCEPT ![t] = Append(@, m)]
      BY <1>4 DEF SendOutbound, swarm
    <2>2. \A u \in Topic : u # t => outbound_msgs'[u] = outbound_msgs[u]
      BY <2>1 DEF GossipTypes
    <2> QED BY <1>1, <1>c, <2>1, <2>2
  <1>5. ASSUME NEW t \in Topic, ReceiveInbound(t) PROVE All'
    <2>1. UNCHANGED <<cmds, task, subscriptions, owned, hand, outbound_msgs>>
      BY <1>5 DEF ReceiveInbound, swarm
    <2> QED BY <1>1, <1>c, <2>1
  <1>6. ASSUME NEW t \in Topic, TakeOutbound(t) PROVE All'
    <2>1. /\ UNCHANGED <<cmds, task, subscriptions, owned>>
          /\ outbound_msgs[t] # << >>
          /\ outbound_msgs' = [outbound_msgs EXCEPT ![t] = Tail(@)]
          /\ hand' = [hand EXCEPT ![t] = << Head(outbound_msgs[t]) >>]
      BY <1>6 DEF TakeOutbound, swarm
    <2>2. \A u \in Topic : u # t => outbound_msgs'[u] = outbound_msgs[u] /\ hand'[u] = hand[u]
      BY <2>1 DEF GossipTypes
    <2>3. t \in owned
      BY <1>1, <2>1
    <2> QED BY <1>1, <1>c, <2>1, <2>2, <2>3
  <1>7. ASSUME NEW t \in Topic, ForwardOutbound(t) PROVE All'
    <2> DEFINE r == PublishOn(t, hand[t][1])
    <2>1. /\ UNCHANGED <<task, subscriptions, owned, outbound_msgs>>
          /\ hand[t] # << >> /\ cmds' = Append(cmds, r)
          /\ hand' = [hand EXCEPT ![t] = << >>]
      BY <1>7 DEF ForwardOutbound, PublishOn, swarm
    <2>2. hand[t][1] \in Msg
      BY <2>1 DEF GossipTypes, Hands
    <2>3. r \in Command /\ r.topic = t /\ \A u : r # SubscribeTo(u)
      BY <2>2 DEF PublishOn, Command, SubscribeTo
    <2>4. t \in owned
      BY <1>1, <2>1
    <2> HIDE DEF r
    <2>5. OwnersKnown' /\ CommandsKnown'
      BY <1>a, <2>1, <2>3, <2>4
    <2>6. \A u \in Topic : hand'[u] # << >> => hand[u] # << >>
      BY <2>1 DEF GossipTypes
    <2> QED BY <1>1, <2>1, <2>5, <2>6
  <1>8. CASE TakeSubscribe
    <2>1. /\ UNCHANGED <<task, owned, outbound_msgs, hand>>
          /\ cmds # << >> /\ cmds' = Tail(cmds)
          /\ subscriptions' = subscriptions \cup {Head(cmds).topic}
      BY <1>8 DEF TakeSubscribe
    <2>2. \A t : Head(cmds) = SubscribeTo(t) => t \in subscriptions'
      BY <2>1 DEF SubscribeTo
    <2>3. OwnersKnown' /\ CommandsKnown'
      BY <1>b, <2>1, <2>2
    <2> QED BY <1>1, <2>1, <2>3
  <1>9. CASE TakePublish
    <2>1. /\ UNCHANGED <<subscriptions, owned, outbound_msgs, hand>>
          /\ cmds # << >> /\ cmds' = Tail(cmds) /\ Head(cmds).cmd = "Publish"
      BY <1>9 DEF TakePublish
    <2>2. \A t : Head(cmds) # SubscribeTo(t)
      BY <2>1 DEF SubscribeTo
    <2>3. OwnersKnown' /\ CommandsKnown'
      BY <1>b, <2>1, <2>2
    <2>4. Head(cmds).topic \in subscriptions
      <3>1. Head(cmds) = cmds[1] /\ 1 \in DOMAIN cmds
        BY <1>t, <2>1, SequenceSteps
      <3>2. ~ Before(cmds, cmds[1].topic, 1)
        BY <1>t DEF Before
      <3> QED BY <1>1, <2>1, <3>1, <3>2 DEF CommandsKnown
    <2>5. NoPanic'
      <3>1. Panic("record") # Panic("topic") /\ \A t, m : Delivery(t, m, TRUE) # Panic("topic")
        BY DEF Panic, Delivery
      <3>2. task' \in {Panic("record"), Delivery(Head(cmds).topic, Head(cmds).m, TRUE)}
        BY <1>9, <2>4 DEF TakePublish
      <3> QED BY <3>1, <3>2
    <2> QED BY <1>1, <2>1, <2>3, <2>5
  <1>10. ASSUME NEW t \in Topic, NEW m \in Msg, TakeMessage(t, m) PROVE All'
    <2>1. /\ UNCHANGED <<cmds, subscriptions, owned, outbound_msgs, hand>>
          /\ t \in joined
          /\ task' = IF t \in subscriptions THEN Delivery(t, m, FALSE) ELSE Panic("topic")
      BY <1>10 DEF TakeMessage, channels
    <2>2. t \in subscriptions
      BY <2>1 DEF GossipTypes
    <2>3. task' # Panic("topic")
      BY <2>1, <2>2 DEF Delivery, Panic
    <2> QED BY <1>1, <1>c, <2>1, <2>3
  <1>11. CASE Deliver
    <2>1. /\ UNCHANGED <<cmds, outbound_msgs, hand, subscriptions, owned>> /\ task' = Select
      BY <1>11 DEF Deliver, swarm
    <2>2. task' # Panic("topic")
      BY <2>1 DEF Select, Panic
    <2> QED BY <1>1, <1>c, <2>1, <2>2
  <1>12. CASE UNCHANGED gossipVars
    <2>1. UNCHANGED <<cmds, task, outbound_msgs, hand, subscriptions, owned>>
      BY <1>12 DEF gossipVars, channels
    <2> QED BY <1>1, <1>c, <2>1
  <1>13. ASSUME NEW t \in Topic, OwnerEnds(t) PROVE All'
    <2>1. UNCHANGED <<cmds, task, subscriptions, owned, hand, outbound_msgs>>
      BY <1>13 DEF OwnerEnds, swarm
    <2> QED BY <1>1, <1>c, <2>1
  <1>14. ASSUME TakeUndecodable \/ DeliverToNobody PROVE All'
    <2>1. /\ UNCHANGED <<cmds, subscriptions, owned, hand, outbound_msgs>>
          /\ task' \in {Panic("decode"), Panic("owner")}
      BY <1>14 DEF TakeUndecodable, DeliverToNobody, channels
    <2>2. task' # Panic("topic")
      BY <2>1 DEF Panic
    <2> QED BY <1>1, <1>c, <2>1, <2>2
  <1> QED
    BY <1>3, <1>4, <1>5, <1>6, <1>7, <1>8, <1>9, <1>10, <1>11, <1>12, <1>13, <1>14
       DEF GossipNext, Owner, Forwarder

(* The two selections of the model are selections by sort.                     *)
LEMMA CommandsSorted ==
    ASSUME NEW s \in Seq(Command), NEW t
    PROVE  Messages(Picked(s, {k \in DOMAIN s : s[k].cmd = "Publish" /\ s[k].topic = t}))
             = Sorted(s, Publishes(t))
  <1>1. \A k \in DOMAIN s : s[k] \in Command
    BY SequenceSteps
  <1>2. {k \in DOMAIN s : s[k].cmd = "Publish" /\ s[k].topic = t} = Chosen(s, Publishes(t))
    BY <1>1 DEF Chosen, Publishes
  <1> QED BY <1>2 DEF Sorted

LEMMA RecordsSorted ==
    ASSUME NEW s \in Seq(Records)
    PROVE  Messages(Picked(s, {k \in DOMAIN s : s[k].own})) = Sorted(s, Own)
  <1>1. \A k \in DOMAIN s : s[k] \in Records
    BY SequenceSteps
  <1>2. {k \in DOMAIN s : s[k].own} = Chosen(s, Own)
    BY <1>1 DEF Chosen, Own
  <1> QED BY <1>2 DEF Sorted

LEMMA CommandSteps ==
    ASSUME NEW t, NEW s \in Seq(Command)
    PROVE  /\ Sorted(s, Publishes(t)) \in Seq(Msg)
           /\ \A r \in Command : Sorted(Added(s, r), Publishes(t)) =
                 IF r \in Publishes(t) THEN Added(Sorted(s, Publishes(t)), r.m)
                 ELSE Sorted(s, Publishes(t))
           /\ s # << >> => Sorted(s, Publishes(t)) =
                 IF Head(s) \in Publishes(t)
                 THEN Joined(<< Head(s).m >>, Sorted(Tail(s), Publishes(t)))
                 ELSE Sorted(Tail(s), Publishes(t))
  <1>1. IsSort(Command, Msg, Publishes(t))
    BY DEF Publishes, Command, IsSort
  <1>2. SortEquations(Command, Msg, Publishes(t), s)
    BY <1>1, SortedSteps
  <1> QED BY <1>2 DEF SortEquations

LEMMA DeliveredSteps ==
    ASSUME NEW s \in Seq(Records)
    PROVE  /\ Sorted(s, Own) \in Seq(Msg)
           /\ \A r \in Records : Sorted(Added(s, r), Own) =
                 IF r.own THEN Added(Sorted(s, Own), r.m) ELSE Sorted(s, Own)
  <1>1. IsSort(Records, Msg, Own) /\ \A r \in Records : r \in Own <=> r.own
    BY DEF Own, Records, IsSort
  <1>2. SortEquations(Records, Msg, Own, s)
    BY <1>1, SortedSteps
  <1> QED BY <1>1, <1>2 DEF SortEquations

LEMMA InOrderStep ==
    ASSUME GossipTypes, GossipTypes', InOrder, [GossipNext]_gossipVars PROVE InOrder'
  <1> DEFINE D(t) == Sorted(delivered[t], Own)
             C(t) == Sorted(cmds, Publishes(t))
             L(t) == Line(D(t), InTask(t), C(t), hand[t], outbound_msgs[t])
  <1>t. ASSUME NEW t \in Topic
        PROVE  /\ D(t) \in Seq(Msg) /\ C(t) \in Seq(Msg) /\ InTask(t) \in Seq(Msg)
               /\ hand[t] \in Seq(Msg) /\ outbound_msgs[t] \in Seq(Msg) /\ sent[t] \in Seq(Msg)
    <2>1. delivered[t] \in Seq(Records) /\ cmds \in Seq(Command) /\ hand[t] \in Hands
          /\ outbound_msgs[t] \in Seq(Msg) /\ sent[t] \in Seq(Msg)
      BY DEF GossipTypes
    <2>2. hand[t] \in Seq(Msg)
      <3>1. \A m \in Msg : << m >> \in Seq(Msg)
        BY ElementTyped
      <3>2. << >> \in Seq(Msg)
        OBVIOUS
      <3> DEFINE x == hand[t]
      <3>3. x \in Hands
        BY <2>1
      <3> HIDE DEF x
      <3>4. CASE x = << >>
        BY <3>2, <3>4 DEF x
      <3>5. ASSUME NEW m \in Msg, x = << m >> PROVE x \in Seq(Msg)
        BY <3>1, <3>5
      <3> QED BY <3>3, <3>4, <3>5 DEF Hands, x
    <2>3. InTask(t) \in Seq(Msg)
      <3>1. CASE task.at = "deliver"
        <4>1. task.m \in Msg
          BY <3>1 DEF GossipTypes, Deliveries, Select, Panics, Panic
        <4>2. << task.m >> \in Seq(Msg)
          BY <4>1
        <4> QED BY <4>2 DEF InTask
      <3>2. CASE task.at # "deliver"
        BY <3>2 DEF InTask
      <3> QED BY <3>1, <3>2
    <2>4. D(t) \in Seq(Msg)
      BY <2>1, DeliveredSteps
    <2>5. C(t) \in Seq(Msg)
      BY <2>1, CommandSteps
    <2> QED BY <2>1, <2>2, <2>3, <2>4, <2>5
  <1>1. task.at # "panicked" => \A t \in Topic : sent[t] = L(t)
    BY DEF InOrder, InLine
  <1>2. SUFFICES ASSUME task'.at # "panicked", NEW t \in Topic PROVE sent'[t] = L(t)'
    BY DEF InOrder, InLine
  <1> DEFINE d == D(t)
             i == InTask(t)
             c == C(t)
             h == hand[t]
             o == outbound_msgs[t]
             now == task.at # "panicked" => sent[t] = Line(d, i, c, h, o)
  <1>3. /\ d \in Seq(Msg) /\ c \in Seq(Msg) /\ i \in Seq(Msg)
        /\ h \in Seq(Msg) /\ o \in Seq(Msg)
        /\ now
    BY <1>1, <1>t
  <1>4. SUFFICES sent'[t] = Line(d', i', c', h', o')
    OBVIOUS
  <1>5. ASSUME UNCHANGED cmds PROVE c' = c
    BY <1>5
  <1>6. ASSUME UNCHANGED delivered PROVE d' = d
    BY <1>6
  <1>7. ASSUME UNCHANGED task PROVE i' = i
    BY <1>7 DEF InTask
  <1>8. cmds \in Seq(Command)
    BY DEF GossipTypes
  <1> HIDE DEF D, C, d, i, c
  <1>9. ASSUME NEW u \in Topic, Subscribe(u) PROVE sent'[t] = Line(d', i', c', h', o')
    <2> DEFINE r == SubscribeTo(u)
    <2>1. cmds' = Added(cmds, r) /\ UNCHANGED <<task, delivered, hand, outbound_msgs, sent>>
      BY <1>9 DEF Subscribe, SubscribeTo, Added
    <2>2. r \in Command /\ r \notin Publishes(t)
      BY DEF SubscribeTo, Command, Publishes
    <2> HIDE DEF r
    <2>3. Sorted(Added(cmds, r), Publishes(t)) = Sorted(cmds, Publishes(t))
      BY <1>8, <2>2, CommandSteps
    <2>4. c' = c
      BY <2>1, <2>3 DEF c, C
    <2> QED BY <1>2, <1>3, <1>6, <1>7, <2>1, <2>4
  <1>10. ASSUME NEW u \in Topic, NEW m \in Msg, SendOutbound(u, m)
         PROVE  sent'[t] = Line(d', i', c', h', o')
    <2>1. UNCHANGED <<cmds, task, delivered, hand>>
      BY <1>10 DEF SendOutbound
    <2>2. CASE u = t
      <3>1. sent'[t] = Added(sent[t], m) /\ o' = Added(o, m)
        BY <1>10, <2>2 DEF SendOutbound, GossipTypes, Added
      <3> HIDE DEF h, o
      <3>2. Line(d, i, c, h, Added(o, m)) = Added(Line(d, i, c, h, o), m)
        <4>1. LineEquations(d, i, c, h, o, m)
          BY <1>3, LineSteps
        <4> QED BY <4>1 DEF LineEquations
      <3>3. h' = h
        BY <2>1 DEF h
      <3> QED BY <1>2, <1>3, <1>5, <1>6, <1>7, <2>1, <3>1, <3>2, <3>3
    <2>3. CASE u # t
      <3>1. sent'[t] = sent[t] /\ o' = o
        BY <1>10, <2>3 DEF SendOutbound, GossipTypes
      <3> QED BY <1>2, <1>3, <1>5, <1>6, <1>7, <2>1, <3>1
    <2> QED BY <2>2, <2>3
  <1>11. ASSUME NEW u \in Topic, ReceiveInbound(u) PROVE sent'[t] = Line(d', i', c', h', o')
    <2>1. UNCHANGED <<cmds, task, delivered, hand, outbound_msgs, sent>>
      BY <1>11 DEF ReceiveInbound
    <2> QED BY <1>2, <1>3, <1>5, <1>6, <1>7, <2>1
  <1>12. ASSUME NEW u \in Topic, TakeOutbound(u) PROVE sent'[t] = Line(d', i', c', h', o')
    <2>1. UNCHANGED <<cmds, task, delivered, sent>>
      BY <1>12 DEF TakeOutbound
    <2>2. CASE u = t
      <3>1. h = << >> /\ o # << >> /\ h' = << Head(o) >> /\ o' = Tail(o)
        BY <1>12, <2>2 DEF TakeOutbound, GossipTypes
      <3>2. Head(o) \in Msg
        BY <1>3, <3>1, HeadJoinedTail
      <3> HIDE DEF h, o
      <3>3. Line(d, i, c, << Head(o) >>, Tail(o)) = Line(d, i, c, << >>, o)
        <4>1. LineEquations(d, i, c, h, o, Head(o))
          BY <1>3, <3>2, LineSteps
        <4> QED BY <3>1, <4>1 DEF LineEquations
      <3> DEFINE one == << Head(o) >>
                 rest == Tail(o)
                 nil == << >>
      <3>4. /\ h = nil /\ h' = one /\ o' = rest
            /\ Line(d, i, c, one, rest) = Line(d, i, c, nil, o)
        BY <3>1, <3>3
      <3> HIDE DEF one, rest, nil
      <3> QED BY <1>2, <1>3, <1>5, <1>6, <1>7, <2>1, <3>4
    <2>3. CASE u # t
      <3>1. h' = h /\ o' = o
        BY <1>12, <2>3 DEF TakeOutbound, GossipTypes
      <3> QED BY <1>2, <1>3, <1>5, <1>6, <1>7, <2>1, <3>1
    <2> QED BY <2>2, <2>3
  <1>13. ASSUME NEW u \in Topic, ForwardOutbound(u) PROVE sent'[t] = Line(d', i', c', h', o')
    <2> DEFINE m == hand[u][1]
               r == PublishOn(u, m)
    <2>1. UNCHANGED <<task, delivered, outbound_msgs, sent>> /\ cmds' = Added(cmds, r)
          /\ hand[u] # << >> /\ hand' = [hand EXCEPT ![u] = << >>]
      BY <1>13 DEF ForwardOutbound, PublishOn, Added
    <2>2. m \in Msg /\ hand[u] = << m >>
      BY <2>1 DEF GossipTypes, Hands
    <2>3. r \in Command /\ (r \in Publishes(t) <=> u = t) /\ r.m = m
      BY <2>2 DEF PublishOn, Command, Publishes
    <2> HIDE DEF r, m
    <2>4. Sorted(Added(cmds, r), Publishes(t)) =
            IF u = t THEN Added(Sorted(cmds, Publishes(t)), m) ELSE Sorted(cmds, Publishes(t))
      BY <1>8, <2>3, CommandSteps
    <2>5. c' = IF u = t THEN Added(c, m) ELSE c
      BY <2>1, <2>4 DEF c, C
    <2>6. o' = o
      BY <2>1
    <2>7. CASE u = t
      <3> DEFINE one == << m >>
                 nil == << >>
      <3>1. h = one /\ h' = nil
        BY <2>1, <2>2, <2>7 DEF GossipTypes
      <3> HIDE DEF h, o
      <3>2. Line(d, i, Added(c, m), nil, o) = Line(d, i, c, one, o)
        <4>1. LineEquations(d, i, c, h, o, m)
          BY <1>3, <2>2, LineSteps
        <4> QED BY <4>1 DEF LineEquations
      <3> HIDE DEF one, nil
      <3> QED BY <1>2, <1>3, <1>6, <1>7, <2>1, <2>5, <2>6, <2>7, <3>1, <3>2
    <2>8. CASE u # t
      <3>1. h' = h
        BY <2>1, <2>8 DEF GossipTypes
      <3> QED BY <1>2, <1>3, <1>6, <1>7, <2>1, <2>5, <2>6, <2>8, <3>1
    <2> QED BY <2>7, <2>8
  <1>14. CASE TakeSubscribe
    <2>1. /\ UNCHANGED <<task, delivered, hand, outbound_msgs, sent>>
          /\ cmds # << >> /\ cmds' = Tail(cmds) /\ Head(cmds).cmd = "Subscribe"
      BY <1>14 DEF TakeSubscribe
    <2>2. Head(cmds) \notin Publishes(t)
      BY <2>1 DEF Publishes
    <2>3. Sorted(cmds, Publishes(t)) = Sorted(Tail(cmds), Publishes(t))
      BY <1>8, <2>1, <2>2, CommandSteps
    <2>4. c' = c
      BY <2>1, <2>3 DEF c, C
    <2> QED BY <1>2, <1>3, <1>6, <1>7, <2>1, <2>4
  <1>15. CASE TakePublish
    <2> DEFINE r == Head(cmds)
               m == r.m
    <2>1. /\ UNCHANGED <<delivered, hand, outbound_msgs, sent>>
          /\ task = Select
          /\ cmds # << >> /\ cmds' = Tail(cmds) /\ r.cmd = "Publish"
      BY <1>15 DEF TakePublish
    <2>2. task' = Delivery(r.topic, r.m, TRUE)
      <3>1. task' \in {Panic("topic"), Panic("record"), Delivery(r.topic, r.m, TRUE)}
        BY <1>15 DEF TakePublish
      <3>2. Panic("topic").at = "panicked" /\ Panic("record").at = "panicked"
        BY DEF Panic
      <3> QED BY <1>2, <3>1, <3>2
    <2>3. r \in Command /\ (r \in Publishes(t) <=> r.topic = t)
      BY <1>8, <2>1, SequenceSteps DEF Publishes
    <2>4. m \in Msg
      BY <2>1, <2>3 DEF Command
    <2> DEFINE one == << m >>
               nil == << >>
    <2>5. i = nil /\ i' = IF r.topic = t THEN one ELSE nil
      BY <2>1, <2>2 DEF i, InTask, Select, Delivery
    <2> HIDE DEF r, m
    <2>6. Sorted(cmds, Publishes(t)) =
            IF r.topic = t THEN Joined(one, Sorted(Tail(cmds), Publishes(t)))
            ELSE Sorted(Tail(cmds), Publishes(t))
      BY <1>8, <2>1, <2>3, CommandSteps DEF r, m
    <2>7. c = IF r.topic = t THEN Joined(one, c') ELSE c'
      BY <2>1, <2>6 DEF c, C
    <2>8. task.at # "panicked" /\ h' = h /\ o' = o
      BY <2>1 DEF Select
    <2>9. c' \in Seq(Msg)
      <3>1. cmds' \in Seq(Command)
        BY DEF GossipTypes
      <3>2. Sorted(cmds', Publishes(t)) \in Seq(Msg)
        BY <3>1, CommandSteps
      <3> QED BY <3>2 DEF c, C
    <2> HIDE DEF h, o
    <2>10. Line(d, one, c', h, o) = Line(d, nil, Joined(one, c'), h, o)
      <3>1. LineEquations(d, i, c', h, o, m)
        BY <1>3, <2>4, <2>9, LineSteps
      <3> QED BY <3>1 DEF LineEquations
    <2> HIDE DEF one, nil
    <2> QED BY <1>3, <1>6, <2>1, <2>5, <2>7, <2>8, <2>10
  <1>16. ASSUME NEW u \in Topic, NEW m \in Msg, TakeMessage(u, m)
         PROVE  sent'[t] = Line(d', i', c', h', o')
    <2>1. UNCHANGED <<cmds, delivered, hand, outbound_msgs, sent>> /\ task = Select
      BY <1>16 DEF TakeMessage, channels
    <2>2. task' = Delivery(u, m, FALSE)
      <3>1. task' \in {Panic("topic"), Delivery(u, m, FALSE)}
        BY <1>16 DEF TakeMessage
      <3>2. Panic("topic").at = "panicked"
        BY DEF Panic
      <3> QED BY <1>2, <3>1, <3>2
    <2>3. i' = i
      BY <2>1, <2>2 DEF i, InTask, Select, Delivery
    <2>4. task.at # "panicked"
      BY <2>1 DEF Select
    <2> QED BY <1>3, <1>5, <1>6, <2>1, <2>3, <2>4
  <1>17. CASE Deliver
    <2> DEFINE u == task.topic
               m == task.m
               r == [m |-> m, own |-> task.own]
    <2>1. /\ UNCHANGED <<cmds, hand, outbound_msgs, sent>>
          /\ task.at = "deliver" /\ task' = Select
          /\ delivered' = [delivered EXCEPT ![u] = Added(@, r)]
      BY <1>17 DEF Deliver, Added
    <2>2. u \in Topic /\ m \in Msg /\ task.own \in BOOLEAN
      BY <2>1 DEF GossipTypes, Select, Panics, Panic, Deliveries
    <2>3. r \in Records /\ r.m = m /\ r.own = task.own
      BY <2>2 DEF Records
    <2> DEFINE one == << m >>
               nil == << >>
    <2>4. i' = nil /\ i = IF u = t /\ task.own THEN one ELSE nil
      BY <2>1 DEF i, InTask, Select
    <2> HIDE DEF m, r, u
    <2>5. CASE u = t
      <3>1. delivered[t] \in Seq(Records) /\ delivered'[t] = Added(delivered[t], r)
        BY <2>1, <2>5 DEF GossipTypes
      <3>2. Sorted(Added(delivered[t], r), Own) =
              IF task.own THEN Added(Sorted(delivered[t], Own), m) ELSE Sorted(delivered[t], Own)
        BY <2>3, <3>1, DeliveredSteps
      <3>3. d' = IF task.own THEN Added(d, m) ELSE d
        BY <3>1, <3>2 DEF d, D
      <3>4. h' = h /\ o' = o
        BY <2>1
      <3> HIDE DEF h, o
      <3>5. Line(Added(d, m), nil, c, h, o) = Line(d, one, c, h, o)
        <4>1. LineEquations(d, i, c, h, o, m)
          BY <1>3, <2>2, LineSteps
        <4> QED BY <4>1 DEF LineEquations
      <3> HIDE DEF one, nil
      <3> QED BY <1>3, <1>5, <2>1, <2>4, <2>5, <3>3, <3>4, <3>5
    <2>6. CASE u # t
      <3>1. delivered'[t] = delivered[t]
        BY <2>1, <2>6 DEF GossipTypes
      <3>2. d' = d
        BY <3>1 DEF d, D
      <3> HIDE DEF nil, one
      <3> QED BY <1>3, <1>5, <2>1, <2>4, <2>6, <3>2
    <2> QED BY <2>5, <2>6
  <1>18. CASE UNCHANGED gossipVars
    <2>1. UNCHANGED <<cmds, task, delivered, hand, outbound_msgs, sent>>
      BY <1>18 DEF gossipVars, channels
    <2> QED BY <1>2, <1>3, <1>5, <1>6, <1>7, <2>1
  <1>19. ASSUME NEW u \in Topic, OwnerEnds(u) PROVE sent'[t] = Line(d', i', c', h', o')
    <2>1. UNCHANGED <<cmds, task, delivered, hand, outbound_msgs, sent>>
      BY <1>19 DEF OwnerEnds
    <2> QED BY <1>2, <1>3, <1>5, <1>6, <1>7, <2>1
  <1>20. ASSUME TakeUndecodable \/ DeliverToNobody PROVE FALSE
    <2>1. task'.at = "panicked"
      BY <1>20 DEF TakeUndecodable, DeliverToNobody, Panic
    <2> QED BY <1>2, <2>1
  <1> QED
    BY <1>9, <1>10, <1>11, <1>12, <1>13, <1>14, <1>15, <1>16, <1>17, <1>18, <1>19, <1>20
       DEF GossipNext, Owner, Forwarder

LEMMA NothingPicked == ASSUME NEW P PROVE Picked(<< >>, P) = << >>
  <1>1. << >> \in Seq({}) /\ Len(<< >>) = 0
    OBVIOUS
  <1>2. PICK f : IsPicking(f, << >>, P) /\ Picked(<< >>, P) = f[0]
    BY <1>1, PickingExists
  <1> QED BY <1>2 DEF IsPicking

LEMMA GossipInvInit == GossipInit => GossipInv
  <1> SUFFICES ASSUME GossipInit PROVE GossipInv
    OBVIOUS
  <1>1. GossipTypes
    <2>1. 0 <= CmdCapacity /\ 0 <= OutboundCapacity /\ 0 <= OwnerCapacity
      BY GossipAssumption
    <2>2. << >> \in Seq(Command) /\ << >> \in Seq(Msg) /\ << >> \in Seq(Records)
          /\ << >> \in Hands /\ Len(<< >>) = 0
      BY DEF Hands
    <2> QED BY <2>1, <2>2 DEF GossipInit, GossipTypes
  <1>2. TopicsKnown
    BY DEF GossipInit, TopicsKnown, Select, Panic
  <1>3. InOrder
    <2> SUFFICES ASSUME NEW t \in Topic PROVE sent[t] = InLine(t)
      BY DEF InOrder
    <2> DEFINE nil == << >>
    <2>1. Picked(nil, Chosen(nil, Own)) = nil /\ Picked(nil, Chosen(nil, Publishes(t))) = nil
      BY NothingPicked
    <2>2. Messages(nil) = nil
      BY DEF Messages
    <2>3. delivered[t] = nil /\ cmds = nil /\ hand[t] = nil /\ outbound_msgs[t] = nil
          /\ sent[t] = nil /\ InTask(t) = nil
      BY DEF GossipInit, InTask, Select
    <2>4. Joined(nil, nil) = nil
      BY DEF Joined
    <2> HIDE DEF nil
    <2> QED BY <2>1, <2>2, <2>3, <2>4 DEF InLine, Line, Sorted
  <1>4. closed \subseteq owned
    BY DEF GossipInit
  <1> QED BY <1>1, <1>2, <1>3, <1>4 DEF GossipInv

(* Only an owner that has subscribed can end.                                   *)
LEMMA ClosedStep ==
    ASSUME closed \subseteq owned, [GossipNext]_gossipVars PROVE closed' \subseteq owned'
  <1>1. \A t \in Topic : Subscribe(t) => closed' = closed /\ owned \subseteq owned'
    BY DEF Subscribe
  <1>2. \A t \in Topic : OwnerEnds(t) => closed' = closed \cup {t} /\ t \in owned /\ owned' = owned
    BY DEF OwnerEnds
  <1>3. \A t \in Topic : ReceiveInbound(t) \/ TakeOutbound(t) \/ ForwardOutbound(t) =>
            UNCHANGED <<closed, owned>>
    BY DEF ReceiveInbound, TakeOutbound, ForwardOutbound
  <1>4. \A t \in Topic, m \in Msg : SendOutbound(t, m) \/ TakeMessage(t, m) =>
            UNCHANGED <<closed, owned>>
    BY DEF SendOutbound, TakeMessage
  <1>5. TakeSubscribe \/ TakePublish \/ TakeUndecodable \/ Deliver \/ DeliverToNobody =>
            UNCHANGED <<closed, owned>>
    BY DEF TakeSubscribe, TakePublish, TakeUndecodable, Deliver, DeliverToNobody
  <1>6. UNCHANGED gossipVars => UNCHANGED <<closed, owned>>
    BY DEF gossipVars
  <1> QED BY <1>1, <1>2, <1>3, <1>4, <1>5, <1>6 DEF GossipNext, Owner, Forwarder

LEMMA GossipInvariant == GossipSpec => []GossipInv
  <1>1. GossipInv /\ [GossipNext]_gossipVars => GossipInv'
    BY GossipTypesStep, TopicsKnownStep, InOrderStep, ClosedStep DEF GossipInv
  <1> QED BY <1>1, GossipInvInit, PTL DEF GossipSpec

(* The types of the variables, and the capacities of the channels.              *)
THEOREM GossipTypeCorrect == GossipSpec => []GossipTypeOK
  <1>1. GossipInv => GossipTypeOK
    <2> SUFFICES ASSUME GossipInv PROVE GossipTypeOK
      OBVIOUS
    <2>1. task.at \in {"select", "deliver", "panicked"}
      BY DEF GossipInv, GossipTypes, Select, Panics, Panic, Deliveries
    <2>2. \A t \in Topic : Len(hand[t]) <= 1
      <3>1. Len(<< >>) = 0 /\ \A m \in Msg : Len(<< m >>) = 1
        OBVIOUS
      <3>2. ASSUME NEW h \in Hands PROVE Len(h) <= 1
        <4>1. CASE h = << >>
          BY <3>1, <4>1
        <4>2. ASSUME NEW m \in Msg, h = << m >> PROVE Len(h) <= 1
          BY <3>1, <4>2
        <4> QED BY <4>1, <4>2 DEF Hands
      <3> QED BY <3>2 DEF GossipInv, GossipTypes
    <2> QED BY <2>1, <2>2 DEF GossipInv, GossipTypes, GossipTypeOK
  <1> QED BY <1>1, GossipInvariant, PTL

(* What a node sends on a topic is what was replayed to it, followed by what is in   *)
(* the task, the commands, the forwarder's hand and the channel, in that order.        *)
THEOREM MessagesKeepTheirOrder == GossipSpec => []ReplayedInOrder
  <1>1. GossipInv => ReplayedInOrder
    <2> SUFFICES ASSUME GossipInv PROVE ReplayedInOrder
      OBVIOUS
    <2>1. task # Panic("topic")
      BY DEF GossipInv, TopicsKnown
    <2>2. ASSUME task.at # "panicked", NEW t \in Topic
          PROVE  sent[t] = OwnDelivered(t) \o InTask(t) \o InCommands(t) \o hand[t] \o outbound_msgs[t]
      <3>1. delivered[t] \in Seq(Records) /\ cmds \in Seq(Command)
        BY DEF GossipInv, GossipTypes
      <3>2. OwnDelivered(t) = Sorted(delivered[t], Own)
        BY <3>1, RecordsSorted DEF OwnDelivered
      <3>3. InCommands(t) = Sorted(cmds, Publishes(t))
        BY <3>1, CommandsSorted DEF InCommands
      <3>4. sent[t] = InLine(t)
        BY <2>2 DEF GossipInv, InOrder
      <3>5. sent[t] = Line(OwnDelivered(t), InTask(t), InCommands(t), hand[t], outbound_msgs[t])
        BY <3>2, <3>3, <3>4 DEF InLine
      <3> QED BY <3>5 DEF Line, Joined
    <2> QED BY <2>1, <2>2 DEF ReplayedInOrder
  <1> QED BY <1>1, GossipInvariant, PTL

-----------------------------------------------------------------------------
(* The mempool.                                                               *)
LEMMA SetOfSequence ==
    ASSUME NEW S, NEW s \in Seq(S)
    PROVE  /\ ToSet(s) \subseteq S /\ ToSet(<< >>) = {}
           /\ \A e \in S : ToSet(Append(s, e)) = ToSet(s) \cup {e}
           /\ s # << >> => Head(s) \in ToSet(s) /\ ToSet(s) = {Head(s)} \cup ToSet(Tail(s))
           /\ \A m \in 0 .. Len(s) : ToSet(SubSeq(s, 1, m)) \subseteq ToSet(s)
  <1>1. ToSet(s) \subseteq S /\ ToSet(<< >>) = {}
    BY DEF ToSet
  <1>2. ASSUME NEW e \in S PROVE ToSet(Append(s, e)) = ToSet(s) \cup {e}
    <2>1. /\ DOMAIN Append(s, e) = DOMAIN s \cup {Len(s) + 1}
          /\ Append(s, e)[Len(s) + 1] = e
          /\ \A j \in DOMAIN s : Append(s, e)[j] = s[j]
      OBVIOUS
    <2> QED BY <2>1 DEF ToSet
  <1>3. ASSUME s # << >>
        PROVE  Head(s) \in ToSet(s) /\ ToSet(s) = {Head(s)} \cup ToSet(Tail(s))
    <2>1. /\ Head(s) = s[1] /\ 1 \in DOMAIN s
          /\ DOMAIN Tail(s) = 1 .. Len(s) - 1 /\ DOMAIN s = 1 .. Len(s) /\ Len(s) \in Nat
          /\ \A k \in 2 .. Len(s) : Tail(s)[k - 1] = s[k]
      BY <1>3
    <2>2. ASSUME NEW x \in ToSet(s), x # s[1] PROVE x \in ToSet(Tail(s))
      <3>1. PICK k \in DOMAIN s : x = s[k]
        BY DEF ToSet
      <3>2. k \in 2 .. Len(s) /\ k - 1 \in DOMAIN Tail(s)
        BY <2>1, <2>2, <3>1
      <3> QED BY <2>1, <3>1, <3>2 DEF ToSet
    <2>3. ASSUME NEW x \in ToSet(Tail(s)) PROVE x \in ToSet(s)
      <3>1. PICK k \in DOMAIN Tail(s) : x = Tail(s)[k]
        BY DEF ToSet
      <3>2. k + 1 \in 2 .. Len(s) /\ k + 1 \in DOMAIN s /\ k + 1 - 1 = k
        BY <2>1, <3>1
      <3> QED BY <2>1, <3>1, <3>2 DEF ToSet
    <2> QED BY <2>1, <2>2, <2>3 DEF ToSet
  <1>4. ASSUME NEW m \in 0 .. Len(s) PROVE ToSet(SubSeq(s, 1, m)) \subseteq ToSet(s)
    <2>1. /\ DOMAIN SubSeq(s, 1, m) = 1 .. m /\ 1 .. m \subseteq DOMAIN s
          /\ \A k \in 1 .. m : SubSeq(s, 1, m)[k] = s[k]
      OBVIOUS
    <2> QED BY <2>1 DEF ToSet
  <1> QED BY <1>1, <1>2, <1>3, <1>4

(* What stays in the queue.                                                   *)
LEMMA QueueWithout ==
    ASSUME NEW digests, queue \in Seq(Tx)
    PROVE  Without(digests) \in Seq(Tx) /\ ToSet(Without(digests)) = ToSet(queue) \ digests
  <1> DEFINE places == {k \in DOMAIN queue : queue[k] \notin digests}
  <1>1. /\ Picked(queue, places) \in Seq(Tx)
        /\ ToSet(Picked(queue, places)) = {queue[k] : k \in places \cap DOMAIN queue}
    BY PickedElements DEF ToSet
  <1>2. {queue[k] : k \in places \cap DOMAIN queue} = ToSet(queue) \ digests
    BY DEF ToSet
  <1> QED BY <1>1, <1>2 DEF Without

(* Where payloads have been.                                                  *)
Elsewhere == published \cup heard

MessagesKnown ==
    /\ ToSet(inbound) \subseteq Elsewhere
    /\ \A k \in DOMAIN core_channel :
          core_channel[k].kind = "Payload" => core_channel[k].payload \in Elsewhere

TransmittedStored == core.at = "transmitting" => core.payload \in payload_store

(* The inductive invariant: what is in a channel from gossip came from there.   *)
MempoolInv ==
    /\ MempoolTypeOK
    /\ ProposedAreKnown /\ NoPayloadLost
    /\ MessagesKnown /\ TransmittedStored


(* What a Get takes from a queue that is not empty.                           *)
LEMMA FirstDigests ==
    ASSUME NEW s \in Seq(Tx), s # << >>, PerBlock \in Nat
    PROVE  /\ ToSet(SubSeq(s, 1, Min({PerBlock, Len(s)}))) \subseteq ToSet(s)
           /\ ToSet(s) \subseteq Tx
  <1> DEFINE m == Min({PerBlock, Len(s)})
  <1>1. Len(s) \in Nat /\ {PerBlock, Len(s)} # {}
    OBVIOUS
  <1>2. m \in {PerBlock, Len(s)} /\ \A k \in {PerBlock, Len(s)} : m <= k
    <2>1. \E x \in {PerBlock, Len(s)} : \A k \in {PerBlock, Len(s)} : x <= k
      BY <1>1
    <2> QED BY <2>1 DEF Min
  <1>3. m \in 0 .. Len(s)
    BY <1>1, <1>2
  <1> HIDE DEF m
  <1> QED BY <1>3, SetOfSequence DEF m

LEMMA FrontAndRest ==
    ASSUME NEW S, NEW s \in Seq(S), s # << >>
    PROVE  /\ Head(s) \in S /\ Tail(s) \in Seq(S)
           /\ Len(Tail(s)) = Len(s) - 1 /\ Len(s) \in Nat
           /\ Head(s) = s[1] /\ 1 \in DOMAIN s
  OBVIOUS

LEMMA AppendedElement ==
    ASSUME NEW S, NEW s \in Seq(S), NEW e \in S
    PROVE  /\ Append(s, e) \in Seq(S)
           /\ \A k \in DOMAIN Append(s, e) :
                 Append(s, e)[k] = e \/ \E i \in DOMAIN s : Append(s, e)[k] = s[i]
  OBVIOUS

LEMMA UnionOfFive ==
    ASSUME NEW S, NEW a, NEW b, NEW c, NEW d, NEW e
    PROVE  UNION {a, b, c, d, e} \subseteq S <=>
             a \subseteq S /\ b \subseteq S /\ c \subseteq S /\ d \subseteq S /\ e \subseteq S
  OBVIOUS

LEMMA MempoolTypeCorrect ==
    ASSUME MempoolTypeOK, [MempoolNext]_mempoolVars PROVE MempoolTypeOK'
  <1> USE MempoolAssumption
  <1> DEFINE Channels == /\ client \in Seq(Tx) /\ queue \in Seq(Tx)
                         /\ network \in Seq(Tx) /\ inbound \in Seq(Tx)
                         /\ core_channel \in Seq([kind : {"OwnPayload", "Payload"}, payload : Tx])
                         /\ Len(core_channel) <= CoreCapacity
                         /\ Len(network) <= NetworkCapacity /\ Len(inbound) <= InboundCapacity
             Places == /\ runner \in [at : {"select", "sleeping"}] \cup [at : {"sending"}, payload : Tx]
                       /\ core \in [at : {"select", "making"}] \cup [at : {"transmitting"}, payload : Tx]
             Making == core = At("making") => get /\ queue = << >>
             Sets == /\ payload_store \subseteq Tx /\ published \subseteq Tx /\ heard \subseteq Tx
                     /\ proposed \subseteq Tx /\ cleaned \subseteq Tx
             Counters == get \in BOOLEAN /\ submits \in Nat /\ arrivals \in Nat
  <1>1. /\ Channels /\ Places /\ Making /\ Sets /\ Counters
    BY UnionOfFive DEF MempoolTypeOK
  <1>2. SUFFICES Channels' /\ Places' /\ Making' /\ Sets' /\ Counters'
    BY UnionOfFive DEF MempoolTypeOK
  <1>3. ASSUME NEW x \in Tx, Submit(x)
        PROVE  Channels' /\ Places' /\ Making' /\ Sets' /\ Counters'
    BY <1>1, <1>3 DEF Submit, gossip
  <1>4. CASE RunnerTake
    BY <1>1, <1>4 DEF RunnerTake, gossip, Holds
  <1>5. CASE RunnerSend
    BY <1>1, <1>5 DEF RunnerSend, gossip, OwnPayload, At
  <1>6. CASE RunnerWake
    BY <1>1, <1>6 DEF RunnerWake, gossip, At
  <1>7. CASE RunnerAnswer
    BY <1>1, <1>7 DEF RunnerAnswer, gossip, At
  <1>8. CASE CoreOwn
    <2>1. core_channel # << >> /\ core_channel' = Tail(core_channel) /\ core = At("select")
      BY <1>8 DEF CoreOwn, Receive
    <2>2. Tail(core_channel) \in Seq([kind : {"OwnPayload", "Payload"}, payload : Tx])
          /\ Len(Tail(core_channel)) <= CoreCapacity /\ Head(core_channel).payload \in Tx
      <3> DEFINE Message == [kind : {"OwnPayload", "Payload"}, payload : Tx]
      <3>1. core_channel \in Seq(Message) /\ core_channel # << >>
        BY <1>1, <2>1
      <3>2. \A r \in Message : r.payload \in Tx
        OBVIOUS
      <3> HIDE DEF Message
      <3>3. /\ Head(core_channel) \in Message /\ Tail(core_channel) \in Seq(Message)
            /\ Len(Tail(core_channel)) = Len(core_channel) - 1 /\ Len(core_channel) \in Nat
        BY <3>1, FrontAndRest
      <3>4. Len(Tail(core_channel)) <= CoreCapacity
        BY <1>1, <3>3
      <3> QED BY <3>2, <3>3, <3>4 DEF Message
    <2>3. /\ UNCHANGED <<client, runner, queue, get, network, inbound, published, heard,
                         arrivals, proposed, cleaned, submits>>
          /\ payload_store' \subseteq payload_store \cup {Head(core_channel).payload}
          /\ core' \in {core, Holds("transmitting", Head(core_channel).payload)}
      BY <1>8 DEF CoreOwn, gossip
    <2> QED BY <1>1, <2>1, <2>2, <2>3 DEF Holds, At
  <1>9. CASE CoreTransmitted
    <2>1. core.at = "transmitting" /\ core.payload \in Tx
      BY <1>1, <1>9 DEF CoreTransmitted
    <2> QED BY <1>1, <1>9, <2>1 DEF CoreTransmitted, At
  <1>10. CASE CoreOthers
    <2>1. core_channel # << >> /\ core_channel' = Tail(core_channel) /\ core = At("select")
      BY <1>10 DEF CoreOthers, Receive
    <2>2. Tail(core_channel) \in Seq([kind : {"OwnPayload", "Payload"}, payload : Tx])
          /\ Len(Tail(core_channel)) <= CoreCapacity /\ Head(core_channel).payload \in Tx
      <3> DEFINE Message == [kind : {"OwnPayload", "Payload"}, payload : Tx]
      <3>1. core_channel \in Seq(Message) /\ core_channel # << >>
        BY <1>1, <2>1
      <3>2. \A r \in Message : r.payload \in Tx
        OBVIOUS
      <3> HIDE DEF Message
      <3>3. /\ Head(core_channel) \in Message /\ Tail(core_channel) \in Seq(Message)
            /\ Len(Tail(core_channel)) = Len(core_channel) - 1 /\ Len(core_channel) \in Nat
        BY <3>1, FrontAndRest
      <3>4. Len(Tail(core_channel)) <= CoreCapacity
        BY <1>1, <3>3
      <3> QED BY <3>2, <3>3, <3>4 DEF Message
    <2>3. /\ UNCHANGED <<client, runner, core, get, network, inbound, published, heard,
                         arrivals, proposed, cleaned, submits>>
          /\ payload_store' \subseteq payload_store \cup {Head(core_channel).payload}
          /\ queue' = queue \/ queue' = Append(queue, Head(core_channel).payload)
      BY <1>10 DEF CoreOthers, gossip
    <2>4. queue' \in Seq(Tx)
      <3> DEFINE x == Head(core_channel).payload
      <3>1. x \in Tx /\ (queue' = queue \/ queue' = Append(queue, x)) /\ queue \in Seq(Tx)
        BY <1>1, <2>2, <2>3
      <3> HIDE DEF x
      <3>2. Append(queue, x) \in Seq(Tx)
        BY <3>1, AppendedElement
      <3> QED BY <3>1, <3>2
    <2> QED BY <1>1, <2>1, <2>2, <2>3, <2>4 DEF At
  <1>11. CASE AskPayload
    BY <1>1, <1>11 DEF AskPayload, gossip
  <1>12. CASE CoreGet
    <2> DEFINE digests == ToSet(SubSeq(queue, 1, Min({PerBlock, Len(queue)})))
    <2>1. core = At("select") /\ get
          /\ UNCHANGED <<client, runner, core_channel, payload_store, network, inbound,
                         published, heard, arrivals, cleaned, submits>>
      BY <1>12 DEF CoreGet, gossip
    <2>2. CASE queue = << >>
      BY <1>1, <1>12, <2>1, <2>2 DEF CoreGet, At
    <2>3. CASE queue # << >>
      <3>1. /\ proposed' = proposed \cup digests /\ queue' = Without(digests)
            /\ get' = FALSE /\ core' = core
        BY <1>12, <2>3 DEF CoreGet, Taken
      <3>2. digests \subseteq Tx
        BY <1>1, <2>3, FirstDigests
      <3> HIDE DEF digests
      <3>3. queue' \in Seq(Tx)
        BY <1>1, <3>1, QueueWithout
      <3> QED BY <1>1, <2>1, <3>1, <3>2, <3>3 DEF At
    <2> QED BY <2>2, <2>3
  <1>13. ASSUME NEW digests \in SUBSET payload_store, CoreCleanup(digests)
         PROVE  Channels' /\ Places' /\ Making' /\ Sets' /\ Counters'
    BY <1>1, <1>13, QueueWithout DEF CoreCleanup, gossip, At
  <1>14. CASE Publish
    BY <1>1, <1>14 DEF Publish, tasks
  <1>15. ASSUME NEW x \in Tx, Arrive(x)
         PROVE  Channels' /\ Places' /\ Making' /\ Sets' /\ Counters'
    BY <1>1, <1>15 DEF Arrive, tasks
  <1>16. CASE Forward
    BY <1>1, <1>16 DEF Forward, OthersPayload
  <1>17. CASE UNCHANGED mempoolVars
    BY <1>1, <1>17 DEF mempoolVars, tasks, gossip
  <1> QED
    BY <1>3, <1>4, <1>5, <1>6, <1>7, <1>8, <1>9, <1>10, <1>11, <1>12, <1>13,
       <1>14, <1>15, <1>16, <1>17 DEF MempoolNext, Runner, Core

LEMMA MempoolInvStep ==
    ASSUME MempoolInv, [MempoolNext]_mempoolVars PROVE MempoolInv'
  <1> USE MempoolAssumption
  <1> DEFINE Queued == /\ proposed \cup ToSet(queue) \subseteq payload_store
                       /\ proposed \cup ToSet(queue) \subseteq Elsewhere \cup ToSet(network)
             InChannels == MessagesKnown
             Kept == NoPayloadLost
             All == Queued /\ InChannels /\ Kept /\ TransmittedStored
  <1>1. MempoolTypeOK /\ All
    BY DEF MempoolInv, ProposedAreKnown, Elsewhere
  <1>2. MempoolTypeOK'
    BY MempoolTypeCorrect DEF MempoolInv
  <1>3. SUFFICES All'
    BY <1>2 DEF MempoolInv, ProposedAreKnown, Elsewhere
  <1>t. /\ client \in Seq(Tx) /\ queue \in Seq(Tx)
        /\ network \in Seq(Tx) /\ inbound \in Seq(Tx)
        /\ core_channel \in Seq([kind : {"OwnPayload", "Payload"}, payload : Tx])
        /\ runner \in [at : {"select", "sleeping"}] \cup [at : {"sending"}, payload : Tx]
        /\ core \in [at : {"select", "making"}] \cup [at : {"transmitting"}, payload : Tx]
        /\ payload_store \subseteq Tx
    BY <1>1, UnionOfFive DEF MempoolTypeOK
  (* The channel to the core: one message more, or one less. *)
  <1>a. ASSUME NEW r \in [kind : {"OwnPayload", "Payload"}, payload : Tx],
               core_channel' = Append(core_channel, r), UNCHANGED <<published, heard>>,
               r.kind = "Payload" => r.payload \in Elsewhere,
               ToSet(inbound') \subseteq Elsewhere
        PROVE  MessagesKnown'
    <2>1. ASSUME NEW k \in DOMAIN core_channel'
          PROVE  core_channel'[k] = r \/ \E i \in DOMAIN core_channel : core_channel'[k] = core_channel[i]
      <3> DEFINE Message == [kind : {"OwnPayload", "Payload"}, payload : Tx]
      <3>1. core_channel \in Seq(Message) /\ r \in Message
        BY <1>t
      <3> HIDE DEF Message
      <3> QED BY <1>a, <3>1, AppendedElement
    <2> QED BY <1>1, <1>a, <2>1 DEF MessagesKnown, Elsewhere
  <1>b. ASSUME core_channel # << >>, core_channel' = Tail(core_channel),
               UNCHANGED <<published, heard, inbound>>
        PROVE  MessagesKnown'
    <2>1. ASSUME NEW k \in DOMAIN core_channel'
          PROVE  \E i \in DOMAIN core_channel : core_channel'[k] = core_channel[i]
      <3>1. k + 1 \in DOMAIN core_channel /\ core_channel'[k] = core_channel[k + 1]
        BY <1>t, <1>b
      <3> QED BY <3>1
    <2> QED BY <1>1, <1>b, <2>1 DEF MessagesKnown, Elsewhere
  (* What does not touch the queue and the store. *)
  <1>c. ASSUME UNCHANGED <<queue, payload_store, network, published, heard, proposed, cleaned>>,
               core' = core \/ (core'.at # "transmitting" /\ core.at # "transmitting")
        PROVE  Queued' /\ Kept' /\ TransmittedStored'
    <2>1. core = Holds("transmitting", core.payload) => core.at = "transmitting"
      BY DEF Holds
    <2>2. Queued'
      BY <1>1, <1>c DEF Elsewhere
    <2>3. Kept'
      BY <1>1, <1>c DEF NoPayloadLost, Holds
    <2> QED BY <1>1, <1>c, <2>2, <2>3 DEF TransmittedStored
  <1>d. ASSUME UNCHANGED <<core_channel, inbound, published, heard>> PROVE MessagesKnown'
    BY <1>1, <1>d DEF MessagesKnown, Elsewhere
  <1>4. ASSUME NEW x \in Tx, Submit(x) PROVE All'
    <2>1. UNCHANGED <<core_channel, core, queue, payload_store, network, inbound, published,
                     heard, proposed, cleaned>>
      BY <1>4 DEF Submit, gossip
    <2> QED BY <1>c, <1>d, <2>1
  <1>5. CASE RunnerTake
    <2>1. UNCHANGED <<core_channel, core, queue, payload_store, network, inbound, published,
                     heard, proposed, cleaned>>
      BY <1>5 DEF RunnerTake, gossip
    <2> QED BY <1>c, <1>d, <2>1
  <1>6. CASE RunnerSend
    <2>1. runner.payload \in Tx
      BY <1>t, <1>6 DEF RunnerSend
    <2>2. MessagesKnown'
      <3> DEFINE r == OwnPayload(runner.payload)
      <3>1. /\ r \in [kind : {"OwnPayload", "Payload"}, payload : Tx] /\ r.kind # "Payload"
            /\ core_channel' = Append(core_channel, r) /\ UNCHANGED <<published, heard, inbound>>
        BY <1>6, <2>1 DEF RunnerSend, OwnPayload, gossip
      <3> HIDE DEF r
      <3> QED BY <1>1, <1>a, <3>1 DEF MessagesKnown
    <2> QED BY <1>6, <1>c, <2>2 DEF RunnerSend, gossip
  <1>7. CASE RunnerWake
    <2>1. UNCHANGED <<core_channel, core, queue, payload_store, network, inbound, published,
                     heard, proposed, cleaned>>
      BY <1>7 DEF RunnerWake, gossip
    <2> QED BY <1>c, <1>d, <2>1
  <1>8. CASE RunnerAnswer
    BY <1>8, <1>c, <1>d DEF RunnerAnswer, gossip, At
  <1>9. CASE CoreOwn
    <2>1. core_channel # << >> /\ core_channel' = Tail(core_channel) /\ core = At("select")
      BY <1>9 DEF CoreOwn, Receive
    <2>2. MessagesKnown'
      BY <1>9, <1>b, <2>1 DEF CoreOwn, gossip
    <2>3. UNCHANGED <<queue, network, published, heard, proposed, cleaned>>
      BY <1>9 DEF CoreOwn, gossip
    <2>4. CASE UNCHANGED <<payload_store, core>>
      BY <1>c, <2>2, <2>3, <2>4
    <2>5. CASE /\ payload_store' = payload_store \cup {Head(core_channel).payload}
               /\ core' = Holds("transmitting", Head(core_channel).payload)
      <3>1. Queued'
        BY <1>1, <2>3, <2>5 DEF Elsewhere
      <3>2. Kept'
        BY <1>1, <2>1, <2>3, <2>5 DEF NoPayloadLost, Holds, At
      <3> QED BY <2>2, <2>5, <3>1, <3>2 DEF TransmittedStored, Holds
    <2> QED BY <1>9, <2>4, <2>5 DEF CoreOwn
  <1>10. CASE CoreTransmitted
    <2>1. core.at = "transmitting" /\ core.payload \in Tx
      BY <1>t, <1>10 DEF CoreTransmitted
    <2>2. /\ ToSet(queue') = ToSet(queue) \cup {core.payload}
          /\ ToSet(network') = ToSet(network) \cup {core.payload}
      BY <1>t, <1>10, <2>1, SetOfSequence DEF CoreTransmitted
    <2>3. /\ UNCHANGED <<core_channel, inbound, payload_store, published, heard, proposed, cleaned>>
          /\ core' = At("select")
      BY <1>10 DEF CoreTransmitted
    <2>4. Queued'
      BY <1>1, <2>1, <2>2, <2>3 DEF Elsewhere, TransmittedStored
    <2>5. Kept'
      BY <1>1, <2>1, <2>2, <2>3 DEF NoPayloadLost, Holds
    <2> QED BY <1>d, <2>3, <2>4, <2>5 DEF TransmittedStored, At
  <1>11. CASE CoreOthers
    <2> DEFINE x == Head(core_channel).payload
    <2>1. /\ core_channel # << >> /\ core_channel' = Tail(core_channel) /\ core = At("select")
          /\ Head(core_channel).kind = "Payload"
      BY <1>11 DEF CoreOthers, Receive
    <2>2. MessagesKnown'
      BY <1>11, <1>b, <2>1 DEF CoreOthers, gossip
    <2>3. UNCHANGED <<core, network, published, heard, proposed, cleaned>>
      BY <1>11 DEF CoreOthers, gossip
    <2>4. x \in Elsewhere /\ x \in Tx
      <3>1. Head(core_channel) = core_channel[1] /\ 1 \in DOMAIN core_channel
            /\ core_channel[1] \in [kind : {"OwnPayload", "Payload"}, payload : Tx]
        <4> DEFINE Message == [kind : {"OwnPayload", "Payload"}, payload : Tx]
        <4>1. core_channel \in Seq(Message)
          BY <1>t
        <4>2. Head(core_channel) \in Message /\ Head(core_channel) = core_channel[1]
              /\ 1 \in DOMAIN core_channel
          <5> HIDE DEF Message
          <5> QED BY <2>1, <4>1, FrontAndRest
        <4> QED BY <4>2
      <3> QED BY <1>1, <2>1, <3>1 DEF MessagesKnown
    <2> HIDE DEF x
    <2>5. CASE UNCHANGED <<queue, payload_store>>
      BY <1>c, <2>2, <2>3, <2>5
    <2>6. CASE queue' = Append(queue, x) /\ payload_store' = payload_store \cup {x}
      <3>1. ToSet(queue') = ToSet(queue) \cup {x}
        BY <1>t, <2>4, <2>6, SetOfSequence
      <3>2. Queued'
        BY <1>1, <2>3, <2>4, <2>6, <3>1 DEF Elsewhere
      <3>3. Kept'
        BY <1>1, <2>3, <2>6, <3>1 DEF NoPayloadLost
      <3> QED BY <1>1, <2>1, <2>2, <2>3, <3>2, <3>3 DEF TransmittedStored, At
    <2> QED BY <1>11, <2>5, <2>6 DEF CoreOthers, x
  <1>12. CASE AskPayload
    <2>1. UNCHANGED <<core_channel, core, queue, payload_store, network, inbound, published,
                     heard, proposed, cleaned>>
      BY <1>12 DEF AskPayload, gossip
    <2> QED BY <1>c, <1>d, <2>1
  <1>13. CASE CoreGet
    <2> DEFINE digests == ToSet(SubSeq(queue, 1, Min({PerBlock, Len(queue)})))
    <2>1. core = At("select")
          /\ UNCHANGED <<core_channel, payload_store, network, inbound, published, heard, cleaned>>
      BY <1>13 DEF CoreGet, gossip
    <2>2. CASE queue = << >>
      <3>1. core' = At("making") /\ UNCHANGED <<queue, proposed>>
        BY <1>13, <2>2 DEF CoreGet
      <3> QED BY <1>c, <1>d, <2>1, <3>1 DEF At
    <2>3. CASE queue # << >>
      <3>1. /\ proposed' = proposed \cup digests /\ queue' = Without(digests)
            /\ core' = core
        BY <1>13, <2>3 DEF CoreGet, Taken
      <3>2. digests \subseteq ToSet(queue)
        BY <1>t, <2>3, FirstDigests
      <3> HIDE DEF digests
      <3>3. ToSet(queue') = ToSet(queue) \ digests
        BY <1>t, <3>1, QueueWithout
      <3>4. Queued'
        BY <1>1, <2>1, <3>1, <3>2, <3>3 DEF Elsewhere
      <3>5. Kept'
        BY <1>1, <2>1, <3>1, <3>3 DEF NoPayloadLost
      <3> QED BY <1>d, <1>1, <2>1, <3>1, <3>4, <3>5 DEF TransmittedStored
    <2> QED BY <2>2, <2>3
  <1>14. ASSUME NEW digests \in SUBSET payload_store, CoreCleanup(digests) PROVE All'
    <2>1. /\ cleaned' = cleaned \cup digests /\ queue' = Without(digests)
          /\ UNCHANGED <<core_channel, core, payload_store, network, inbound, published, heard, proposed>>
      BY <1>14 DEF CoreCleanup, gossip
    <2>2. ToSet(queue') = ToSet(queue) \ digests
      BY <1>t, <2>1, QueueWithout
    <2>3. Queued'
      BY <1>1, <2>1, <2>2 DEF Elsewhere
    <2>4. Kept'
      BY <1>1, <2>1, <2>2 DEF NoPayloadLost
    <2> QED BY <1>d, <1>1, <2>1, <2>3, <2>4 DEF TransmittedStored
  <1>15. CASE Publish
    <2> DEFINE x == Head(network)
    <2>1. /\ network # << >> /\ network' = Tail(network) /\ inbound' = Append(inbound, x)
          /\ published' = published \cup {x}
          /\ UNCHANGED <<core_channel, core, queue, payload_store, heard, proposed, cleaned>>
      BY <1>15 DEF Publish, tasks
    <2>2. /\ ToSet(inbound') = ToSet(inbound) \cup {x}
          /\ ToSet(network) = {x} \cup ToSet(network')
      <3>1. x \in Tx
        BY <1>t, <2>1, FrontAndRest
      <3>2. ToSet(network) = {x} \cup ToSet(network')
        BY <1>t, <2>1, SetOfSequence
      <3> HIDE DEF x
      <3> QED BY <1>t, <2>1, <3>1, <3>2, SetOfSequence
    <2> HIDE DEF x
    <2>3. Elsewhere' = Elsewhere \cup {x}
      BY <2>1 DEF Elsewhere
    <2>4. Queued'
      BY <1>1, <2>1, <2>2, <2>3
    <2>5. MessagesKnown'
      BY <1>1, <2>1, <2>2, <2>3 DEF MessagesKnown
    <2>6. Kept'
      BY <1>1, <2>1 DEF NoPayloadLost
    <2> QED BY <1>1, <2>1, <2>4, <2>5, <2>6 DEF TransmittedStored
  <1>16. ASSUME NEW x \in Tx, Arrive(x) PROVE All'
    <2>1. /\ inbound' = Append(inbound, x) /\ heard' = heard \cup {x}
          /\ UNCHANGED <<core_channel, core, queue, payload_store, network, published, proposed, cleaned>>
      BY <1>16 DEF Arrive, tasks
    <2>2. ToSet(inbound') = ToSet(inbound) \cup {x}
      BY <1>t, <2>1, SetOfSequence
    <2>3. Elsewhere' = Elsewhere \cup {x}
      BY <2>1 DEF Elsewhere
    <2>4. Queued'
      BY <1>1, <2>1, <2>3
    <2>5. MessagesKnown'
      BY <1>1, <2>1, <2>2, <2>3 DEF MessagesKnown
    <2>6. Kept'
      BY <1>1, <2>1 DEF NoPayloadLost
    <2> QED BY <1>1, <2>1, <2>4, <2>5, <2>6 DEF TransmittedStored
  <1>17. CASE Forward
    <2> DEFINE x == Head(inbound)
    <2>1. /\ inbound # << >> /\ inbound' = Tail(inbound)
          /\ core_channel' = Append(core_channel, OthersPayload(x))
          /\ UNCHANGED <<core, queue, payload_store, network, published, heard, proposed, cleaned>>
      BY <1>17 DEF Forward
    <2>2. x \in Tx /\ x \in ToSet(inbound) /\ ToSet(inbound') \subseteq ToSet(inbound)
      BY <1>t, <2>1, FrontAndRest, SetOfSequence
    <2>3. MessagesKnown'
      <3> HIDE DEF x
      <3> DEFINE r == OthersPayload(x)
      <3>1. /\ r \in [kind : {"OwnPayload", "Payload"}, payload : Tx] /\ r.payload = x
        BY <2>2 DEF OthersPayload
      <3>2. core_channel' = Append(core_channel, r)
        BY <2>1
      <3> HIDE DEF r
      <3> QED BY <1>1, <1>a, <2>1, <2>2, <3>1, <3>2 DEF MessagesKnown
    <2> QED BY <1>c, <2>1, <2>3
  <1>18. CASE UNCHANGED mempoolVars
    <2>1. UNCHANGED <<core_channel, core, queue, payload_store, network, inbound, published,
                     heard, proposed, cleaned>>
      BY <1>18 DEF mempoolVars, tasks, gossip
    <2> QED BY <1>c, <1>d, <2>1
  <1> QED
    BY <1>4, <1>5, <1>6, <1>7, <1>8, <1>9, <1>10, <1>11, <1>12, <1>13, <1>14,
       <1>15, <1>16, <1>17, <1>18 DEF MempoolNext, Runner, Core

LEMMA MempoolInvInit == MempoolInit => MempoolInv
  <1> SUFFICES ASSUME MempoolInit PROVE MempoolInv
    OBVIOUS
  <1>1. ToSet(<< >>) = {}
    BY DEF ToSet
  <1>2. MempoolTypeOK
    <2>1. /\ client \in Seq(Tx) /\ queue \in Seq(Tx)
          /\ network \in Seq(Tx) /\ inbound \in Seq(Tx)
          /\ core_channel \in Seq([kind : {"OwnPayload", "Payload"}, payload : Tx])
      BY DEF MempoolInit
    <2>2. Len(core_channel) = 0 /\ Len(network) = 0 /\ Len(inbound) = 0
      BY DEF MempoolInit
    <2>3. /\ runner = At("select") /\ core = At("select") /\ get = FALSE
          /\ submits = 0 /\ arrivals = 0
          /\ UNION {payload_store, published, heard, proposed, cleaned} = {}
      BY DEF MempoolInit
    <2>4. /\ runner \in [at : {"select", "sleeping"}] \cup [at : {"sending"}, payload : Tx]
          /\ core \in [at : {"select", "making"}] \cup [at : {"transmitting"}, payload : Tx]
          /\ core # At("making")
      BY <2>3 DEF At
    <2>5. 0 <= CoreCapacity /\ 0 <= NetworkCapacity /\ 0 <= InboundCapacity
      BY MempoolAssumption
    <2>6. {client, queue, network, inbound} \subseteq Seq(Tx)
      BY <2>1
    <2>7. UNION {payload_store, published, heard, proposed, cleaned} \subseteq Tx
      BY <2>3
    <2>8. get \in BOOLEAN /\ submits \in Nat /\ arrivals \in Nat
      BY <2>3
    <2>9. Len(core_channel) <= CoreCapacity /\ Len(network) <= NetworkCapacity
          /\ Len(inbound) <= InboundCapacity
      BY <2>2, <2>5
    <2> QED
      BY <2>1, <2>4, <2>6, <2>7, <2>8, <2>9 DEF MempoolTypeOK
  <1> QED
    BY <1>1, <1>2 DEF MempoolInit, MempoolInv, ProposedAreKnown, NoPayloadLost,
       MessagesKnown, TransmittedStored, At

LEMMA MempoolInvariant == MempoolSpec => []MempoolInv
  BY MempoolInvInit, MempoolInvStep, PTL DEF MempoolSpec

(* Whatever a node proposes is stored, and has been given to gossip or is about to be. *)
THEOREM ProposalsAreKnown == MempoolSpec => []ProposedAreKnown
  <1>1. MempoolInv => ProposedAreKnown
    BY DEF MempoolInv
  <1> QED BY <1>1, MempoolInvariant, PTL

(* A stored payload is queued, proposed, in a block, or just being sent.         *)
THEOREM StoredPayloadsAreNotLost == MempoolSpec => []NoPayloadLost
  <1>1. MempoolInv => NoPayloadLost
    BY DEF MempoolInv
  <1> QED BY <1>1, MempoolInvariant, PTL

-----------------------------------------------------------------------------
(* The ledger.                                                                *)

(* The transactions up to every block of a chain.                              *)
IsFlattening(f, seqs, T) ==
    /\ f[0] = << >>
    /\ \A k \in 1 .. Len(seqs) : f[k] = Joined(f[k - 1], seqs[k])
    /\ \A k \in 0 .. Len(seqs) : f[k] \in Seq(T)

LEMMA FlatteningExists ==
    ASSUME NEW T, NEW seqs \in Seq(Seq(T))
    PROVE  \E f : IsFlattening(f, seqs, T)
  <1> DEFINE n == Len(seqs)
             S == Seq(T)
             nil == << >>
             one(x, k) == Joined(x, seqs[k])
             step == [k \in 1 .. n |-> [x \in S |-> one(x, k)]]
  <1>1. n \in Nat /\ nil \in S /\ \A k \in 1 .. n : seqs[k] \in S
    OBVIOUS
  <1>2. \A k \in 1 .. n, x \in S : one(x, k) \in S
    BY <1>1, JoinedTyped
  <1>3. step \in [1 .. n -> [S -> S]]
    <2> HIDE DEF one, n, S
    <2> QED BY <1>2
  <1>4. \A k \in 1 .. n, x \in S : step[k][x] = one(x, k)
    <2> HIDE DEF one, S
    <2> QED OBVIOUS
  <1> HIDE DEF step, S, nil, n
  <1>5. PICK f \in [0 .. n -> S] : IsIteration(f, n, nil, step)
    BY <1>1, <1>3, IterationExists
  <1> DEFINE u(k) == IF k = 0 THEN nil ELSE step[k][f[k - 1]]
  <1>6. \A k \in 0 .. n : f[k] = u(k) /\ f[k] \in S
    BY <1>5 DEF IsIteration
  <1>7. f[0] = nil
    BY <1>1, <1>6
  <1>8. ASSUME NEW k \in 1 .. n PROVE f[k] = Joined(f[k - 1], seqs[k])
    <2>1. k \in 0 .. n /\ k # 0 /\ k - 1 \in 0 .. n
      BY <1>1
    <2> HIDE DEF one
    <2>2. f[k] = one(f[k - 1], k)
      BY <1>4, <1>6, <2>1
    <2> QED BY <2>2 DEF one
  <1> QED BY <1>6, <1>7, <1>8 DEF IsFlattening, S, nil, n

LEMMA FlattenSeqIs ==
    ASSUME NEW T, NEW seqs \in Seq(Seq(T)), NEW f, IsFlattening(f, seqs, T)
    PROVE  FlattenSeq(seqs) = f[Len(seqs)]
  <1> DEFINE n == Len(seqs)
  <1>1. n \in Nat
    OBVIOUS
  <1>2. CASE n = 0
    <2>1. seqs = << >>
      BY <1>2
    <2> QED BY <1>2, <2>1 DEF FlattenSeq, IsFlattening
  <1>3. CASE n # 0
    <2> DEFINE v(g, i) == IF i = 1 THEN seqs[i] ELSE g[i - 1] \o seqs[i]
               IsRest(g) == g = [i \in 1 .. n |-> v(g, i)]
               rest == CHOOSE g : IsRest(g)
    <2>1. FlattenSeq(seqs) = rest[n]
      BY <1>3 DEF FlattenSeq
    <2> DEFINE h == [i \in 1 .. n |-> f[i]]
    <2>2. IsRest(h)
      <3>1. ASSUME NEW i \in 1 .. n PROVE f[i] = v(h, i)
        <4>1. f[i] = Joined(f[i - 1], seqs[i]) /\ seqs[i] \in Seq(T)
          BY DEF IsFlattening
        <4>2. CASE i = 1
          <5>1. f[0] = << >> /\ i - 1 = 0
            BY <4>2 DEF IsFlattening
          <5>2. Joined(<< >>, seqs[i]) = seqs[i]
            BY <4>1, JoinedEmpty
          <5> QED BY <4>1, <4>2, <5>1, <5>2
        <4>3. CASE i # 1
          <5>1. i - 1 \in 1 .. n
            BY <1>1, <4>3
          <5>2. h[i - 1] = f[i - 1]
            BY <5>1
          <5>3. Joined(h[i - 1], seqs[i]) = v(h, i)
            <6> HIDE DEF h
            <6> QED BY <4>3 DEF Joined
          <5> HIDE DEF h, v
          <5> QED BY <4>1, <5>2, <5>3
        <4> QED BY <4>2, <4>3
      <3> DEFINE w(i) == v(h, i)
      <3>2. \A i \in 1 .. n : f[i] = w(i)
        BY <3>1
      <3> HIDE DEF w, n
      <3>3. h = [i \in 1 .. n |-> w(i)]
        BY <3>2
      <3> QED BY <3>3 DEF w
    <2>3. IsRest(rest)
      <3> HIDE DEF IsRest
      <3> QED BY <2>2
    <2> HIDE DEF rest
    <2>4. \A i \in 1 .. n : rest[i] = v(rest, i)
      <3> DEFINE w(i) == v(rest, i)
      <3>1. rest = [i \in 1 .. n |-> w(i)]
        BY <2>3
      <3> HIDE DEF w
      <3>2. \A i \in 1 .. n : rest[i] = w(i)
        BY <3>1
      <3> QED BY <3>2 DEF w
    <2> HIDE DEF n
    <2> DEFINE bad == {i \in 1 .. n : rest[i] # f[i]}
    <2>5. bad = {}
      <3> SUFFICES ASSUME bad # {} PROVE FALSE
        OBVIOUS
      <3>1. PICK i \in bad : \A j \in bad : i <= j
        <4>1. bad \subseteq Nat
          BY <1>1
        <4> HIDE DEF bad
        <4> QED BY <4>1, SmallestExists
      <3>2. f[i] = Joined(f[i - 1], seqs[i]) /\ seqs[i] \in Seq(T) /\ rest[i] = v(rest, i)
        <4>1. i \in 1 .. n /\ i \in 1 .. Len(seqs)
          BY <3>1 DEF n
        <4>2. rest[i] = v(rest, i)
          BY <2>4, <4>1
        <4>3. seqs[i] \in Seq(T)
          BY <4>1
        <4>4. f[i] = Joined(f[i - 1], seqs[i])
          BY <4>1 DEF IsFlattening
        <4> QED BY <4>2, <4>3, <4>4
      <3>3. CASE i = 1
        <4>1. f[0] = << >> /\ i - 1 = 0
          BY <3>3 DEF IsFlattening
        <4>2. Joined(<< >>, seqs[i]) = seqs[i]
          BY <3>2, JoinedEmpty
        <4> QED BY <3>1, <3>2, <3>3, <4>1, <4>2
      <3>4. CASE i # 1
        <4>1. i - 1 \in 1 .. n /\ ~ (i <= i - 1)
          <5>1. i \in 1 .. n
            BY <3>1
          <5> QED BY <1>1, <3>4, <5>1
        <4>a. i - 1 \notin bad
          <5> HIDE DEF bad
          <5> QED BY <3>1, <4>1
        <4>2. rest[i - 1] = f[i - 1]
          BY <4>1, <4>a
        <4>3. v(rest, i) = Joined(rest[i - 1], seqs[i])
          BY <3>4 DEF Joined
        <4> HIDE DEF v
        <4> QED BY <3>1, <3>2, <4>2, <4>3
      <3> QED BY <3>3, <3>4
    <2>6. n \in 1 .. n
      BY <1>1, <1>3
    <2> QED BY <2>1, <2>5, <2>6 DEF n
  <1> QED BY <1>2, <1>3

-----------------------------------------------------------------------------
(* The loop of analyze_block.                                                  *)
Progress == [smallest : Nat, txs : Seq(Transaction)]
AnyBlock == [round : Nat, payload : Seq(Transaction)]

LEMMA ProcessTyped ==
    ASSUME NEW x \in Progress, NEW b \in AnyBlock PROVE Process(x, b) \in Progress
  <1>1. x.txs \in Seq(Transaction) /\ b.payload \in Seq(Transaction) /\ b.round \in Nat
    BY DEF Progress, AnyBlock
  <1>2. x.txs \o b.payload \in Seq(Transaction)
    BY <1>1
  <1> DEFINE y == x.txs \o b.payload
  <1> HIDE DEF y
  <1>3. [smallest |-> b.round + 1, txs |-> y] \in Progress
    BY <1>1, <1>2 DEF Progress, y
  <1> QED BY <1>3 DEF Process, y

LEMMA ProcessingExists ==
    ASSUME NEW a \in Progress, NEW blks \in Seq(AnyBlock)
    PROVE  \E d \in [0 .. Len(blks) -> Progress] :
              /\ d[0] = a
              /\ \A k \in 1 .. Len(blks) : d[k] = Process(d[k - 1], blks[k])
              /\ ProcessAll(a, blks) = d[Len(blks)]
  <1> DEFINE n == Len(blks)
             S == Progress
             v(f, k) == IF k = 0 THEN a ELSE Process(f[k - 1], blks[k])
             IsRest(f) == f = [k \in 0 .. n |-> v(f, k)]
             rest == CHOOSE f : IsRest(f)
             step == [k \in 1 .. n |-> [x \in S |-> Process(x, blks[k])]]
  <1>1. n \in Nat /\ \A k \in 1 .. n : blks[k] \in AnyBlock
    OBVIOUS
  <1>2. \A k \in 1 .. n, x \in S : Process(x, blks[k]) \in S
    BY <1>1, ProcessTyped
  <1>3. step \in [1 .. n -> [S -> S]] /\ \A k \in 1 .. n, x \in S : step[k][x] = Process(x, blks[k])
    <2> HIDE DEF S, n
    <2> QED BY <1>2
  <1> HIDE DEF step
  <1>4. PICK f \in [0 .. n -> S] : IsIteration(f, n, a, step)
    <2> HIDE DEF n
    <2> QED BY <1>1, <1>3, IterationExists
  <1>5. IsRest(f)
    <2> DEFINE u(k) == IF k = 0 THEN a ELSE step[k][f[k - 1]]
    <2>1. ASSUME NEW k \in 0 .. n PROVE u(k) = v(f, k)
      <3>1. k # 0 => k \in 1 .. n /\ f[k - 1] \in S
        BY <1>1, <1>4
      <3> QED BY <1>3, <3>1
    <2>2. f = [k \in 0 .. n |-> u(k)]
      BY <1>4 DEF IsIteration
    <2> HIDE DEF u, v
    <2> QED BY <2>1, <2>2
  <1>6. IsRest(rest)
    <2> HIDE DEF IsRest
    <2> QED BY <1>5
  <1>7. ProcessAll(a, blks) = rest[n]
    BY DEF ProcessAll
  <1> HIDE DEF rest
  <1>8. DOMAIN rest = 0 .. n /\ \A k \in 0 .. n : rest[k] = v(rest, k)
    <2> HIDE DEF v
    <2> QED BY <1>6
  <1>9. rest[0] = a
    BY <1>1, <1>8
  <1>10. ASSUME NEW k \in 1 .. n PROVE rest[k] = Process(rest[k - 1], blks[k])
    <2>1. k \in 0 .. n /\ k # 0
      BY <1>1
    <2> QED BY <1>8, <2>1
  <1> DEFINE bad == {k \in 0 .. n : rest[k] \notin S}
  <1>11. bad = {}
    <2> SUFFICES ASSUME bad # {} PROVE FALSE
      OBVIOUS
    <2>1. PICK k \in bad : \A i \in bad : k <= i
      <3>1. bad \subseteq Nat
        BY <1>1
      <3> HIDE DEF bad
      <3> QED BY <3>1, SmallestExists
    <2>2. k # 0
      BY <1>9, <2>1
    <2>3. k - 1 \in 0 .. n /\ k - 1 \notin bad /\ k \in 1 .. n
      BY <1>1, <2>1, <2>2
    <2> QED BY <1>2, <1>10, <2>1, <2>3
  <1>12. rest \in [0 .. n -> S]
    <2> HIDE DEF S, v
    <2>1. rest = [k \in 0 .. n |-> rest[k]]
      BY <1>6
    <2> QED BY <1>11, <2>1
  <1> HIDE DEF v
  <1> QED BY <1>7, <1>9, <1>10, <1>12

LEMMA BlocksTyped ==
    ASSUME NEW b \in Block
    PROVE  /\ b \in AnyBlock /\ b.round \in Nat /\ b.round >= 1
           /\ b.payload \in Seq(Transaction)
  <1>1. b.round \in 1 .. MaxRound /\ b.payload \in BoundedSeq(Transaction, MaxPayload)
        /\ b = [round |-> b.round, payload |-> b.payload]
    BY DEF Block
  <1>2. PICK m \in 0 .. MaxPayload : b.payload \in [1 .. m -> Transaction]
    BY <1>1 DEF BoundedSeq, SeqOf
  <1>3. m \in Nat /\ b.payload \in Seq(Transaction)
    BY <1>2, LedgerAssumption
  <1>4. b.round \in Nat /\ b.round >= 1
    BY <1>1, LedgerAssumption
  <1> QED BY <1>1, <1>3, <1>4 DEF AnyBlock

Payloads(s) == [i \in DOMAIN s |-> s[i].payload]

LEMMA TransactionsUpTo ==
    ASSUME NEW s \in Seq(Block)
    PROVE  \E f : /\ IsFlattening(f, Payloads(s), Transaction)
                  /\ \A k \in 0 .. Len(s) : TxsOf(SubSeq(s, 1, k)) = f[k]
  <1>1. Len(s) \in Nat /\ DOMAIN s = 1 .. Len(s) /\ \A i \in 1 .. Len(s) : s[i] \in Block
    OBVIOUS
  <1>2. \A i \in 1 .. Len(s) : s[i].payload \in Seq(Transaction)
    BY <1>1, BlocksTyped
  <1> DEFINE p == Payloads(s)
  <1>3. p \in [1 .. Len(s) -> Seq(Transaction)] /\ \A i \in 1 .. Len(s) : p[i] = s[i].payload
    BY <1>1, <1>2 DEF Payloads
  <1> HIDE DEF p
  <1>4. p \in Seq(Seq(Transaction)) /\ Len(p) = Len(s)
    BY <1>1, <1>3
  <1>5. PICK f : IsFlattening(f, p, Transaction)
    BY <1>4, FlatteningExists
  <1>6. ASSUME NEW k \in 0 .. Len(s) PROVE TxsOf(SubSeq(s, 1, k)) = f[k]
    <2> DEFINE q == Payloads(SubSeq(s, 1, k))
    <2>1. /\ k \in Nat /\ DOMAIN SubSeq(s, 1, k) = 1 .. k
          /\ \A i \in 1 .. k : SubSeq(s, 1, k)[i] = s[i] /\ i \in 1 .. Len(s)
      BY <1>1
    <2>2. q \in [1 .. k -> Seq(Transaction)] /\ \A i \in 1 .. k : q[i] = p[i]
      BY <1>2, <1>3, <2>1 DEF Payloads
    <2>3. TxsOf(SubSeq(s, 1, k)) = FlattenSeq(q)
      BY DEF TxsOf, Payloads
    <2> HIDE DEF q
    <2>4. q \in Seq(Seq(Transaction)) /\ Len(q) = k
      <3>1. k \in Nat
        BY <2>1
      <3> QED BY <2>2, <3>1
    <2>5. IsFlattening(f, q, Transaction)
      <3>1. \A i \in 1 .. k : i \in 1 .. Len(p)
        BY <1>4
      <3>2. \A i \in 0 .. k : i \in 0 .. Len(p)
        BY <1>4
      <3> QED BY <1>5, <2>2, <2>4, <3>1, <3>2 DEF IsFlattening
    <2> QED BY <2>3, <2>4, <2>5, FlattenSeqIs
  <1> QED BY <1>5, <1>6 DEF p

(* A ledger that has the chain up to place q has reached a round.               *)
Reached(s, q, r) == r \in IF q = 0 THEN {0, 1} ELSE {s[q].round + 1}
RoundsGrow(s) == \A i \in DOMAIN s, j \in DOMAIN s : i < j => s[i].round < s[j].round
Most(i, j) == IF i < j THEN j ELSE i

LEMMA OneInFront ==
    ASSUME NEW S, NEW e \in S, NEW x \in Seq(S)
    PROVE  /\ (<< e >> \o x) \in Seq(S) /\ Len(<< e >> \o x) = Len(x) + 1
           /\ (<< e >> \o x)[1] = e
           /\ \A i \in 1 .. Len(x) : (<< e >> \o x)[i + 1] = x[i]
  OBVIOUS

LEMMA LoopReaches ==
    ASSUME NEW s \in Seq(Block), RoundsGrow(s), NEW k \in 0 .. Len(s), NEW p \in 0 .. Len(s),
           NEW led \in Seq(Transaction), led = TxsOf(SubSeq(s, 1, p)),
           NEW r \in Nat, Reached(s, p, r)
    PROVE  LET done == ProcessAll([smallest |-> r, txs |-> << >>],
                                  << Genesis >> \o SubSeq(s, 1, k))
           IN /\ done \in Progress
              /\ Joined(led, done.txs) = TxsOf(SubSeq(s, 1, Most(p, k)))
              /\ Reached(s, Most(p, k), done.smallest)
  <1> DEFINE a == [smallest |-> r, txs |-> << >>]
             blks == << Genesis >> \o SubSeq(s, 1, k)
  <1>1. PICK f : /\ IsFlattening(f, Payloads(s), Transaction)
                 /\ \A i \in 0 .. Len(s) : TxsOf(SubSeq(s, 1, i)) = f[i]
    BY TransactionsUpTo
  <1>2. /\ Len(s) \in Nat /\ DOMAIN s = 1 .. Len(s) /\ k \in Nat /\ p \in Nat
        /\ k <= Len(s) /\ p <= Len(s)
        /\ \A i \in 1 .. Len(s) : s[i] \in Block
    OBVIOUS
  <1>3. \A i \in 1 .. Len(s) : /\ s[i] \in AnyBlock /\ s[i].round \in Nat /\ s[i].round >= 1
                               /\ s[i].payload \in Seq(Transaction)
    BY <1>2, BlocksTyped
  <1>4. /\ \A i \in 0 .. Len(s) : f[i] \in Seq(Transaction)
        /\ f[0] = << >>
        /\ \A i \in 1 .. Len(s) : f[i] = Joined(f[i - 1], s[i].payload)
    <2>1. DOMAIN Payloads(s) = 1 .. Len(s) /\ \A i \in 1 .. Len(s) : Payloads(s)[i] = s[i].payload
      BY <1>2 DEF Payloads
    <2>2. Len(Payloads(s)) = Len(s)
      <3>1. Payloads(s) \in [1 .. Len(s) -> Seq(Transaction)]
        BY <1>2, <1>3 DEF Payloads
      <3> QED BY <1>2, <3>1
    <2> QED BY <1>1, <2>1, <2>2 DEF IsFlattening
  <1>5. blks \in Seq(AnyBlock) /\ Len(blks) = k + 1 /\ blks[1] = Genesis
        /\ \A i \in 1 .. k : blks[i + 1] = s[i]
    <2>1. Genesis \in AnyBlock
      BY DEF Genesis, AnyBlock
    <2> DEFINE x == SubSeq(s, 1, k)
    <2>2. Len(x) = k /\ x \in Seq(Block) /\ \A i \in 1 .. k : x[i] = s[i]
      BY <1>2
    <2>3. x \in Seq(AnyBlock)
      <3> HIDE DEF x
      <3>1. \A i \in 1 .. k : x[i] \in AnyBlock
        BY <1>2, <1>3, <2>2
      <3> QED BY <1>2, <2>2, <3>1
    <2> HIDE DEF x
    <2> DEFINE y == << Genesis >> \o x
    <2>7. /\ y \in Seq(AnyBlock) /\ Len(y) = Len(x) + 1 /\ y[1] = Genesis
          /\ \A i \in 1 .. Len(x) : y[i + 1] = x[i]
      BY <2>1, <2>3, OneInFront
    <2>8. y = blks
      BY DEF x
    <2> HIDE DEF y
    <2>9. /\ y \in Seq(AnyBlock) /\ Len(y) = k + 1 /\ y[1] = Genesis
          /\ \A i \in 1 .. k : y[i + 1] = s[i]
      BY <2>2, <2>7
    <2> QED BY <2>8, <2>9
  <1>6. a \in Progress
    BY DEF Progress
  <1> HIDE DEF a, blks
  <1>7. PICK d \in [0 .. Len(blks) -> Progress] :
              /\ d[0] = a
              /\ \A i \in 1 .. Len(blks) : d[i] = Process(d[i - 1], blks[i])
              /\ ProcessAll(a, blks) = d[Len(blks)]
    BY <1>5, <1>6, ProcessingExists
  (* After i of the blocks, of which the first is genesis. *)
  <1> DEFINE Good(i) == /\ Joined(led, d[i].txs) = f[Most(p, i - 1)]
                        /\ Reached(s, Most(p, i - 1), d[i].smallest)
             bad == {i \in 1 .. k + 1 : ~ Good(i)}
  <1>8. \A i \in 0 .. k + 1 : d[i] \in Progress /\ d[i].txs \in Seq(Transaction) /\ d[i].smallest \in Nat
    BY <1>5, <1>7 DEF Progress
  <1>9. led = f[p]
    BY <1>1, <1>2
  <1>10. Good(1)
    <2>1. d[1] = Process(a, Genesis)
      <3>1. 1 \in 1 .. Len(blks) /\ 1 - 1 = 0
        BY <1>2, <1>5
      <3> QED BY <1>5, <1>7, <3>1
    <2>2. Most(p, 1 - 1) = p
      BY <1>2 DEF Most
    <2>3. << >> \o << >> = << >> /\ Joined(led, << >>) = led
      BY JoinedEmpty
    <2>4. CASE r = 0
      <3>1. p = 0
        BY <1>2, <1>3, <2>4 DEF Reached
      <3>2. d[1].txs = << >> /\ d[1].smallest = 1
        BY <2>1, <2>3, <2>4 DEF Process, Genesis, a
      <3> QED BY <1>9, <2>2, <2>3, <3>1, <3>2 DEF Reached
    <2>5. CASE r # 0
      <3>1. d[1].txs = << >> /\ d[1].smallest = r
        BY <2>1, <2>5 DEF Process, Genesis, a
      <3> QED BY <1>9, <2>2, <2>3, <3>1
    <2> QED BY <2>4, <2>5
  <1>11. ASSUME NEW i \in 1 .. k, Good(i) PROVE Good(i + 1)
    <2> DEFINE b == s[i]
    <2>1. /\ d[i + 1] = Process(d[i], b)
      <3>1. i + 1 \in 1 .. Len(blks) /\ (i + 1) - 1 = i
        BY <1>2, <1>5
      <3> QED BY <1>5, <1>7, <3>1
    <2>2. i \in 1 .. Len(s) /\ i \in Nat /\ i >= 1 /\ i - 1 \in Nat /\ (i + 1) - 1 = i
      BY <1>2
    <2>3. d[i].txs \in Seq(Transaction) /\ d[i].smallest \in Nat
      BY <1>2, <1>8, <2>2
    <2>4. CASE i <= p
      <3>1. Most(p, i - 1) = p /\ Most(p, i) = p /\ p # 0
        BY <1>2, <2>2, <2>4 DEF Most
      <3>2. d[i].smallest = s[p].round + 1
        BY <1>11, <3>1 DEF Reached
      <3>3. s[i].round <= s[p].round /\ s[i].round \in Nat /\ s[p].round \in Nat
        <4>1. i \in DOMAIN s /\ p \in DOMAIN s
          BY <1>2, <2>2, <2>4
        <4>2. i < p => s[i].round < s[p].round
          BY <4>1 DEF RoundsGrow
        <4>3. s[i].round \in Nat /\ s[p].round \in Nat
          BY <1>2, <1>3, <4>1
        <4>4. CASE i = p
          BY <4>3, <4>4
        <4>5. CASE i < p
          BY <4>2, <4>3, <4>5
        <4> QED BY <1>2, <2>2, <2>4, <4>4, <4>5
      <3>4. ~ (b.round >= d[i].smallest)
        BY <3>2, <3>3
      <3>5. d[i + 1] = d[i]
        BY <2>1, <3>4 DEF Process
      <3> QED BY <1>11, <2>2, <3>1, <3>5
    <2>5. CASE i > p
      <3>1. Most(p, i - 1) = i - 1 /\ Most(p, i) = i
        BY <1>2, <2>2, <2>5 DEF Most
      <3>2. b.round \in Nat /\ b.round >= 1 /\ b.payload \in Seq(Transaction)
        BY <1>3, <2>2
      <3>3. b.round >= d[i].smallest
        <4>1. CASE i = 1
          <5>1. d[i].smallest \in {0, 1}
            BY <1>11, <3>1, <4>1 DEF Reached
          <5> QED BY <3>2, <5>1
        <4>2. CASE i # 1
          <5>1. i - 1 # 0 /\ i - 1 \in 1 .. Len(s) /\ i - 1 < i
            BY <1>2, <2>2, <4>2
          <5>2. d[i].smallest = s[i - 1].round + 1
            BY <1>11, <3>1, <5>1 DEF Reached
          <5>3. s[i - 1].round < s[i].round /\ s[i - 1].round \in Nat
            BY <1>2, <1>3, <2>2, <5>1 DEF RoundsGrow
          <5> QED BY <3>2, <5>2, <5>3
        <4> QED BY <4>1, <4>2
      <3> DEFINE x == d[i].txs
      <3>4. d[i + 1].txs = Joined(x, b.payload) /\ d[i + 1].smallest = b.round + 1
        <4> DEFINE y == Joined(x, b.payload)
        <4>1. d[i + 1] = [smallest |-> b.round + 1, txs |-> y]
          BY <2>1, <3>3 DEF Process, Joined
        <4> HIDE DEF y
        <4>2. d[i + 1].txs = y /\ d[i + 1].smallest = b.round + 1
          BY <4>1
        <4> QED BY <4>2 DEF y
      <3>5. Joined(led, x) = f[i - 1]
        BY <1>11, <3>1
      <3>6. f[i] = Joined(f[i - 1], b.payload)
        BY <1>4, <2>2
      <3> HIDE DEF b, x
      <3>7. Joined(led, Joined(x, b.payload)) = Joined(Joined(led, x), b.payload)
        BY <2>3, <3>2, JoinedAssociative DEF x
      <3>8. Reached(s, i, b.round + 1)
        BY <2>2 DEF Reached, b
      <3> QED BY <2>2, <3>1, <3>4, <3>5, <3>6, <3>7, <3>8
    <2> QED BY <1>2, <2>2, <2>4, <2>5
  <1>12. bad = {}
    <2> HIDE DEF Good
    <2> SUFFICES ASSUME bad # {} PROVE FALSE
      OBVIOUS
    <2>1. PICK i \in bad : \A j \in bad : i <= j
      <3>1. bad \subseteq Nat
        BY <1>2
      <3> HIDE DEF bad
      <3> QED BY <3>1, SmallestExists
    <2>2. i # 1
      BY <1>10, <2>1
    <2>3. i - 1 \in 1 .. k /\ i - 1 \in 1 .. k + 1 /\ i - 1 \notin bad /\ (i - 1) + 1 = i
      BY <1>2, <2>1, <2>2
    <2>4. Good(i - 1)
      BY <2>3
    <2>5. Good((i - 1) + 1)
      BY <1>11, <2>3, <2>4
    <2> QED BY <2>1, <2>3, <2>5
  <1>13. Good(k + 1)
    <2> HIDE DEF Good
    <2>1. k + 1 \in 1 .. k + 1
      BY <1>2
    <2> QED BY <1>12, <2>1
  <1>14. (k + 1) - 1 = k /\ Most(p, k) \in 0 .. Len(s) /\ k + 1 \in 0 .. k + 1
    BY <1>2 DEF Most
  <1>15. ProcessAll(a, blks) = d[k + 1]
    BY <1>5, <1>7
  <1>16. /\ d[k + 1] \in Progress
         /\ Joined(led, d[k + 1].txs) = TxsOf(SubSeq(s, 1, Most(p, k)))
         /\ Reached(s, Most(p, k), d[k + 1].smallest)
    BY <1>1, <1>8, <1>13, <1>14
  <1> QED BY <1>15, <1>16 DEF a, blks

-----------------------------------------------------------------------------
(* A node's ledger is whole as far as the chain s goes.                        *)
IsWhole(s, led, r) ==
    \E k \in 0 .. Len(s) : led = TxsOf(SubSeq(s, 1, k)) /\ Reached(s, k, r)

LedgerInv ==
    /\ chain \in Seq(Block) /\ RoundsGrow(chain)
    /\ commit \in [Node -> Seq(0 .. Len(chain))]
    /\ smallest_unprocessed_round \in [Node -> Nat]
    /\ ledger \in [Node -> Seq(Transaction)]
    /\ \A n \in Node : IsWhole(chain, ledger[n], smallest_unprocessed_round[n])

LEMMA MoreBlocks ==
    ASSUME NEW s \in Seq(Block), RoundsGrow(s), NEW b \in Block,
           \A i \in DOMAIN s : b.round > s[i].round
    PROVE  /\ Append(s, b) \in Seq(Block) /\ RoundsGrow(Append(s, b))
           /\ Len(s) \in Nat /\ Len(Append(s, b)) = Len(s) + 1
           /\ \A led, r : IsWhole(s, led, r) => IsWhole(Append(s, b), led, r)
  <1> DEFINE t == Append(s, b)
             n == Len(s)
  <1>1. /\ t \in Seq(Block) /\ Len(t) = n + 1 /\ n \in Nat /\ DOMAIN s = 1 .. n
        /\ DOMAIN t = 1 .. n + 1 /\ t[n + 1] = b /\ \A i \in 1 .. n : t[i] = s[i]
        /\ \A i \in 1 .. n : s[i] \in Block
    OBVIOUS
  <1> HIDE DEF t, n
  <1>2. RoundsGrow(t)
    <2> SUFFICES ASSUME NEW i \in 1 .. n + 1, NEW j \in 1 .. n + 1, i < j
                 PROVE  t[i].round < t[j].round
      BY <1>1 DEF RoundsGrow
    <2>1. i \in 1 .. n /\ t[i] = s[i] /\ s[i].round \in Nat
      BY <1>1, BlocksTyped
    <2>2. CASE j = n + 1
      <3>1. b.round > s[i].round /\ b.round \in Nat
        BY <1>1, <2>1, BlocksTyped
      <3> QED BY <1>1, <2>1, <2>2, <3>1
    <2>3. CASE j # n + 1
      <3>1. j \in 1 .. n
        BY <1>1, <2>3
      <3> QED BY <1>1, <2>1, <3>1 DEF RoundsGrow
    <2> QED BY <2>2, <2>3
  <1>3. ASSUME NEW led, NEW r, IsWhole(s, led, r) PROVE IsWhole(t, led, r)
    <2>1. PICK k \in 0 .. n : led = TxsOf(SubSeq(s, 1, k)) /\ Reached(s, k, r)
      BY <1>3 DEF IsWhole, n
    <2>2. SubSeq(t, 1, k) = SubSeq(s, 1, k)
      <3>1. k \in Nat /\ \A i \in 1 .. k : t[i] = s[i]
        BY <1>1
      <3>2. SubSeq(t, 1, k) = [i \in 1 .. k |-> t[i]] /\ SubSeq(s, 1, k) = [i \in 1 .. k |-> s[i]]
        <4>1. /\ Len(SubSeq(t, 1, k)) = k /\ \A i \in 1 .. k : SubSeq(t, 1, k)[i] = t[i]
              /\ SubSeq(t, 1, k) \in Seq(Block)
          BY <1>1
        <4>2. /\ Len(SubSeq(s, 1, k)) = k /\ \A i \in 1 .. k : SubSeq(s, 1, k)[i] = s[i]
              /\ SubSeq(s, 1, k) \in Seq(Block)
          BY <1>1 DEF n
        <4> DEFINE x == SubSeq(t, 1, k)
                   y == SubSeq(s, 1, k)
        <4> HIDE DEF x, y
        <4>3. x = [i \in 1 .. k |-> t[i]]
          BY <3>1, <4>1 DEF x
        <4>4. y = [i \in 1 .. k |-> s[i]]
          BY <3>1, <4>2 DEF y
        <4> QED BY <4>3, <4>4 DEF x, y
      <3> DEFINE x == SubSeq(t, 1, k)
                 y == SubSeq(s, 1, k)
      <3> HIDE DEF x, y
      <3>3. x = y
        BY <3>1, <3>2 DEF x, y
      <3> QED BY <3>3 DEF x, y
    <2> DEFINE x == SubSeq(t, 1, k)
               y == SubSeq(s, 1, k)
    <2>3. x = y /\ led = TxsOf(y)
      BY <2>1, <2>2
    <2> HIDE DEF x, y
    <2>4. led = TxsOf(x)
      BY <2>3
    <2>5. Reached(t, k, r)
      <3>1. k # 0 => t[k] = s[k]
        BY <1>1
      <3> QED BY <2>1, <3>1 DEF Reached
    <2>6. k \in 0 .. Len(t)
      BY <1>1
    <2> QED BY <2>4, <2>5, <2>6 DEF IsWhole, x
  <1> QED BY <1>1, <1>2, <1>3 DEF t, n

(* What analyze_block of a committed block does to a ledger that is whole.      *)
LEMMA AnalyzedIsWhole ==
    ASSUME NEW s \in Seq(Block), RoundsGrow(s), NEW k \in 0 .. Len(s),
           NEW led \in Seq(Transaction), NEW r \in Nat, IsWhole(s, led, r)
    PROVE  LET done == ProcessAll([smallest |-> r, txs |-> << >>],
                                  << Genesis >> \o SubSeq(s, 1, k))
           IN /\ done.smallest \in Nat /\ Joined(led, done.txs) \in Seq(Transaction)
              /\ IsWhole(s, Joined(led, done.txs), done.smallest)
              /\ \E q \in 0 .. Len(s) : k <= q /\ Joined(led, done.txs) = TxsOf(SubSeq(s, 1, q))
  <1>1. PICK p \in 0 .. Len(s) : led = TxsOf(SubSeq(s, 1, p)) /\ Reached(s, p, r)
    BY DEF IsWhole
  <1> DEFINE done == ProcessAll([smallest |-> r, txs |-> << >>],
                                << Genesis >> \o SubSeq(s, 1, k))
             q == Most(p, k)
  <1>2. /\ done \in Progress
        /\ Joined(led, done.txs) = TxsOf(SubSeq(s, 1, q))
        /\ Reached(s, q, done.smallest)
    BY <1>1, LoopReaches
  <1> HIDE DEF done
  <1>3. q \in 0 .. Len(s) /\ k <= q
    BY DEF Most
  <1> HIDE DEF q
  <1>4. done.smallest \in Nat /\ done.txs \in Seq(Transaction)
    BY <1>2 DEF Progress
  <1>5. Joined(led, done.txs) \in Seq(Transaction)
    BY <1>4, JoinedTyped
  <1> QED BY <1>2, <1>3, <1>4, <1>5 DEF IsWhole, done

(* The transactions of a part of the chain are the front of those of a longer one. *)
LEMMA TransactionsGrow ==
    ASSUME NEW s \in Seq(Block), NEW k \in 0 .. Len(s), NEW q \in 0 .. Len(s), k <= q
    PROVE  IsPrefix(TxsOf(SubSeq(s, 1, k)), TxsOf(SubSeq(s, 1, q)))
  <1>1. PICK f : /\ IsFlattening(f, Payloads(s), Transaction)
                 /\ \A i \in 0 .. Len(s) : TxsOf(SubSeq(s, 1, i)) = f[i]
    BY TransactionsUpTo
  <1>2. Len(s) \in Nat /\ Len(Payloads(s)) = Len(s)
        /\ \A i \in 1 .. Len(s) : Payloads(s)[i] \in Seq(Transaction)
    <2>1. DOMAIN s = 1 .. Len(s) /\ Len(s) \in Nat /\ \A i \in 1 .. Len(s) : s[i] \in Block
      OBVIOUS
    <2>2. \A i \in 1 .. Len(s) : s[i].payload \in Seq(Transaction)
      BY <2>1, BlocksTyped
    <2>3. Payloads(s) \in [1 .. Len(s) -> Seq(Transaction)]
      BY <2>1, <2>2 DEF Payloads
    <2> QED BY <2>1, <2>3
  <1>3. /\ \A i \in 0 .. Len(s) : f[i] \in Seq(Transaction)
        /\ \A i \in 1 .. Len(s) : f[i] = Joined(f[i - 1], Payloads(s)[i])
    BY <1>1, <1>2 DEF IsFlattening
  <1> DEFINE bad == {i \in k .. Len(s) : ~ \E x \in Seq(Transaction) : f[i] = Joined(f[k], x)}
  <1>4. bad = {}
    <2> SUFFICES ASSUME bad # {} PROVE FALSE
      OBVIOUS
    <2>1. PICK i \in bad : \A j \in bad : i <= j
      <3>1. bad \subseteq Nat
        BY <1>2
      <3> HIDE DEF bad
      <3> QED BY <3>1, SmallestExists
    <2>2. i # k
      <3>1. f[k] = Joined(f[k], << >>) /\ << >> \in Seq(Transaction)
        BY <1>3, JoinedEmpty
      <3> QED BY <2>1, <3>1
    <2>3. i - 1 \in k .. Len(s) /\ i \in 1 .. Len(s) /\ i - 1 \notin bad
      BY <1>2, <2>1, <2>2
    <2>4. PICK x \in Seq(Transaction) : f[i - 1] = Joined(f[k], x)
      BY <2>3
    <2> DEFINE y == Payloads(s)[i]
    <2>5. y \in Seq(Transaction) /\ f[i] = Joined(f[i - 1], y) /\ f[k] \in Seq(Transaction)
      BY <1>2, <1>3, <2>3
    <2> HIDE DEF y
    <2>6. Joined(x, y) \in Seq(Transaction) /\ Joined(Joined(f[k], x), y) = Joined(f[k], Joined(x, y))
      <3> DEFINE z == f[k]
      <3>1. z \in Seq(Transaction)
        BY <2>5
      <3> HIDE DEF z
      <3>2. Joined(x, y) \in Seq(Transaction) /\ Joined(Joined(z, x), y) = Joined(z, Joined(x, y))
        BY <2>4, <2>5, <3>1, JoinedTyped, JoinedAssociative
      <3> QED BY <3>2 DEF z
    <2> QED BY <2>1, <2>4, <2>5, <2>6
  <1>5. PICK x \in Seq(Transaction) : f[q] = Joined(f[k], x)
    <2>1. q \in k .. Len(s)
      BY <1>2
    <2> QED BY <1>4, <2>1
  <1>6. f[k] \in Seq(Transaction)
    BY <1>3
  <1> DEFINE y == f[k]
  <1> HIDE DEF y
  <1>7. IsPrefix(y, Joined(y, x))
    <2>1. y \in Seq(Transaction) /\ Len(y) \in Nat /\ Len(x) \in Nat
      BY <1>6 DEF y
    <2>2. Len(y) <= Len(y \o x) /\ \A i \in 1 .. Len(y) : (y \o x)[i] = y[i]
      BY <2>1
    <2> DEFINE u == SubSeq(y, 1, Len(y))
               z == y \o x
               w == SubSeq(z, 1, Len(y))
               m == Len(y)
    <2>3. z \in Seq(Transaction)
      BY <2>1
    <2>4. u \in Seq(Transaction) /\ Len(u) = m /\ \A i \in 1 .. m : u[i] = y[i]
      BY <2>1
    <2>5. m <= Len(z) /\ \A i \in 1 .. m : z[i] = y[i]
      BY <2>2
    <2> HIDE DEF z
    <2>6. w \in Seq(Transaction) /\ Len(w) = m /\ \A i \in 1 .. m : w[i] = z[i]
      BY <2>1, <2>3, <2>5
    <2> HIDE DEF u, w, m
    <2>7. u = [i \in 1 .. m |-> y[i]]
      BY <2>4
    <2>8. w = [i \in 1 .. m |-> z[i]]
      BY <2>6
    <2>9. u = w
      BY <2>5, <2>7, <2>8
    <2> QED BY <2>5, <2>9 DEF IsPrefix, Joined, u, w, z, m
  <1> QED BY <1>1, <1>5, <1>7 DEF y

LEMMA LedgerInvInit == LedgerInit => LedgerInv
  <1> SUFFICES ASSUME LedgerInit PROVE LedgerInv
    OBVIOUS
  <1> DEFINE nil == << >>
  <1>1. /\ nil \in Seq(Block) /\ Len(nil) = 0 /\ nil \in Seq(0 .. 0) /\ nil \in Seq(Transaction)
        /\ RoundsGrow(nil)
    BY DEF RoundsGrow
  <1>2. TxsOf(SubSeq(nil, 1, 0)) = nil
    <2>1. SubSeq(nil, 1, 0) = nil /\ DOMAIN nil = {}
      OBVIOUS
    <2>2. TxsOf(nil) = nil
      <3>1. [i \in DOMAIN nil |-> nil[i].payload] = nil
        OBVIOUS
      <3>2. FlattenSeq(nil) = nil
        BY DEF FlattenSeq
      <3> HIDE DEF nil
      <3> QED BY <3>1, <3>2 DEF TxsOf
    <2> HIDE DEF nil
    <2> QED BY <2>1, <2>2
  <1>3. chain = nil /\ commit = [n \in Node |-> nil] /\ ledger = [n \in Node |-> nil]
        /\ smallest_unprocessed_round = [n \in Node |-> 0]
    BY DEF LedgerInit
  <1> HIDE DEF nil
  <1>4. IsWhole(nil, nil, 0)
    <2>1. 0 \in 0 .. Len(nil) /\ Reached(nil, 0, 0)
      BY <1>1 DEF Reached
    <2> QED BY <1>2, <2>1 DEF IsWhole
  <1> QED BY <1>1, <1>3, <1>4 DEF LedgerInv

LEMMA LedgerInvStep == ASSUME LedgerInv, [LedgerNext]_ledgerVars PROVE LedgerInv'
  <1>1. ASSUME NEW b \in Block, Certify(b) PROVE LedgerInv'
    <2>1. /\ chain' = Append(chain, b) /\ \A i \in DOMAIN chain : b.round > chain[i].round
          /\ UNCHANGED <<commit, smallest_unprocessed_round, ledger>>
      BY <1>1 DEF Certify
    <2>2. /\ chain' \in Seq(Block) /\ RoundsGrow(chain') /\ Len(chain) \in Nat
          /\ Len(chain') = Len(chain) + 1
          /\ \A led, r : IsWhole(chain, led, r) => IsWhole(chain', led, r)
      BY <2>1, MoreBlocks DEF LedgerInv
    <2>3. commit' \in [Node -> Seq(0 .. Len(chain'))]
      <3>1. 0 .. Len(chain) \subseteq 0 .. Len(chain')
        BY <2>2
      <3> DEFINE A == 0 .. Len(chain)
                 B == 0 .. Len(chain')
      <3>2. \A x \in Seq(A) : x \in Seq(B)
        <4>1. A \subseteq B
          BY <3>1
        <4> HIDE DEF A, B
        <4> SUFFICES ASSUME NEW x \in Seq(A) PROVE x \in Seq(B)
          OBVIOUS
        <4>2. Len(x) \in Nat /\ x \in [1 .. Len(x) -> A]
          OBVIOUS
        <4>3. x \in [1 .. Len(x) -> B]
          BY <4>1, <4>2
        <4> QED BY <4>2, <4>3
      <3> QED BY <2>1, <3>2 DEF LedgerInv
    <2> QED BY <2>1, <2>2, <2>3 DEF LedgerInv
  <1>2. ASSUME NEW n \in Node, NEW k \in 0 .. Len(chain), Commit(n, k) PROVE LedgerInv'
    <2>1. /\ commit' = [commit EXCEPT ![n] = Append(@, k)]
          /\ UNCHANGED <<chain, smallest_unprocessed_round, ledger>>
      BY <1>2 DEF Commit
    <2> DEFINE x == Append(commit[n], k)
               S == 0 .. Len(chain)
    <2>2. commit \in [Node -> Seq(S)] /\ k \in S
      BY DEF LedgerInv
    <2> HIDE DEF S
    <2>3. x \in Seq(S) /\ commit' = [commit EXCEPT ![n] = x]
      BY <2>1, <2>2
    <2> HIDE DEF x
    <2>4. commit' \in [Node -> Seq(S)]
      BY <2>2, <2>3
    <2> QED BY <2>1, <2>4 DEF LedgerInv, S
  <1>3. ASSUME NEW n \in Node, AnalyzeBlock(n) PROVE LedgerInv'
    <2> DEFINE k == Head(commit[n])
               r == smallest_unprocessed_round[n]
               led == ledger[n]
               done == ProcessAll([smallest |-> r, txs |-> << >>],
                                  << Genesis >> \o SubSeq(chain, 1, k))
    <2>1. /\ commit[n] # << >> /\ commit' = [commit EXCEPT ![n] = Tail(@)] /\ chain' = chain
          /\ smallest_unprocessed_round' = [smallest_unprocessed_round EXCEPT ![n] = done.smallest]
          /\ ledger' = [ledger EXCEPT ![n] = Joined(@, done.txs)]
      BY <1>3 DEF AnalyzeBlock, AncestorsOf, Joined
    <2> DEFINE S == 0 .. Len(chain)
    <2>2. commit \in [Node -> Seq(S)]
      BY DEF LedgerInv
    <2> HIDE DEF S
    <2>3. k \in S /\ Tail(commit[n]) \in Seq(S)
      BY <2>1, <2>2
    <2>4. commit' \in [Node -> Seq(S)]
      BY <2>1, <2>2, <2>3
    <2>5. /\ chain \in Seq(Block) /\ RoundsGrow(chain) /\ k \in 0 .. Len(chain)
          /\ led \in Seq(Transaction) /\ r \in Nat /\ IsWhole(chain, led, r)
      BY <2>3 DEF LedgerInv, S
    <2> HIDE DEF k, r, led
    <2>6. /\ done.smallest \in Nat /\ Joined(led, done.txs) \in Seq(Transaction)
          /\ IsWhole(chain, Joined(led, done.txs), done.smallest)
      BY <2>5, AnalyzedIsWhole
    <2> HIDE DEF done
    <2>7. /\ smallest_unprocessed_round' \in [Node -> Nat]
          /\ ledger' \in [Node -> Seq(Transaction)]
      BY <2>1, <2>6 DEF LedgerInv, led
    <2>8. ASSUME NEW u \in Node PROVE IsWhole(chain', ledger'[u], smallest_unprocessed_round'[u])
      BY <2>1, <2>6 DEF LedgerInv, led
    <2> QED BY <2>1, <2>4, <2>7, <2>8 DEF LedgerInv, S
  <1>4. ASSUME NEW n \in Node, Restart(n) PROVE LedgerInv'
    <2> DEFINE nil == << >>
    <2>1. /\ commit' = [commit EXCEPT ![n] = nil] /\ chain' = chain
          /\ smallest_unprocessed_round' = [smallest_unprocessed_round EXCEPT ![n] = 0]
          /\ ledger' = [ledger EXCEPT ![n] = nil]
      BY <1>4 DEF Restart
    <2>2. nil \in Seq(0 .. Len(chain)) /\ nil \in Seq(Transaction) /\ 0 \in Nat
      OBVIOUS
    <2>3. IsWhole(chain, nil, 0)
      <3>1. TxsOf(SubSeq(chain, 1, 0)) = nil
        <4>1. PICK f : /\ IsFlattening(f, Payloads(chain), Transaction)
                       /\ \A i \in 0 .. Len(chain) : TxsOf(SubSeq(chain, 1, i)) = f[i]
          BY TransactionsUpTo DEF LedgerInv
        <4>2. 0 \in 0 .. Len(chain)
          BY DEF LedgerInv
        <4> QED BY <4>1, <4>2 DEF IsFlattening
      <3>2. 0 \in 0 .. Len(chain) /\ Reached(chain, 0, 0)
        BY DEF LedgerInv, Reached
      <3> QED BY <3>1, <3>2 DEF IsWhole
    <2> HIDE DEF nil
    <2> QED BY <2>1, <2>2, <2>3 DEF LedgerInv
  <1>5. CASE UNCHANGED ledgerVars
    BY <1>5 DEF ledgerVars, LedgerInv
  <1> QED BY <1>1, <1>2, <1>3, <1>4, <1>5 DEF LedgerNext

LEMMA LedgerInvariant == LedgerSpec => []LedgerInv
  BY LedgerInvInit, LedgerInvStep, PTL DEF LedgerSpec

(* Every ledger is the transactions of whole blocks of the chain, each once.     *)
THEOREM LedgersAreWhole == LedgerSpec => []WholeBlocksOnce
  <1>1. LedgerInv => WholeBlocksOnce
    BY DEF LedgerInv, WholeBlocksOnce, IsWhole, Reached
  <1> QED BY <1>1, LedgerInvariant, PTL

(* A committed block that is processed is in the ledger with all before it.      *)
THEOREM ProcessedIsInLedger == LedgerSpec => CommitsReachLedger
  <1>1. LedgerInv /\ [LedgerNext]_ledgerVars =>
          [\A n \in Node : AnalyzeBlock(n) =>
             IsPrefix(TxsOf(SubSeq(chain, 1, Head(commit[n]))), ledger'[n])]_ledgerVars
    <2> SUFFICES ASSUME LedgerInv, NEW n \in Node, AnalyzeBlock(n)
                 PROVE  IsPrefix(TxsOf(SubSeq(chain, 1, Head(commit[n]))), ledger'[n])
      OBVIOUS
    <2> DEFINE k == Head(commit[n])
               r == smallest_unprocessed_round[n]
               led == ledger[n]
               done == ProcessAll([smallest |-> r, txs |-> << >>],
                                  << Genesis >> \o SubSeq(chain, 1, k))
    <2>1. commit[n] # << >> /\ ledger' = [ledger EXCEPT ![n] = Joined(@, done.txs)]
      BY DEF AnalyzeBlock, AncestorsOf, Joined
    <2>2. commit[n] \in Seq(0 .. Len(chain))
      BY DEF LedgerInv
    <2>3. /\ chain \in Seq(Block) /\ RoundsGrow(chain) /\ k \in 0 .. Len(chain)
          /\ led \in Seq(Transaction) /\ r \in Nat /\ IsWhole(chain, led, r)
      <3>1. k \in 0 .. Len(chain)
        <4> DEFINE S == 0 .. Len(chain)
        <4>1. commit[n] \in Seq(S)
          BY <2>2
        <4> HIDE DEF S
        <4>2. k \in S
          BY <2>1, <4>1
        <4> QED BY <4>2 DEF S
      <3> QED BY <3>1 DEF LedgerInv
    <2> HIDE DEF k, r, led
    <2>4. PICK q \in 0 .. Len(chain) :
            k <= q /\ Joined(led, done.txs) = TxsOf(SubSeq(chain, 1, q))
      BY <2>3, AnalyzedIsWhole
    <2>5. IsPrefix(TxsOf(SubSeq(chain, 1, k)), TxsOf(SubSeq(chain, 1, q)))
      BY <2>3, <2>4, TransactionsGrow
    <2> HIDE DEF done
    <2>6. ledger'[n] = Joined(led, done.txs)
      BY <2>1 DEF LedgerInv, led
    <2> QED BY <2>4, <2>5, <2>6 DEF k
  <1> QED BY <1>1, LedgerInvariant, PTL DEF LedgerSpec, CommitsReachLedger
=============================================================================
