--------------------------- MODULE LcBlockTreeProofs ---------------------------
(***************************************************************************)
(* What the operators of the block tree return, for every tree.               *)
(***************************************************************************)
EXTENDS LcBlockTree, FiniteSetTheorems, WellFoundedInduction, TLAPS

-----------------------------------------------------------------------------
(* Arguments by a smallest counterexample.                                    *)

(* A set of numbers has a least one.                                          *)
LEMMA SmallestExists ==
    ASSUME NEW T, T \subseteq Nat, T # {}
    PROVE  \E x \in T : \A y \in T : x <= y
  <1>1. PICK x \in T : \A y \in T : ~ (<<y, x>> \in OpToRel(<, Nat))
    BY NatLessThanWellFounded, WFMin
  <1>2. ASSUME NEW y \in T PROVE x <= y
    <2>1. ~ (<<y, x>> \in OpToRel(<, Nat))
      BY <1>1
    <2> QED BY <2>1 DEF OpToRel
  <1> QED BY <1>2

(* A set of blocks has one of least height.                                   *)
LEMMA LowestExists ==
    ASSUME NEW D, NEW h, \A d \in D : h[d] \in Nat, D # {}
    PROVE  \E d \in D : \A e \in D : h[d] <= h[e]
  <1>1. {h[d] : d \in D} \subseteq Nat /\ {h[d] : d \in D} # {}
    OBVIOUS
  <1>2. PICK x \in {h[d] : d \in D} : \A y \in {h[d] : d \in D} : x <= y
    BY <1>1, SmallestExists
  <1> QED BY <1>2

-----------------------------------------------------------------------------
(* A monotone function on the subsets of a set has a fixpoint.                *)
LEMMA FixpointExists ==
    ASSUME NEW U, NEW F \in [SUBSET U -> SUBSET U],
           \A S, T \in SUBSET U : S \subseteq T => F[S] \subseteq F[T]
    PROVE  \E S \in SUBSET U : F[S] = S
  <1> DEFINE S == {x \in U : \A T \in SUBSET U : F[T] \subseteq T => x \in T}
  <1>1. S \in SUBSET U /\ \A T \in SUBSET U : F[T] \subseteq T => S \subseteq T
    OBVIOUS
  <1>2. F[S] \subseteq S
    <2> SUFFICES ASSUME NEW x \in F[S], NEW T \in SUBSET U, F[T] \subseteq T PROVE x \in T
      BY <1>1
    <2> QED BY <1>1
  <1> HIDE DEF S
  <1>3. S \subseteq F[S]
    BY <1>1, <1>2
  <1>4. F[S] = S
    BY <1>2, <1>3
  <1> QED BY <1>1, <1>4

(* An iteration: f[0] is a, and f[j] comes from f[j - 1] by step[j].           *)
IsIteration(f, k, a, step) ==
    f = [j \in 0 .. k |-> IF j = 0 THEN a ELSE step[j][f[j - 1]]]

LEMMA IterationExists ==
    ASSUME NEW k \in Nat, NEW S, NEW a \in S, NEW step \in [1 .. k -> [S -> S]]
    PROVE  \E f \in [0 .. k -> S] : IsIteration(f, k, a, step)
  <1> DEFINE P(n) == \E f \in [0 .. n -> S] : IsIteration(f, n, a, step)
             bad == {n \in 0 .. k : ~ P(n)}
  <1>1. bad = {}
    <2> SUFFICES ASSUME bad # {} PROVE FALSE
      OBVIOUS
    <2>1. PICK n \in bad : \A m \in bad : n <= m
      <3>1. bad \subseteq Nat
        OBVIOUS
      <3> HIDE DEF bad
      <3> QED BY <3>1, SmallestExists
    <2>2. n # 0
      <3> DEFINE f == [j \in 0 .. 0 |-> a]
      <3>1. f \in [0 .. 0 -> S] /\ IsIteration(f, 0, a, step)
        BY DEF IsIteration
      <3> QED BY <3>1
    <2>3. n - 1 \in 0 .. k /\ n - 1 \notin bad /\ n \in 1 .. k
      BY <2>1, <2>2
    <2>4. PICK f \in [0 .. n - 1 -> S] : IsIteration(f, n - 1, a, step)
      BY <2>3
    <2> DEFINE g == [j \in 0 .. n |-> IF j = n THEN step[n][f[n - 1]] ELSE f[j]]
    <2>5. g \in [0 .. n -> S]
      BY <2>3, <2>4
    <2>6. \A j \in 0 .. n - 1 : f[j] = IF j = 0 THEN a ELSE step[j][f[j - 1]]
      BY <2>3, <2>4 DEF IsIteration
    <2>7. \A j \in 0 .. n : g[j] = IF j = 0 THEN a ELSE step[j][g[j - 1]]
      <3> SUFFICES ASSUME NEW j \in 0 .. n
                   PROVE  g[j] = IF j = 0 THEN a ELSE step[j][g[j - 1]]
        OBVIOUS
      <3>1. j # 0 => j - 1 \in 0 .. n - 1 /\ g[j - 1] = f[j - 1]
        BY <2>3
      <3>2. CASE j = n
        BY <2>3, <3>1, <3>2
      <3>3. CASE j # n
        BY <2>3, <2>6, <3>1, <3>3
      <3> QED BY <3>2, <3>3
    <2>8. IsIteration(g, n, a, step)
      <3> HIDE DEF g
      <3> DEFINE v(j) == IF j = 0 THEN a ELSE step[j][g[j - 1]]
      <3>1. g = [j \in 0 .. n |-> g[j]] /\ \A j \in 0 .. n : g[j] = v(j)
        BY <2>5, <2>7
      <3> HIDE DEF v
      <3>2. g = [j \in 0 .. n |-> v(j)]
        BY <3>1
      <3> QED BY <3>2 DEF IsIteration, v
    <2> QED BY <2>1, <2>5, <2>8
  <1> QED BY <1>1

-----------------------------------------------------------------------------
(* Walks towards genesis.  A walk passes the blocks of Ok only, until it has   *)
(* reached its goal.                                                             *)
IsWalk(w, D, Ok, up, goal) ==
    w = [d \in D |-> d \in Ok /\ (d = goal \/ (up[d] # NoParent /\ w[up[d]]))]

LEMMA WalkExists ==
    ASSUME NEW D, NEW Ok, NEW up, NEW goal,
           \A d \in D : up[d] # NoParent => up[d] \in D
    PROVE  \E w : IsWalk(w, D, Ok, up, goal)
  <1> DEFINE Turn(T, d) == d \in Ok /\ (d = goal \/ (up[d] # NoParent /\ up[d] \in T))
             F == [T \in SUBSET D |-> {d \in D : Turn(T, d)}]
  <1>1. PICK S \in SUBSET D : F[S] = S
    <2>1. F \in [SUBSET D -> SUBSET D]
      OBVIOUS
    <2>2. \A S, T \in SUBSET D : S \subseteq T => F[S] \subseteq F[T]
      OBVIOUS
    <2> HIDE DEF F
    <2> QED BY <2>1, <2>2, FixpointExists
  <1>2. \A d \in D : d \in S <=> Turn(S, d)
    BY <1>1
  <1> DEFINE w == [d \in D |-> d \in S]
  <1>3. ASSUME NEW d \in D
        PROVE  (d \in S) = (d \in Ok /\ (d = goal \/ (up[d] # NoParent /\ w[up[d]])))
    <2>1. up[d] # NoParent => (w[up[d]] <=> up[d] \in S)
      OBVIOUS
    <2> HIDE DEF w
    <2> QED BY <1>2, <2>1
  <1>4. IsWalk(w, D, Ok, up, goal)
    <2> DEFINE v(d) == d \in Ok /\ (d = goal \/ (up[d] # NoParent /\ w[up[d]]))
    <2>1. \A d \in D : (d \in S) = v(d)
      BY <1>3
    <2> HIDE DEF v
    <2>2. [d \in D |-> d \in S] = [d \in D |-> v(d)]
      BY <2>1
    <2> QED BY <2>2 DEF v, IsWalk
  <1> QED BY <1>4

(* A set of blocks with the parents of all its blocks.                         *)
ClosedUnderParents(blocks) ==
    \A d \in DOMAIN blocks : blocks[d].parent # NoParent => blocks[d].parent \in DOMAIN blocks

ExtendsWalk(blocks, short) ==
    CHOOSE walk : walk = [d \in DOMAIN blocks |->
        d = short \/ (blocks[d].parent # NoParent /\ walk[blocks[d].parent])]

(* Extends is what its recursion says.                                         *)
LEMMA ExtendsStep ==
    ASSUME NEW blocks, ClosedUnderParents(blocks), NEW short, NEW d \in DOMAIN blocks
    PROVE  Extends(blocks, short, d) <=>
              \/ d = short
              \/ blocks[d].parent # NoParent /\ Extends(blocks, short, blocks[d].parent)
  <1> DEFINE D == DOMAIN blocks
             up == [x \in D |-> blocks[x].parent]
             W(w) == w = [x \in D |-> x = short \/ (blocks[x].parent # NoParent /\ w[blocks[x].parent])]
  <1>1. \E w : W(w)
    <2>1. \A x \in D : up[x] # NoParent => up[x] \in D
      BY DEF ClosedUnderParents
    <2> HIDE DEF D, up
    <2>2. PICK w : IsWalk(w, D, D, up, short)
      BY <2>1, WalkExists
    <2> USE DEF D, up
    <2>3. W(w)
      BY <2>2 DEF IsWalk
    <2> QED BY <2>3
  <1>2. W(ExtendsWalk(blocks, short))
    BY <1>1 DEF ExtendsWalk
  <1>3. \A x : Extends(blocks, short, x) = ExtendsWalk(blocks, short)[x]
    BY DEF Extends, ExtendsWalk
  <1> HIDE DEF D
  <1> DEFINE walk == ExtendsWalk(blocks, short)
  <1>4. d \in D
    BY DEF D
  <1> HIDE DEF walk
  <1>5. walk[d] = (d = short \/ (blocks[d].parent # NoParent /\ walk[blocks[d].parent]))
    BY <1>2, <1>4 DEF walk
  <1> QED BY <1>3, <1>5 DEF walk

PrefixWalk(t, short) ==
    CHOOSE walk : walk = [d \in Known(t) |->
        /\ t.precomputed_height[short] <= t.precomputed_height[d]
        /\ d = short \/ (Parent(t, d) # NoParent /\ walk[Parent(t, d)])]

(* IsPrefixOf is what its recursion says.                                      *)
LEMMA IsPrefixOfStep ==
    ASSUME NEW t, ClosedUnderParents(t.lcblocks), NEW short, NEW d \in Known(t)
    PROVE  IsPrefixOf(t, short, d) <=>
              /\ t.precomputed_height[short] <= t.precomputed_height[d]
              /\ d = short \/ (Parent(t, d) # NoParent /\ IsPrefixOf(t, short, Parent(t, d)))
  <1> DEFINE D == Known(t)
             h == t.precomputed_height
             Ok == {x \in D : h[short] <= h[x]}
             up == [x \in D |-> Parent(t, x)]
             v(w, x) == /\ h[short] <= h[x]
                        /\ x = short \/ (Parent(t, x) # NoParent /\ w[Parent(t, x)])
             W(w) == w = [x \in D |-> v(w, x)]
  <1>1. \E w : W(w)
    <2>1. \A x \in D : up[x] # NoParent => up[x] \in D
      BY DEF ClosedUnderParents, Known, Parent
    <2>2. \A x \in D : up[x] = Parent(t, x) /\ (x \in Ok <=> h[short] <= h[x])
      OBVIOUS
    <2> HIDE DEF D, up, Ok, h
    <2>3. PICK w : IsWalk(w, D, Ok, up, short)
      BY <2>1, WalkExists
    <2> DEFINE u(x) == x \in Ok /\ (x = short \/ (up[x] # NoParent /\ w[up[x]]))
    <2>4. w = [x \in D |-> u(x)]
      BY <2>3 DEF IsWalk
    <2>5. \A x \in D : u(x) = v(w, x)
      BY <2>2
    <2> HIDE DEF u, v
    <2>6. w = [x \in D |-> v(w, x)]
      BY <2>4, <2>5
    <2> QED BY <2>6
  <1>2. W(PrefixWalk(t, short))
    BY <1>1 DEF PrefixWalk
  <1>3. \A x : IsPrefixOf(t, short, x) = PrefixWalk(t, short)[x]
    BY DEF IsPrefixOf, PrefixWalk
  <1> HIDE DEF D, h
  <1> DEFINE walk == PrefixWalk(t, short)
  <1>4. d \in D
    BY DEF D
  <1> HIDE DEF walk
  <1>5. walk[d] = v(walk, d)
    <2> HIDE DEF v
    <2> QED BY <1>2, <1>4 DEF walk
  <1> QED BY <1>3, <1>5 DEF walk, h

-----------------------------------------------------------------------------
(* Heights.  A part D of some blocks is grounded if it has the parents of its    *)
(* blocks, and h is how far these are from genesis.                               *)
Grounded(blocks, D, h) ==
    /\ D \subseteq DOMAIN blocks
    /\ \A d \in D :
         /\ h[d] \in Nat
         /\ IF blocks[d].parent = NoParent
            THEN h[d] = 0
            ELSE blocks[d].parent \in D /\ h[d] = h[blocks[d].parent] + 1

(* Ancestors are lower and in the same part.                                   *)
LEMMA AncestorsLower ==
    ASSUME NEW blocks, ClosedUnderParents(blocks), NEW D, NEW h, Grounded(blocks, D, h),
           NEW a, NEW c \in D, Extends(blocks, a, c)
    PROVE  a \in D /\ (a = c \/ h[a] < h[c])
  <1> DEFINE bad == {d \in D : Extends(blocks, a, d) /\ ~ (a \in D /\ (a = d \/ h[a] < h[d]))}
  <1>1. bad = {}
    <2> SUFFICES ASSUME bad # {} PROVE FALSE
      OBVIOUS
    <2>1. PICK d \in bad : \A e \in bad : h[d] <= h[e]
      <3>1. \A d \in bad : h[d] \in Nat
        BY DEF Grounded
      <3> HIDE DEF bad
      <3> QED BY <3>1, LowestExists
    <2>2. d \in DOMAIN blocks /\ d # a
      BY <2>1 DEF Grounded
    <2>3. blocks[d].parent # NoParent /\ Extends(blocks, a, blocks[d].parent)
      BY <2>1, <2>2, ExtendsStep
    <2>4. blocks[d].parent \in D /\ h[d] = h[blocks[d].parent] + 1 /\ h[blocks[d].parent] \in Nat
      BY <2>1, <2>3 DEF Grounded
    <2>5. blocks[d].parent \notin bad
      BY <2>1, <2>4
    <2>6. a \in D /\ (a = blocks[d].parent \/ h[a] < h[blocks[d].parent])
      BY <2>3, <2>4, <2>5
    <2>7. h[a] \in Nat
      BY <2>6 DEF Grounded
    <2>8. h[a] < h[d]
      BY <2>4, <2>6, <2>7
    <2> QED BY <2>1, <2>6, <2>8
  <1> QED BY <1>1

(* A block extends itself.                                                     *)
LEMMA ExtendsReflexive ==
    ASSUME NEW blocks, ClosedUnderParents(blocks), NEW d \in DOMAIN blocks
    PROVE  Extends(blocks, d, d)
  BY ExtendsStep

LEMMA ExtendsTransitive ==
    ASSUME NEW blocks, ClosedUnderParents(blocks), NEW D, NEW h, Grounded(blocks, D, h),
           NEW a, NEW b, NEW c \in D, Extends(blocks, a, b), Extends(blocks, b, c)
    PROVE  Extends(blocks, a, c)
  <1> DEFINE bad == {d \in D : Extends(blocks, b, d) /\ ~ Extends(blocks, a, d)}
  <1>1. bad = {}
    <2> SUFFICES ASSUME bad # {} PROVE FALSE
      OBVIOUS
    <2>1. PICK d \in bad : \A e \in bad : h[d] <= h[e]
      <3>1. \A d \in bad : h[d] \in Nat
        BY DEF Grounded
      <3> HIDE DEF bad
      <3> QED BY <3>1, LowestExists
    <2>2. d \in DOMAIN blocks /\ d # b
      BY <2>1 DEF Grounded
    <2>3. blocks[d].parent # NoParent /\ Extends(blocks, b, blocks[d].parent)
      BY <2>1, <2>2, ExtendsStep
    <2>4. blocks[d].parent \in D /\ h[d] = h[blocks[d].parent] + 1 /\ h[blocks[d].parent] \in Nat
      BY <2>1, <2>3 DEF Grounded
    <2>5. Extends(blocks, a, blocks[d].parent)
      BY <2>1, <2>3, <2>4
    <2>6. Extends(blocks, a, d)
      BY <2>2, <2>3, <2>5, ExtendsStep
    <2> QED BY <2>1, <2>6
  <1> QED BY <1>1

(* Of two ancestors of a block, the higher extends the other.                  *)
LEMMA AncestorsComparable ==
    ASSUME NEW blocks, ClosedUnderParents(blocks), NEW D, NEW h, Grounded(blocks, D, h),
           NEW a, NEW b, NEW c \in D, Extends(blocks, a, c), Extends(blocks, b, c), h[a] <= h[b]
    PROVE  Extends(blocks, a, b)
  <1> DEFINE bad == {d \in D : /\ Extends(blocks, a, d) /\ Extends(blocks, b, d)
                               /\ ~ Extends(blocks, a, b)}
  <1>1. bad = {}
    <2> SUFFICES ASSUME bad # {} PROVE FALSE
      OBVIOUS
    <2>1. PICK d \in bad : \A e \in bad : h[d] <= h[e]
      <3>1. \A d \in bad : h[d] \in Nat
        BY DEF Grounded
      <3> HIDE DEF bad
      <3> QED BY <3>1, LowestExists
    <2>2. d \in DOMAIN blocks /\ d # b
      BY <2>1 DEF Grounded
    <2>3. blocks[d].parent # NoParent /\ Extends(blocks, b, blocks[d].parent)
      BY <2>1, <2>2, ExtendsStep
    <2>4. blocks[d].parent \in D /\ h[d] = h[blocks[d].parent] + 1 /\ h[blocks[d].parent] \in Nat
      BY <2>1, <2>3 DEF Grounded
    <2>5. a # d
      <3> SUFFICES ASSUME a = d PROVE FALSE
        OBVIOUS
      <3>1. b \in D /\ h[b] < h[d] /\ h[b] \in Nat /\ h[d] \in Nat
        BY <2>1, <2>2, AncestorsLower DEF Grounded
      <3> QED BY <3>1
    <2>6. Extends(blocks, a, blocks[d].parent)
      BY <2>1, <2>2, <2>5, ExtendsStep
    <2>7. blocks[d].parent \in bad
      BY <2>1, <2>3, <2>4, <2>6
    <2> QED BY <2>1, <2>4, <2>7
  <1> QED BY <1>1

(* Ancestry within a grounded part does not depend on the other blocks there are. *)
LEMMA SameAncestors ==
    ASSUME NEW blocks, NEW others, ClosedUnderParents(blocks), ClosedUnderParents(others),
           NEW D, NEW h, Grounded(blocks, D, h),
           D \subseteq DOMAIN others, \A d \in D : others[d].parent = blocks[d].parent,
           NEW a, NEW c \in D
    PROVE  Extends(others, a, c) <=> Extends(blocks, a, c)
  <1> DEFINE bad == {d \in D : ~ (Extends(others, a, d) <=> Extends(blocks, a, d))}
  <1>1. bad = {}
    <2> SUFFICES ASSUME bad # {} PROVE FALSE
      OBVIOUS
    <2>1. PICK d \in bad : \A e \in bad : h[d] <= h[e]
      <3>1. \A d \in bad : h[d] \in Nat
        BY DEF Grounded
      <3> HIDE DEF bad
      <3> QED BY <3>1, LowestExists
    <2>2. d \in DOMAIN blocks /\ d \in DOMAIN others /\ others[d].parent = blocks[d].parent
      BY <2>1 DEF Grounded
    <2>3. /\ Extends(blocks, a, d) <=> d = a \/ (blocks[d].parent # NoParent /\ Extends(blocks, a, blocks[d].parent))
          /\ Extends(others, a, d) <=> d = a \/ (blocks[d].parent # NoParent /\ Extends(others, a, blocks[d].parent))
      BY <2>2, ExtendsStep
    <2>4. CASE blocks[d].parent = NoParent
      BY <2>1, <2>3, <2>4
    <2>5. CASE blocks[d].parent # NoParent
      <3>1. /\ blocks[d].parent \in D /\ h[d] = h[blocks[d].parent] + 1
            /\ h[blocks[d].parent] \in Nat
        BY <2>1, <2>5 DEF Grounded
      <3>2. blocks[d].parent \notin bad
        BY <2>1, <3>1
      <3> QED BY <2>1, <2>3, <3>1, <3>2
    <2> QED BY <2>4, <2>5
  <1> QED BY <1>1

(* So do heights not.                                                          *)
LEMMA SameHeights ==
    ASSUME NEW blocks, NEW others, NEW D, NEW E, NEW h, NEW k,
           Grounded(blocks, D, h), Grounded(others, E, k),
           D \subseteq E, \A d \in D : others[d].parent = blocks[d].parent,
           NEW c \in D
    PROVE  h[c] = k[c]
  <1> DEFINE bad == {d \in D : h[d] # k[d]}
  <1>1. bad = {}
    <2> SUFFICES ASSUME bad # {} PROVE FALSE
      OBVIOUS
    <2>1. PICK d \in bad : \A e \in bad : h[d] <= h[e]
      <3>1. \A d \in bad : h[d] \in Nat
        BY DEF Grounded
      <3> HIDE DEF bad
      <3> QED BY <3>1, LowestExists
    <2>2. d \in D /\ d \in E /\ h[d] # k[d] /\ others[d].parent = blocks[d].parent
      BY <2>1
    <2>3. blocks[d].parent # NoParent
      BY <2>2 DEF Grounded
    <2>4. /\ blocks[d].parent \in D /\ h[d] = h[blocks[d].parent] + 1
          /\ h[blocks[d].parent] \in Nat /\ k[d] = k[blocks[d].parent] + 1
      BY <2>2, <2>3 DEF Grounded
    <2>5. blocks[d].parent \in bad
      BY <2>2, <2>4
    <2> QED BY <2>1, <2>4, <2>5
  <1> QED BY <1>1

(* Depth is the height where there is one.                                     *)
LEMMA DepthIsHeight ==
    ASSUME NEW blocks, NEW h, Grounded(blocks, DOMAIN blocks, h), NEW c \in DOMAIN blocks
    PROVE  Depth(blocks, c) = h[c]
  <1> DEFINE D == DOMAIN blocks
             v(f, b) == IF blocks[b].parent = NoParent THEN 0 ELSE f[blocks[b].parent] + 1
             IsDepth(f) == f = [b \in D |-> v(f, b)]
             depth == CHOOSE f : IsDepth(f)
  <1>1. \E f : IsDepth(f)
    <2> DEFINE f == [b \in D |-> h[b]]
    <2>1. \A b \in D : h[b] = v(f, b)
      BY DEF Grounded
    <2> HIDE DEF v, D
    <2>2. f = [b \in D |-> v(f, b)]
      BY <2>1
    <2> QED BY <2>2
  <1>2. IsDepth(depth)
    <2> HIDE DEF IsDepth
    <2> QED BY <1>1
  <1>3. Depth(blocks, c) = depth[c]
    BY DEF Depth
  <1> HIDE DEF depth
  <1>4. \A b \in D : depth[b] = v(depth, b)
    <2> HIDE DEF D, v
    <2> QED BY <1>2
  <1>5. Grounded(blocks, D, depth)
    <2> DEFINE bad == {d \in D : depth[d] \notin Nat}
    <2>1. bad = {}
      <3> SUFFICES ASSUME bad # {} PROVE FALSE
        OBVIOUS
      <3>1. PICK d \in bad : \A e \in bad : h[d] <= h[e]
        <4>1. \A d \in bad : h[d] \in Nat
          BY DEF Grounded
        <4> HIDE DEF bad
        <4> QED BY <4>1, LowestExists
      <3>2. blocks[d].parent # NoParent
        BY <1>4, <3>1
      <3>3. /\ blocks[d].parent \in D /\ h[d] = h[blocks[d].parent] + 1
            /\ h[blocks[d].parent] \in Nat
        BY <3>1, <3>2 DEF Grounded
      <3>4. blocks[d].parent \notin bad
        BY <3>1, <3>3
      <3> QED BY <1>4, <3>1, <3>2, <3>3, <3>4
    <2> QED BY <1>4, <2>1 DEF Grounded
  <1>6. depth[c] = h[c]
    <2> HIDE DEF D
    <2>1. c \in D
      BY DEF D
    <2>2. Grounded(blocks, D, h)
      BY DEF D
    <2> QED BY <1>5, <2>1, <2>2, SameHeights
  <1> QED BY <1>3, <1>6

-----------------------------------------------------------------------------
(* The operators on a tree.                                                   *)
GroundedTree(t) == Grounded(t.lcblocks, Known(t), t.precomputed_height)

LEMMA GroundedClosed ==
    ASSUME NEW t, GroundedTree(t)
    PROVE  ClosedUnderParents(t.lcblocks) /\ Known(t) = DOMAIN t.lcblocks
  BY DEF GroundedTree, Grounded, ClosedUnderParents, Known

(* The walk of is_prefix_of that stops below the height of its goal misses nothing. *)
LEMMA PrefixIsExtends ==
    ASSUME NEW t, GroundedTree(t), NEW short, NEW c \in Known(t)
    PROVE  IsPrefixOf(t, short, c) <=> Extends(t.lcblocks, short, c)
  <1> DEFINE b == t.lcblocks
             h == t.precomputed_height
             bad == {d \in Known(t) : ~ (IsPrefixOf(t, short, d) <=> Extends(b, short, d))}
  <1>1. bad = {}
    <2> SUFFICES ASSUME bad # {} PROVE FALSE
      OBVIOUS
    <2>1. PICK d \in bad : \A e \in bad : h[d] <= h[e]
      <3>1. \A d \in bad : h[d] \in Nat
        BY DEF Grounded, GroundedTree
      <3> HIDE DEF bad
      <3> QED BY <3>1, LowestExists
    <2>2. d \in Known(t) /\ d \in DOMAIN b /\ Parent(t, d) = b[d].parent
      BY <2>1 DEF Known, Parent
    <2>3. /\ Extends(b, short, d) <=> d = short \/ (b[d].parent # NoParent /\ Extends(b, short, b[d].parent))
          /\ IsPrefixOf(t, short, d) <=>
                /\ h[short] <= h[d]
                /\ d = short \/ (b[d].parent # NoParent /\ IsPrefixOf(t, short, b[d].parent))
      BY <2>2, GroundedClosed, ExtendsStep, IsPrefixOfStep
    <2>4. Extends(b, short, d) => h[short] <= h[d]
      <3>1. Extends(b, short, d) => short \in Known(t) /\ (short = d \/ h[short] < h[d])
        BY <2>2, GroundedClosed, AncestorsLower DEF GroundedTree
      <3>2. \A x \in Known(t) : h[x] \in Nat
        BY DEF GroundedTree, Grounded
      <3> HIDE DEF h, b
      <3> QED BY <2>2, <3>1, <3>2
    <2>5. CASE b[d].parent = NoParent
      BY <2>1, <2>3, <2>4, <2>5
    <2>6. CASE b[d].parent # NoParent
      <3>1. /\ b[d].parent \in Known(t) /\ h[d] = h[b[d].parent] + 1
            /\ h[b[d].parent] \in Nat
        BY <2>2, <2>6 DEF GroundedTree, Grounded
      <3>2. b[d].parent \notin bad
        BY <2>1, <3>1
      <3> QED BY <2>1, <2>3, <2>4, <3>1, <3>2
    <2> QED BY <2>5, <2>6
  <1> QED BY <1>1

(* k_deep is an ancestor.                                                      *)
LEMMA KDeepIsAncestor ==
    ASSUME NEW t, GroundedTree(t), NEW k \in Nat, NEW b \in Known(t)
    PROVE  KDeep(t, k, b) \in Known(t) /\ Extends(t.lcblocks, KDeep(t, k, b), b)
  <1> DEFINE one(x) == IF Parent(t, x) = NoParent THEN x ELSE Parent(t, x)
             v(f, j) == IF j = 0 THEN b ELSE one(f[j - 1])
             IsBack(f) == f = [j \in 0 .. k |-> v(f, j)]
             back == CHOOSE f : IsBack(f)
  <1>1. \A x \in Known(t) : one(x) \in Known(t)
    BY DEF GroundedTree, Grounded, Parent
  <1>2. \E f : IsBack(f)
    <2> DEFINE step == [j \in 1 .. k |-> [x \in Known(t) |-> one(x)]]
    <2>1. step \in [1 .. k -> [Known(t) -> Known(t)]]
      BY <1>1
    <2>2. \A j \in 1 .. k, x \in Known(t) : step[j][x] = one(x)
      OBVIOUS
    <2> HIDE DEF step, one
    <2>3. PICK f \in [0 .. k -> Known(t)] : IsIteration(f, k, b, step)
      BY <2>1, IterationExists
    <2>4. ASSUME NEW j \in 0 .. k PROVE (IF j = 0 THEN b ELSE step[j][f[j - 1]]) = v(f, j)
      <3>1. j # 0 => j \in 1 .. k /\ f[j - 1] \in Known(t)
        OBVIOUS
      <3> QED BY <2>2, <3>1
    <2> DEFINE u(j) == IF j = 0 THEN b ELSE step[j][f[j - 1]]
    <2>5. f = [j \in 0 .. k |-> u(j)] /\ \A j \in 0 .. k : u(j) = v(f, j)
      BY <2>3, <2>4 DEF IsIteration
    <2> HIDE DEF u, v
    <2>6. f = [j \in 0 .. k |-> v(f, j)]
      BY <2>5
    <2> QED BY <2>6
  <1>3. IsBack(back)
    <2> HIDE DEF IsBack
    <2> QED BY <1>2
  <1>4. KDeep(t, k, b) = back[k]
    BY DEF KDeep
  <1> HIDE DEF back
  <1>5. \A j \in 0 .. k : back[j] = v(back, j)
    <2> HIDE DEF v
    <2> QED BY <1>3
  <1> HIDE DEF IsBack, one
  <1> DEFINE P(x) == x \in Known(t) /\ Extends(t.lcblocks, x, b)
             bad == {j \in 0 .. k : ~ P(back[j])}
  <1>6. ASSUME NEW x, P(x) PROVE P(one(x))
    <2>1. CASE Parent(t, x) = NoParent
      BY <1>6, <2>1 DEF one
    <2>2. CASE Parent(t, x) # NoParent
      <3> DEFINE p == Parent(t, x)
      <3>1. one(x) = p /\ p \in Known(t) /\ p = t.lcblocks[x].parent /\ x \in DOMAIN t.lcblocks
        BY <1>1, <1>6, <2>2, GroundedClosed DEF one, Parent
      <3>2. Extends(t.lcblocks, p, p)
        BY <3>1, GroundedClosed, ExtendsReflexive
      <3>3. Extends(t.lcblocks, p, x)
        BY <2>2, <3>1, <3>2, GroundedClosed, ExtendsStep
      <3>4. Extends(t.lcblocks, p, b)
        BY <1>6, <3>3, GroundedClosed, ExtendsTransitive DEF GroundedTree
      <3> QED BY <3>1, <3>4
    <2> QED BY <2>1, <2>2
  <1>7. P(b)
    BY GroundedClosed, ExtendsReflexive
  <1> HIDE DEF P
  <1>8. bad = {}
    <2> SUFFICES ASSUME bad # {} PROVE FALSE
      OBVIOUS
    <2>1. PICK j \in bad : \A i \in bad : j <= i
      <3>1. bad \subseteq Nat
        OBVIOUS
      <3> HIDE DEF bad
      <3> QED BY <3>1, SmallestExists
    <2>2. j # 0
      BY <1>5, <1>7, <2>1
    <2>3. j - 1 \in 0 .. k /\ j - 1 \notin bad
      BY <2>1, <2>2
    <2>4. P(one(back[j - 1]))
      BY <1>6, <2>3
    <2> QED BY <1>5, <2>1, <2>2, <2>4
  <1>9. P(back[k])
    BY <1>8
  <1> QED BY <1>4, <1>9 DEF P

-----------------------------------------------------------------------------
(* The order in which tips are preferred.                                     *)
Better(t, a, b) ==
    LET h == t.precomputed_height
        adv(d) == t.lcblocks[d].adversarial
    IN \/ h[a] > h[b]
       \/ h[a] = h[b] /\ adv(a) /\ ~ adv(b)
       \/ h[a] = h[b] /\ (adv(a) <=> adv(b)) /\ a < b

OrderedTree(t) ==
    /\ GroundedTree(t)
    /\ Known(t) \subseteq Digest
    /\ \A d \in Known(t) : t.lcblocks[d].adversarial \in BOOLEAN

(* It is a strict linear order, by which tie_break chooses.                    *)
LEMMA BetterOrder ==
    ASSUME NEW t, OrderedTree(t), NEW a \in Known(t), NEW b \in Known(t), NEW c \in Known(t)
    PROVE  /\ ~ Better(t, a, a)
           /\ Better(t, a, b) => ~ Better(t, b, a)
           /\ a # b => Better(t, a, b) \/ Better(t, b, a)
           /\ Better(t, a, b) /\ Better(t, b, c) => Better(t, a, c)
           /\ TieBreak(t, a, b) = IF Better(t, a, b) THEN a ELSE b
  <1> DEFINE h == t.precomputed_height
             adv(d) == t.lcblocks[d].adversarial
  <1>1. /\ h[a] \in Nat /\ h[b] \in Nat /\ h[c] \in Nat
        /\ a \in Int /\ b \in Int /\ c \in Int
    BY DigestAssumption DEF OrderedTree, GroundedTree, Grounded
  <1>2. TieBreak(t, a, b) = IF Better(t, a, b) THEN a ELSE b
    BY DEF TieBreak, Better
  <1>3. \A x, y : Better(t, x, y) <=>
           \/ h[x] > h[y]
           \/ h[x] = h[y] /\ adv(x) /\ ~ adv(y)
           \/ h[x] = h[y] /\ (adv(x) <=> adv(y)) /\ x < y
    BY DEF Better
  <1> HIDE DEF h, adv
  <1> QED BY <1>1, <1>2, <1>3

(* The best block of a set is one that is better than all others.              *)
IsBestOf(t, r, X) == r \in X /\ \A y \in X \ {r} : Better(t, r, y)

LEMMA BestUnique ==
    ASSUME NEW t, OrderedTree(t), NEW X, X \subseteq Known(t), NEW r, NEW s,
           IsBestOf(t, r, X), IsBestOf(t, s, X)
    PROVE  r = s
  BY BetterOrder DEF IsBestOf

(* One turn of the loop in leading_tip_extending.                              *)
LEMMA AdvanceIsBest ==
    ASSUME NEW t, OrderedTree(t), NEW cp, NEW best \in Known(t), NEW tip \in Known(t)
    PROVE  /\ Advance(t, cp, best, tip) \in Known(t)
           /\ Extends(t.lcblocks, cp, tip) => IsBestOf(t, Advance(t, cp, best, tip), {best, tip})
           /\ ~ Extends(t.lcblocks, cp, tip) => Advance(t, cp, best, tip) = best
  <1>1. IsPrefixOf(t, cp, tip) <=> Extends(t.lcblocks, cp, tip)
    BY PrefixIsExtends DEF OrderedTree
  <1>2. TieBreak(t, tip, best) = IF Better(t, tip, best) THEN tip ELSE best
    BY BetterOrder
  <1>3. tip # best => Better(t, tip, best) \/ Better(t, best, tip)
    BY BetterOrder
  <1> QED BY <1>1, <1>2, <1>3 DEF Advance, IsBestOf

(* Among finitely many blocks there is a best one.                             *)
LEMMA BestExists ==
    ASSUME NEW t, OrderedTree(t), NEW X, IsFiniteSet(X), X \subseteq Known(t), X # {}
    PROVE  \E r : IsBestOf(t, r, X)
  <1> DEFINE bad == {Y \in SUBSET X : Y # {} /\ ~ \E r : IsBestOf(t, r, Y)}
             size == [Y \in SUBSET X |-> Cardinality(Y)]
  <1>1. \A Y \in SUBSET X : IsFiniteSet(Y) /\ size[Y] = Cardinality(Y) /\ size[Y] \in Nat
    BY FS_Subset, FS_CardinalityType
  <1> HIDE DEF size
  <1>2. bad = {}
    <2> SUFFICES ASSUME bad # {} PROVE FALSE
      OBVIOUS
    <2>1. PICK Y \in bad : \A Z \in bad : size[Y] <= size[Z]
      <3>1. \A Y \in bad : size[Y] \in Nat
        BY <1>1
      <3> HIDE DEF bad
      <3> QED BY <3>1, LowestExists
    <2>2. Y \in SUBSET X /\ Y # {} /\ ~ \E r : IsBestOf(t, r, Y)
      BY <2>1
    <2>3. PICK x \in Y : TRUE
      BY <2>2
    <2>4. Y \ {x} \in SUBSET X /\ size[Y \ {x}] < size[Y]
      <3>1. Y \ {x} \in SUBSET X /\ Cardinality(Y \ {x}) = Cardinality(Y) - 1
        BY <1>1, <2>2, FS_RemoveElement
      <3> QED BY <1>1, <2>2, <3>1
    <2>5. Y \ {x} # {}
      BY <2>2, <2>3 DEF IsBestOf
    <2>6. PICK r : IsBestOf(t, r, Y \ {x})
      BY <1>1, <2>1, <2>2, <2>4, <2>5
    <2>7. r \in Known(t) /\ x \in Known(t) /\ r # x /\ Y \subseteq Known(t) /\ r \in Y
      BY <2>2, <2>3, <2>6 DEF IsBestOf
    <2>8. CASE Better(t, r, x)
      BY <2>2, <2>6, <2>8 DEF IsBestOf
    <2>9. CASE Better(t, x, r)
      <3>1. \A y \in Y \ {x} : Better(t, x, y)
        BY <2>6, <2>7, <2>9, BetterOrder DEF IsBestOf
      <3> QED BY <2>2, <2>3, <3>1 DEF IsBestOf
    <2> QED BY <2>7, <2>8, <2>9, BetterOrder
  <1> QED BY <1>2

(* The blocks that the loop chooses from when it has seen some tips.            *)
Choices(t, cp, seen) == {cp} \cup {x \in seen : Extends(t.lcblocks, cp, x)}

LEMMA AdvanceChoices ==
    ASSUME NEW t, OrderedTree(t), t.idx_tips \subseteq Known(t), NEW cp \in Known(t),
           NEW seen \in SUBSET t.idx_tips, NEW tip \in seen,
           NEW r, IsBestOf(t, r, Choices(t, cp, seen \ {tip}))
    PROVE  IsBestOf(t, Advance(t, cp, r, tip), Choices(t, cp, seen))
  <1> DEFINE X == Choices(t, cp, seen \ {tip})
             a == Advance(t, cp, r, tip)
  <1>1. r \in X /\ r \in Known(t) /\ tip \in Known(t) /\ X \subseteq Known(t)
    BY DEF IsBestOf, Choices
  <1>2. CASE Extends(t.lcblocks, cp, tip)
    <2>1. IsBestOf(t, a, {r, tip})
      BY <1>1, <1>2, AdvanceIsBest
    <2>2. Choices(t, cp, seen) = X \cup {tip}
      BY <1>2 DEF Choices
    <2>3. a \in {r, tip} /\ a \in Known(t)
      BY <1>1, <2>1 DEF IsBestOf
    <2>4. ASSUME NEW y \in X \cup {tip}, y # a PROVE Better(t, a, y)
      <3>1. CASE y \in {r, tip}
        BY <2>1, <2>4, <3>1 DEF IsBestOf
      <3>2. CASE y \in X /\ y # r
        <4>1. Better(t, r, y) /\ y \in Known(t)
          BY <1>1, <3>2 DEF IsBestOf
        <4>2. a = r \/ Better(t, a, r)
          BY <2>1 DEF IsBestOf
        <4> QED BY <1>1, <2>3, <4>1, <4>2, BetterOrder
      <3> QED BY <2>4, <3>1, <3>2
    <2> HIDE DEF a, X
    <2>5. a \in X \cup {tip}
      BY <1>1, <2>3
    <2> QED BY <2>2, <2>4, <2>5 DEF IsBestOf, a
  <1>3. CASE ~ Extends(t.lcblocks, cp, tip)
    <2>1. a = r
      BY <1>1, <1>3, AdvanceIsBest
    <2>2. Choices(t, cp, seen) = X
      BY <1>3 DEF Choices
    <2> QED BY <2>1, <2>2
  <1> QED BY <1>2, <1>3

(* leading_tip_extending returns the best of the checkpoint and the tips above it,  *)
(* in whatever order it meets them.                                                  *)
LEMMA LeadingTipsAreBest ==
    ASSUME NEW t, OrderedTree(t), IsFiniteSet(t.idx_tips), t.idx_tips \subseteq Known(t),
           NEW cp \in Known(t)
    PROVE  \E r : LeadingTips(t, cp) = {r} /\ IsBestOf(t, r, Choices(t, cp, t.idx_tips))
  <1> DEFINE tips == t.idx_tips
             v(f, seen) == IF seen = {} THEN {cp}
                           ELSE UNION {{Advance(t, cp, b, tip) : b \in f[seen \ {tip}]} : tip \in seen}
             IsLoop(f) == f = [seen \in SUBSET tips |-> v(f, seen)]
             best == CHOOSE f : IsLoop(f)
             top(seen) == CHOOSE r : IsBestOf(t, r, Choices(t, cp, seen))
             size == [seen \in SUBSET tips |-> Cardinality(seen)]
  <1>1. ASSUME NEW seen \in SUBSET tips
        PROVE  /\ IsBestOf(t, top(seen), Choices(t, cp, seen))
               /\ \A r : IsBestOf(t, r, Choices(t, cp, seen)) => r = top(seen)
    <2>1. IsFiniteSet(Choices(t, cp, seen))
      <3>1. IsFiniteSet({x \in seen : Extends(t.lcblocks, cp, x)})
        BY FS_Subset
      <3> QED BY <3>1, FS_Union, FS_Singleton DEF Choices
    <2>2. Choices(t, cp, seen) \subseteq Known(t) /\ Choices(t, cp, seen) # {}
      BY DEF Choices
    <2>3. \E r : IsBestOf(t, r, Choices(t, cp, seen))
      BY <2>1, <2>2, BestExists
    <2>4. IsBestOf(t, top(seen), Choices(t, cp, seen))
      BY <2>3
    <2> HIDE DEF top
    <2> QED BY <2>2, <2>4, BestUnique
  <1> HIDE DEF top
  <1>2. ASSUME NEW seen \in SUBSET tips, NEW f,
               \A tip \in seen : f[seen \ {tip}] = {top(seen \ {tip})}
        PROVE  v(f, seen) = {top(seen)}
    <2>1. CASE seen = {}
      <3>1. IsBestOf(t, cp, Choices(t, cp, seen))
        BY <2>1 DEF IsBestOf, Choices
      <3> QED BY <1>1, <2>1, <3>1
    <2>2. CASE seen # {}
      <3>1. ASSUME NEW tip \in seen
            PROVE  {Advance(t, cp, b, tip) : b \in f[seen \ {tip}]} = {top(seen)}
        <4>1. IsBestOf(t, top(seen \ {tip}), Choices(t, cp, seen \ {tip}))
          BY <1>1
        <4>2. Advance(t, cp, top(seen \ {tip}), tip) = top(seen)
          BY <1>1, <4>1, AdvanceChoices
        <4> QED BY <1>2, <4>2
      <3> DEFINE g(tip) == {Advance(t, cp, b, tip) : b \in f[seen \ {tip}]}
      <3>2. \A tip \in seen : g(tip) = {top(seen)}
        BY <3>1
      <3> HIDE DEF g
      <3>3. UNION {g(tip) : tip \in seen} = {top(seen)}
        BY <2>2, <3>2
      <3> QED BY <2>2, <3>3 DEF g
    <2> QED BY <2>1, <2>2
  <1> HIDE DEF v
  <1>3. \E f : IsLoop(f)
    <2> DEFINE f == [seen \in SUBSET tips |-> {top(seen)}]
    <2>1. ASSUME NEW seen \in SUBSET tips PROVE {top(seen)} = v(f, seen)
      <3>1. \A tip \in seen : f[seen \ {tip}] = {top(seen \ {tip})}
        OBVIOUS
      <3> HIDE DEF f
      <3> QED BY <1>2, <3>1
    <2>2. f = [seen \in SUBSET tips |-> v(f, seen)]
      BY <2>1
    <2> QED BY <2>2
  <1>4. IsLoop(best)
    <2> HIDE DEF IsLoop
    <2> QED BY <1>3
  <1>5. LeadingTips(t, cp) = best[tips]
    BY DEF LeadingTips, v
  <1> HIDE DEF best
  <1>6. \A seen \in SUBSET tips : best[seen] = v(best, seen)
    BY <1>4
  <1>7. \A seen \in SUBSET tips : IsFiniteSet(seen) /\ size[seen] = Cardinality(seen) /\ size[seen] \in Nat
    BY FS_Subset, FS_CardinalityType
  <1> HIDE DEF size
  <1> DEFINE bad == {seen \in SUBSET tips : best[seen] # {top(seen)}}
  <1>8. bad = {}
    <2> SUFFICES ASSUME bad # {} PROVE FALSE
      OBVIOUS
    <2>1. PICK seen \in bad : \A s \in bad : size[seen] <= size[s]
      <3>1. \A s \in bad : size[s] \in Nat
        BY <1>7
      <3> HIDE DEF bad
      <3> QED BY <3>1, LowestExists
    <2>2. ASSUME NEW tip \in seen PROVE best[seen \ {tip}] = {top(seen \ {tip})}
      <3>1. seen \ {tip} \in SUBSET tips /\ Cardinality(seen \ {tip}) = Cardinality(seen) - 1
        BY <1>7, <2>1, FS_RemoveElement
      <3>2. size[seen \ {tip}] < size[seen]
        BY <1>7, <2>1, <3>1
      <3> QED BY <1>7, <2>1, <3>1, <3>2
    <2>3. v(best, seen) = {top(seen)}
      BY <1>2, <2>1, <2>2
    <2> QED BY <1>6, <2>1, <2>3
  <1>9. best[tips] = {top(tips)}
    BY <1>8
  <1> QED BY <1>1, <1>5, <1>9

-----------------------------------------------------------------------------
(* What holds of every tree that is made by add: besides the heights, every     *)
(* known block that is not a tip has a child.                                     *)
FullTree(t) ==
    /\ OrderedTree(t)
    /\ Genesis \in Known(t)
    /\ DOMAIN t.precomputed_height = Known(t)
    /\ IsFiniteSet(Known(t))
    /\ t.idx_tips \subseteq Known(t)
    /\ \A d \in Known(t) \ t.idx_tips : \E c \in Known(t) : Parent(t, c) = d

LEMMA NewTreeFull == FullTree(NewTree) /\ Known(NewTree) = {Genesis}
  <1>1. Known(NewTree) = {Genesis} /\ IsFiniteSet({Genesis})
    BY FS_Singleton DEF Known, NewTree
  <1>2. /\ NewTree.lcblocks[Genesis] = GenesisBlock /\ NewTree.precomputed_height[Genesis] = 0
        /\ DOMAIN NewTree.precomputed_height = {Genesis} /\ NewTree.idx_tips = {Genesis}
        /\ DOMAIN NewTree.lcblocks = {Genesis}
    BY DEF NewTree
  <1>3. GroundedTree(NewTree)
    BY <1>1, <1>2 DEF GroundedTree, Grounded, GenesisBlock
  <1>4. OrderedTree(NewTree)
    <2>1. GenesisBlock.adversarial = FALSE
      BY DEF GenesisBlock
    <2>2. \A d \in Known(NewTree) : NewTree.lcblocks[d] = GenesisBlock
      BY <1>1, <1>2
    <2> QED BY <1>1, <1>3, <2>1, <2>2, DigestAssumption DEF OrderedTree
  <1> QED BY <1>1, <1>2, <1>4 DEF FullTree

LEMMA AddKeepsTree ==
    ASSUME NEW t, FullTree(t), NEW d \in Digest, NEW blk \in Block, CanAdd(t, blk),
           d \in Known(t) => t.lcblocks[d] = blk
    PROVE  /\ FullTree(Add(t, d, blk))
           /\ Known(Add(t, d, blk)) = Known(t) \cup {d}
           /\ Add(t, d, blk).lcblocks[d] = blk
           /\ \A x \in Known(t) : Add(t, d, blk).lcblocks[x] = t.lcblocks[x]
  <1> DEFINE n == Add(t, d, blk)
             p == blk.parent
             h == t.precomputed_height
  <1>1. /\ DOMAIN n.lcblocks = Known(t) \cup {d}
        /\ \A x \in Known(t) \cup {d} : n.lcblocks[x] = IF x = d THEN blk ELSE t.lcblocks[x]
        /\ DOMAIN n.precomputed_height = Known(t) \cup {d}
        /\ \A x \in Known(t) \cup {d} : n.precomputed_height[x] = IF x = d THEN h[p] + 1 ELSE h[x]
        /\ n.idx_tips = (t.idx_tips \ {p}) \cup {d}
    BY DEF Add, With, Known, FullTree
  <1>2. Known(n) = Known(t) \cup {d}
    BY <1>1 DEF Known
  <1>3. \A x \in Known(t) : n.lcblocks[x] = t.lcblocks[x]
    BY <1>1
  <1>4. p # NoParent /\ p \in Known(t)
    BY DEF CanAdd, FullTree
  <1> HIDE DEF n
  <1>5. \A x \in Known(t) : /\ h[x] \in Nat
                             /\ IF t.lcblocks[x].parent = NoParent
                                THEN h[x] = 0
                                ELSE /\ t.lcblocks[x].parent \in Known(t)
                                     /\ h[x] = h[t.lcblocks[x].parent] + 1
    BY DEF FullTree, OrderedTree, GroundedTree, Grounded
  <1>6. d \in Known(t) => h[d] = h[p] + 1
    BY <1>4, <1>5
  <1>7. \A x \in Known(t) : n.precomputed_height[x] = h[x]
    BY <1>1, <1>6
  <1>8. GroundedTree(n)
    <2>1. ASSUME NEW x \in Known(t) \cup {d}
          PROVE  /\ n.precomputed_height[x] \in Nat
                 /\ IF n.lcblocks[x].parent = NoParent
                    THEN n.precomputed_height[x] = 0
                    ELSE /\ n.lcblocks[x].parent \in Known(t) \cup {d}
                         /\ n.precomputed_height[x] = n.precomputed_height[n.lcblocks[x].parent] + 1
      <3>1. CASE x = d
        BY <1>1, <1>4, <1>5, <1>7, <3>1
      <3>2. CASE x # d
        BY <1>3, <1>5, <1>7, <3>2
      <3> QED BY <3>1, <3>2
    <2>2. Known(n) \subseteq DOMAIN n.lcblocks
      BY DEF Known
    <2> QED BY <1>2, <2>1, <2>2 DEF GroundedTree, Grounded
  <1>9. OrderedTree(n)
    BY <1>1, <1>2, <1>8, DigestAssumption DEF OrderedTree, FullTree, Block
  <1>10. IsFiniteSet(Known(n))
    BY <1>2, FS_AddElement DEF FullTree
  <1>11. ASSUME NEW x \in Known(n) \ n.idx_tips PROVE \E c \in Known(n) : Parent(n, c) = x
    <2>1. CASE x = p
      BY <1>1, <1>2, <2>1 DEF Parent
    <2>2. CASE x # p
      <3>1. x \in Known(t) \ t.idx_tips
        BY <1>1, <1>2, <2>2
      <3>2. PICK c \in Known(t) : Parent(t, c) = x
        BY <3>1 DEF FullTree
      <3> QED BY <1>2, <1>3, <3>2 DEF Parent
    <2> QED BY <2>1, <2>2
  <1>12. FullTree(n)
    BY <1>1, <1>2, <1>9, <1>10, <1>11 DEF FullTree
  <1>13. n.lcblocks[d] = blk
    BY <1>1
  <1> QED BY <1>2, <1>3, <1>12, <1>13 DEF n

(* Above every known block there is a tip.                                     *)
LEMMA TipAbove ==
    ASSUME NEW t, FullTree(t), NEW d \in Known(t)
    PROVE  \E x \in t.idx_tips : Extends(t.lcblocks, d, x)
  <1> DEFINE X == {x \in Known(t) : Extends(t.lcblocks, d, x)}
  <1>1. GroundedTree(t) /\ ClosedUnderParents(t.lcblocks) /\ Known(t) = DOMAIN t.lcblocks
    BY GroundedClosed DEF FullTree, OrderedTree
  <1>2. d \in X
    BY <1>1, ExtendsReflexive
  <1>3. X \subseteq Known(t) /\ IsFiniteSet(X)
    BY FS_Subset DEF FullTree
  <1> HIDE DEF X
  <1>4. PICK r : IsBestOf(t, r, X)
    BY <1>2, <1>3, BestExists DEF FullTree
  <1>5. r \in Known(t) /\ Extends(t.lcblocks, d, r)
    BY <1>4 DEF IsBestOf, X
  <1>6. r \in t.idx_tips
    <2> SUFFICES ASSUME r \notin t.idx_tips PROVE FALSE
      OBVIOUS
    <2>1. PICK c \in Known(t) : Parent(t, c) = r
      BY <1>5 DEF FullTree
    <2>2. r # NoParent
      BY <1>5, DigestAssumption DEF FullTree, OrderedTree
    <2>3. Extends(t.lcblocks, d, c)
      BY <1>1, <1>5, <2>1, <2>2, ExtendsStep DEF Parent
    <2>4. t.precomputed_height[c] = t.precomputed_height[r] + 1 /\ t.precomputed_height[r] \in Nat
      BY <1>5, <2>1, <2>2 DEF FullTree, OrderedTree, GroundedTree, Grounded, Parent
    <2>5. Better(t, r, c)
      BY <1>4, <2>1, <2>3, <2>4 DEF IsBestOf, X
    <2>6. Better(t, c, r)
      BY <2>4 DEF Better
    <2> QED BY <1>5, <2>1, <2>5, <2>6, BetterOrder DEF FullTree
  <1> QED BY <1>5, <1>6

(* The leading tip is the best of all known blocks that extend the checkpoint.  *)
LEMMA LeadingTipIsBest ==
    ASSUME NEW t, FullTree(t), NEW cp \in Known(t)
    PROVE  /\ LeadingTips(t, cp) = {LeadingTip(t, cp)}
           /\ LeadingTip(t, cp) \in Known(t)
           /\ Extends(t.lcblocks, cp, LeadingTip(t, cp))
           /\ IsBestOf(t, LeadingTip(t, cp), {d \in Known(t) : Extends(t.lcblocks, cp, d)})
  <1>1. /\ OrderedTree(t) /\ GroundedTree(t) /\ t.idx_tips \subseteq Known(t)
        /\ ClosedUnderParents(t.lcblocks) /\ Known(t) = DOMAIN t.lcblocks
    BY GroundedClosed DEF FullTree, OrderedTree
  <1>2. IsFiniteSet(t.idx_tips)
    BY FS_Subset DEF FullTree
  <1>3. PICK r : LeadingTips(t, cp) = {r} /\ IsBestOf(t, r, Choices(t, cp, t.idx_tips))
    BY <1>1, <1>2, LeadingTipsAreBest
  <1>4. LeadingTip(t, cp) = r
    BY <1>3 DEF LeadingTip
  <1>5. r \in Known(t) /\ Extends(t.lcblocks, cp, r)
    BY <1>1, <1>3, ExtendsReflexive DEF IsBestOf, Choices
  <1>6. ASSUME NEW d \in Known(t), Extends(t.lcblocks, cp, d), d # r
        PROVE  Better(t, r, d)
    <2>1. PICK x \in t.idx_tips : Extends(t.lcblocks, d, x)
      BY TipAbove
    <2>2. x \in Known(t)
      BY <1>1
    <2>3. Extends(t.lcblocks, cp, x)
      BY <1>1, <1>6, <2>1, <2>2, ExtendsTransitive DEF GroundedTree
    <2>4. x = r \/ Better(t, r, x)
      BY <1>3, <2>3 DEF IsBestOf, Choices
    <2>5. x = d \/ Better(t, x, d)
      <3>1. x = d \/ t.precomputed_height[d] < t.precomputed_height[x]
        BY <1>1, <2>1, <2>2, AncestorsLower DEF GroundedTree
      <3> QED BY <3>1, <1>1, <2>2 DEF Better, GroundedTree, Grounded
    <2> QED BY <1>1, <1>5, <1>6, <2>2, <2>4, <2>5, BetterOrder
  <1>7. IsBestOf(t, r, {d \in Known(t) : Extends(t.lcblocks, cp, d)})
    BY <1>5, <1>6 DEF IsBestOf
  <1> QED BY <1>3, <1>4, <1>5, <1>7
=============================================================================
