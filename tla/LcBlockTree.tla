---------------------------- MODULE LcBlockTree ----------------------------
(***************************************************************************)
(* The tree of longest chain blocks (mynode/src/lcblocks.rs).  A tree is a    *)
(* record with the fields of the struct: lcblocks, a function from the         *)
(* digests of the known blocks to blocks, precomputed_height and idx_tips.     *)
(* A block is a record of its parent's digest, its slot and whether its         *)
(* payload marks it as adversarial.  Digests are integers, because tie_break     *)
(* compares them; which of two blocks has the smaller digest is left open.       *)
(***************************************************************************)
EXTENDS Integers, FiniteSets

CONSTANTS Digest,    \* the digests there are
          Genesis,   \* LcBlock::genesis().digest()
          NoParent   \* None, the parent of genesis

ASSUME DigestAssumption ==
    /\ Digest \subseteq Int
    /\ Genesis \in Digest
    /\ NoParent \notin Digest

Block == [parent : Digest \cup {NoParent}, slot : Nat, adversarial : BOOLEAN]

GenesisBlock == [parent |-> NoParent, slot |-> 0, adversarial |-> FALSE]

NewTree == [lcblocks           |-> [x \in {Genesis} |-> GenesisBlock],
            precomputed_height |-> [x \in {Genesis} |-> 0],
            idx_tips           |-> {Genesis}]

(* HashMap::insert                                                             *)
With(f, d, v) == [x \in DOMAIN f \cup {d} |-> IF x = d THEN v ELSE f[x]]

Known(t) == DOMAIN t.lcblocks
Parent(t, d) == t.lcblocks[d].parent

-----------------------------------------------------------------------------
(* add fails for a second genesis and for a block whose parent is unknown.     *)
CanAdd(t, blk) == /\ blk.parent # NoParent
                  /\ blk.parent \in DOMAIN t.precomputed_height

(* is_prefix_of, for known blocks: walk from long to genesis, but not below the  *)
(* height of short.                                                               *)
IsPrefixOf(t, short, long) ==
    LET h == t.precomputed_height
        walk[d \in Known(t)] ==
            /\ h[short] <= h[d]
            /\ \/ d = short
               \/ Parent(t, d) # NoParent /\ walk[Parent(t, d)]
    IN walk[long]

(* Mutants of Add: every tip above the parent goes, not only the parent; the     *)
(* height is the parent's.                                                         *)
MutAddDropsBranch(t, d, blk) ==
    [lcblocks           |-> With(t.lcblocks, d, blk),
     precomputed_height |-> With(t.precomputed_height, d,
                                   t.precomputed_height[blk.parent] + 1),
     idx_tips           |-> {x \in t.idx_tips : ~ IsPrefixOf(t, blk.parent, x)} \cup {d}]

MutAddSameHeight(t, d, blk) ==
    [lcblocks           |-> With(t.lcblocks, d, blk),
     precomputed_height |-> With(t.precomputed_height, d,
                                   t.precomputed_height[blk.parent]),
     idx_tips           |-> (t.idx_tips \ {blk.parent}) \cup {d}]

(* A block that is added again becomes a tip again, even if it has children.    *)
Add(t, d, blk) ==
    [lcblocks           |-> With(t.lcblocks, d, blk),
     precomputed_height |-> With(t.precomputed_height, d,
                                   t.precomputed_height[blk.parent] + 1),
     idx_tips           |-> (t.idx_tips \ {blk.parent}) \cup {d}]

(* tie_break prefers the higher block, then an adversarial one, then the one     *)
(* with the smaller digest.                                                        *)
TieBreak(t, d1, d2) ==
    LET h == t.precomputed_height
        adv(d) == t.lcblocks[d].adversarial
    IN IF \/ h[d1] > h[d2]
          \/ h[d1] = h[d2] /\ adv(d1) /\ ~ adv(d2)
          \/ h[d1] = h[d2] /\ (adv(d1) <=> adv(d2)) /\ d1 < d2
       THEN d1 ELSE d2

(* Mutant of Advance: the tip need not extend the checkpoint.                     *)
MutAdvanceAnyTip(t, cp, best, tip) == TieBreak(t, tip, best)

(* The loop's body in leading_tip_extending.                                       *)
Advance(t, cp, best, tip) ==
    IF TieBreak(t, tip, best) = tip /\ IsPrefixOf(t, cp, tip) THEN tip ELSE best

(* All results of leading_tip_extending: the loop has seen the tips of the hash set  *)
(* in an arbitrary order.                                                            *)
LeadingTips(t, cp) ==
    LET best[seen \in SUBSET t.idx_tips] ==
            IF seen = {} THEN {cp}
            ELSE UNION {{Advance(t, cp, b, tip) : b \in best[seen \ {tip}]} : tip \in seen}
    IN best[t.idx_tips]

(* The result, when the order does not matter (TipIsBest).                           *)
LeadingTip(t, cp) == CHOOSE d \in LeadingTips(t, cp) : TRUE

KDeep(t, k, b) ==
    LET back[j \in 0 .. k] ==
            IF j = 0 THEN b
            ELSE IF Parent(t, back[j - 1]) = NoParent THEN back[j - 1]
                 ELSE Parent(t, back[j - 1])
    IN back[k]

(* Mutant of HigherOf: the second block, whatever the heights.                        *)
MutHigherSecond(t, b1, b2) == b2

HigherOf(t, b1, b2) ==
    IF t.precomputed_height[b1] >= t.precomputed_height[b2] THEN b1 ELSE b2

(* Ancestry among any set of blocks, given as a function from digests to blocks:     *)
(* the definition the tree's operators are held against.                               *)
Extends(blocks, short, long) ==
    LET walk[d \in DOMAIN blocks] ==
            d = short \/ (blocks[d].parent # NoParent /\ walk[blocks[d].parent])
    IN walk[long]

Depth(blocks, d) ==
    LET depth[b \in DOMAIN blocks] ==
            IF blocks[b].parent = NoParent THEN 0 ELSE depth[blocks[b].parent] + 1
    IN depth[d]
=============================================================================
