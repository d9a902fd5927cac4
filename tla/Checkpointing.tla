----------------------------- MODULE Checkpointing -----------------------------
(***************************************************************************)
(* Checkpointing as a whole: the block tree managers and the proposers of all     *)
(* honest nodes, the votes on the ledger, and the decisions, of which a node's        *)
(* extractor tells its proposer and its manager through two subscriptions               *)
(* (mynode/src/mynode.rs:115-118).                                                        *)
(*                                                                                       *)
(* The parts have modules of their own; here is what passes between them.  Blocks are      *)
(* mined as they will be (Minted) and arrive at any time, after their parents.  Of a        *)
(* node's votes the latest counts, once the ledger is at its iteration (CpExtractor); the     *)
(* extractors agree, and each learns the decisions in its own time.  A proposer acts on one     *)
(* proposal of an iteration at most, which may be any block, as a faulty leader can send each    *)
(* node what it likes, and rejects when its time is up (CpProposer).                               *)
(***************************************************************************)
EXTENDS LcBlockTree, Sequences

CONSTANTS Node, Faulty,
          Minted,           \* the blocks there will be: digest -> block
          NoCheckpoint, Reject,
          MaxIteration,     \* bound
          ManagerKeepsUp    \* does the manager take a decision before its node votes again?

Committee == Node \cup Faulty
Iteration == 0 .. MaxIteration

ASSUME CheckpointingAssumption ==
    /\ Node \cap Faulty = {}
    /\ DOMAIN Minted \subseteq Digest
    /\ Genesis \in DOMAIN Minted /\ Minted[Genesis] = GenesisBlock
    /\ \A d \in DOMAIN Minted \ {Genesis} :
          Minted[d] \in Block /\ Minted[d].parent \in DOMAIN Minted
    /\ {NoCheckpoint, Reject} \cap Digest = {}
    /\ MaxIteration \in Nat /\ ManagerKeepsUp \in BOOLEAN

VARIABLES tree, checkpoint,     \* of each node's manager
          taken,        \* how many decisions a node's manager has taken
          current_iteration, phase,         \* of each node's proposer
          vote,         \* the latest vote of each node, and its iteration
          decided,      \* the decisions, one per iteration
          panicked      \* nodes whose manager has ended with a panic

manager == <<tree, checkpoint, taken, panicked>>
proposer == <<current_iteration, phase, vote>>
vars == <<manager, proposer, decided>>

Init ==
    /\ tree = [n \in Node |-> NewTree]
    /\ checkpoint = [n \in Node |-> Genesis]
    /\ taken = [n \in Node |-> 0]
    /\ current_iteration = [n \in Node |-> 0]
    /\ phase = [n \in Node |-> "begin"]
    /\ vote = [n \in Node |-> [i |-> 0, for |-> NoCheckpoint]]
    /\ decided = << >>
    /\ panicked = {}

-----------------------------------------------------------------------------
(* The manager                                                                *)
AddBlock(n, d) ==
    /\ d \notin Known(tree[n])
    /\ CanAdd(tree[n], Minted[d])
    /\ tree' = [tree EXCEPT ![n] = Add(@, d, Minted[d])]
    /\ UNCHANGED <<checkpoint, taken, panicked, proposer, decided>>

TakeCheckpoint(n) ==
    /\ taken[n] < Len(decided)
    /\ taken' = [taken EXCEPT ![n] = @ + 1]
    /\ LET b == decided[taken[n] + 1] IN
       CASE b = NoCheckpoint     -> UNCHANGED <<checkpoint, panicked>>
         [] b \in Known(tree[n]) -> /\ checkpoint' = [checkpoint EXCEPT ![n] = b]
                                    /\ UNCHANGED panicked
         [] OTHER                -> /\ panicked' = panicked \cup {n}
                                    /\ UNCHANGED checkpoint
    /\ UNCHANGED <<tree, proposer, decided>>

(* Mutant of ValidateProposal: the block only has to be on the leading chain.     *)
MutValidateProposal(n, b) ==
    /\ {checkpoint[n], b} \subseteq Known(tree[n])
    /\ IsPrefixOf(tree[n], b, LeadingTip(tree[n], Genesis))

ValidateProposal(n, b) ==
    /\ {checkpoint[n], b} \subseteq Known(tree[n])
    /\ IsPrefixOf(tree[n], checkpoint[n], b)
    /\ IsPrefixOf(tree[n], b, LeadingTip(tree[n], checkpoint[n]))

-----------------------------------------------------------------------------
(* The proposer                                                               *)

(* The iteration begins, after the inter-checkpoint delay if there is one.      *)
Begin(n) ==
    /\ phase[n] = "begin"
    /\ current_iteration[n] \in Iteration
    /\ ManagerKeepsUp => taken[n] >= current_iteration[n]
    /\ phase' = [phase EXCEPT ![n] = "wait"]
    /\ UNCHANGED <<manager, current_iteration, vote, decided>>

ActOnProposal(n) ==
    /\ phase[n] = "wait"
    /\ \E b \in DOMAIN Minted :
         vote' = [vote EXCEPT ![n] = [i |-> current_iteration[n],
                                      for |-> IF ValidateProposal(n, b) THEN b ELSE Reject]]
    /\ phase' = [phase EXCEPT ![n] = "acted"]
    /\ UNCHANGED <<manager, current_iteration, decided>>

TimeoutUp(n) ==
    /\ phase[n] \in {"wait", "acted"}
    /\ vote' = [vote EXCEPT ![n] = [i |-> current_iteration[n], for |-> Reject]]
    /\ phase' = [phase EXCEPT ![n] = "rejecting"]
    /\ UNCHANGED <<manager, current_iteration, decided>>

(* In any phase, whatever the manager has taken.                                  *)
TakeDecision(n) ==
    /\ current_iteration[n] < Len(decided)
    /\ current_iteration' = [current_iteration EXCEPT ![n] = @ + 1]
    /\ phase' = [phase EXCEPT ![n] = "begin"]
    /\ UNCHANGED <<manager, vote, decided>>

-----------------------------------------------------------------------------
(* The votes and the decisions; faulty authorities vote for what is wanted.      *)
VotersFor(v) ==
    Faulty \cup {n \in Node : vote[n] = [i |-> Len(decided), for |-> v]}

(* Mutant of CanDecide: a third is enough for a block, too, and it is rounded down.  *)
MutCanDecide(v) == Cardinality(VotersFor(v)) >= Cardinality(Committee) \div 3

CanDecide(v) ==
    IF v = Reject THEN 3 * Cardinality(VotersFor(v)) >= Cardinality(Committee)
                  ELSE 3 * Cardinality(VotersFor(v)) > 2 * Cardinality(Committee)

Decide ==
    /\ Len(decided) \in Iteration
    /\ \E v \in DOMAIN Minted \cup {Reject} :
         /\ CanDecide(v)
         /\ decided' = Append(decided, IF v = Reject THEN NoCheckpoint ELSE v)
    /\ UNCHANGED <<manager, proposer>>

Next ==
    \/ \E n \in Node \ panicked :
          \/ \E d \in DOMAIN Minted : AddBlock(n, d)
          \/ TakeCheckpoint(n)
          \/ Begin(n) \/ ActOnProposal(n) \/ TimeoutUp(n) \/ TakeDecision(n)
    \/ Decide

Spec == Init /\ [][Next]_vars

-----------------------------------------------------------------------------
(***************************************************************************)
(* Properties                                                               *)
(***************************************************************************)

(* The values of the state variables.                                        *)
TypeOK ==
    /\ \A n \in Node :
          /\ Known(tree[n]) \subseteq DOMAIN Minted
          /\ checkpoint[n] \in Known(tree[n])
          /\ taken[n] <= Len(decided) /\ current_iteration[n] <= Len(decided)
          /\ phase[n] \in {"begin", "wait", "acted", "rejecting"}
          /\ vote[n].i \in Iteration /\ vote[n].i <= current_iteration[n]
          /\ vote[n].for \in Digest \cup {NoCheckpoint, Reject}
    /\ panicked \subseteq Node

Checkpoints == {k \in 1 .. Len(decided) : decided[k] # NoCheckpoint}

(* The accountable log never rolls back: every checkpoint extends those before it,    *)
(* although voters validate against what their own managers have (lcblocktreemanager.rs  *)
(* :164-175), the trees differ, branches change and a leader is faulty.  It holds as long    *)
(* as managers keep up with their proposers.                                                  *)
CheckpointsFormChain ==
    \A j, k \in Checkpoints : j <= k => Extends(Minted, decided[j], decided[k])

(* Somebody honest has every block that is decided, so that it can spread: a decision needs    *)
(* an honest node that has validated the block.                                                  *)
CheckpointsAvailable ==
    \A k \in Checkpoints : \E n \in Node : decided[k] \in Known(tree[n])
=============================================================================
