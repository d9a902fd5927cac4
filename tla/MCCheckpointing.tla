--------------------------- MODULE MCCheckpointing ---------------------------
(* An instance of Checkpointing for TLC: two blocks on genesis.                *)
EXTENDS Checkpointing, TLC

Honest(parent) == [parent |-> parent, slot |-> 0, adversarial |-> FALSE]
SmallFork == 0 :> GenesisBlock @@ 1 :> Honest(0) @@ 2 :> Honest(0)

Symmetry == Permutations(Node)
=============================================================================
