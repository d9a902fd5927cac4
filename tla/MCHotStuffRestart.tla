-------------------------- MODULE MCHotStuffRestart --------------------------
(* Instances of HotStuffRestart for TLC.                                     *)
EXTENDS HotStuffRestart, TLC

CONSTANTS a1, a2, a3, f, x1, x2

MCStake == [a \in Authority |-> 1]

HonestLeader == [r \in Round |-> a1]

(* A choice of payloads in the first round only.                             *)
OneChoice == [r \in Round |-> IF r = 1 THEN Payload ELSE {x1}]

NoTCs == {}
NoBlocks == {}

Symmetry == Permutations({a2, a3, f})
=============================================================================
