---------------------------- MODULE MCCpProposer ----------------------------
(***************************************************************************)
(* An instance of CpProposer for TLC.                                        *)
(***************************************************************************)
EXTENDS CpProposer, TLC

CONSTANTS self, other, b1

Nodes == {self, other}
OneBlock == {b1}

(* The node leads the first iteration, another one all others.               *)
LeadsFirst == [i \in Iteration |-> IF i = 0 THEN self ELSE other]
=============================================================================
