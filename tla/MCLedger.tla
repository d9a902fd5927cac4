------------------------------ MODULE MCLedger ------------------------------
(***************************************************************************)
(* An instance of Ledger for TLC.  Which transactions and which nodes they are  *)
(* makes no difference.                                                         *)
(***************************************************************************)
EXTENDS Ledger, TLC

Symmetry == Permutations(Node) \cup Permutations(Transaction)
=============================================================================
