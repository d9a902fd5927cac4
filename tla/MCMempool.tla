------------------------------ MODULE MCMempool ------------------------------
(* Instances of Mempool for TLC.                                             *)
EXTENDS Mempool

CONSTANTS t1, t2, big
=============================================================================
