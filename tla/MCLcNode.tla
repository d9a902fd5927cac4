------------------------------ MODULE MCLcNode ------------------------------
(***************************************************************************)
(* TLC instance of LcNode.                                                  *)
(***************************************************************************)
EXTENDS LcNode

CONSTANT MaxDigest

MCDigest == 0 .. MaxDigest
MCGenesis == 1
=============================================================================
