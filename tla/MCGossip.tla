------------------------------- MODULE MCGossip -------------------------------
(* An instance of Gossip for TLC.                                            *)
EXTENDS Gossip, TLC

CONSTANTS consensus, lcblocks, m1, m2

MostOnBlocks == consensus :> 1 @@ lcblocks :> 2
OnePerTopic == {<<consensus, m1>>, <<lcblocks, m2>>}
=============================================================================
