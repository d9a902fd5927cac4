----------------------------- MODULE MCSuspension -----------------------------
(* An instance of Suspension for TLC: a chain of three blocks that share     *)
(* payloads.                                                                 *)
EXTENDS Suspension, TLC

CONSTANTS b1, b2, b3, x, y

ChainParent == b1 :> Genesis @@ b2 :> b1 @@ b3 :> b2
ChainRounds == b1 :> 1 @@ b2 :> 2 @@ b3 :> 3
ChainPayload == b1 :> {x} @@ b2 :> {x, y} @@ b3 :> {y}
=============================================================================
