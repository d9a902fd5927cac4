----------------------------- MODULE MCHotStuff -----------------------------
(***************************************************************************)
(* Instances of HotStuff: three honest authorities, or two with a faulty one. *)
(***************************************************************************)
EXTENDS HotStuff

CONSTANTS a1, a2, a3, f, x1, x2

EqualStake == [a \in Authority |-> 1]

(* A faulty authority with a fifth of the stake: a QC needs both others.       *)
TwoAndOne == [a \in Authority |-> IF a = f THEN 1 ELSE 2]

(* An honest leader in the first and in the fourth round, a faulty one in the others. *)
MostlyFaulty == [r \in Round |-> IF r \in {1, 4} THEN a1 ELSE f]

(* Honest leaders in turn.                                                       *)
Turns == [r \in Round |-> IF r % 3 = 1 THEN a1 ELSE IF r % 3 = 2 THEN a2 ELSE a3]

OnePayload == [r \in Round |-> {x1}]

NoTCs == {}
NoBlocks == {}

(* A TC that nobody has signed, which makes a leader propose on its high_qc.     *)
EarlyTC == {[round |-> 3, high |-> 0]}

(* A block that no leader has proposed, in the round of the lock and beside it.  *)
StrayBlock == {<<[round |-> 2, payload |-> x2]>>}
=============================================================================
