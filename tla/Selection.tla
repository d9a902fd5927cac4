------------------------------- MODULE Selection -------------------------------
(* SelectSeq for a set of places instead of a test, so that proofs can expand it. *)
EXTENDS Naturals, Sequences

(* What a sequence has at the given places, in its order.                      *)
Picked(s, places) ==
    LET upto[k \in 0 .. Len(s)] ==
            IF k = 0 THEN << >>
            ELSE IF k \in places THEN Append(upto[k - 1], s[k]) ELSE upto[k - 1]
    IN upto[Len(s)]
=============================================================================
