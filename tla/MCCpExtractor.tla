--------------------------- MODULE MCCpExtractor ---------------------------
(***************************************************************************)
(* TLC instance of CpExtractor: three authorities of equal stake, so that    *)
(* three Accepts of one block or a Reject decide.                             *)
(***************************************************************************)
EXTENDS CpExtractor, TLC

CONSTANTS n1, n2, n3,  \* authorities
          outsider,    \* a key that is not in the committee
          r1, r2, b1, b2

MCReplica == {r1, r2}
MCBlock == {b1, b2}
MCCommittee == {n1, n2, n3}
MCAuthor == MCCommittee \cup {outsider}
MCStake == [a \in MCCommittee |-> 1]

Accept(a, b) == [author |-> a, signed |-> TRUE,
                 action |-> [kind |-> "Accept", i |-> 0, b |-> b]]
Reject(a, i, signed) == [author |-> a, signed |-> signed,
                         action |-> [kind |-> "Reject", i |-> i]]

(* The authorities change their minds about the block, n1 rejects and n2 rejects the  *)
(* next iteration early; a Reject of n3 without its signature and one of a stranger    *)
(* do not count.                                                                        *)
VotesAndJunk ==
    {Accept(a, b) : a \in MCCommittee, b \in MCBlock}
      \cup {Reject(n1, 0, TRUE), Reject(n2, 1, TRUE),
            Reject(n3, 0, FALSE), Reject(outsider, 0, TRUE)}
=============================================================================
