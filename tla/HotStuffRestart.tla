---------------------------- MODULE HotStuffRestart ----------------------------
(***************************************************************************)
(* HotStuff with authorities that stop and start again.  Core::new              *)
(* (consensus/src/core.rs:65-102) takes the store with its blocks, which is a      *)
(* database on disk, and begins with round 1, last_voted_round 0 and the QC of       *)
(* genesis; run() then proposes, if round 1 is the node's to lead, before it             *)
(* receives anything.  What its aggregator had is lost; the others' votes come again by    *)
(* gossip, and that its own vote is lost, if it was kept back, or its own block, if it waits *)
(* for its parent, is left out.                                                                 *)
(***************************************************************************)
EXTENDS HotStuff, FiniteSets

CONSTANT MaxRestarts    \* bound: how many authorities start again, each once

VARIABLES restarting,   \* who has started again, and has not begun to receive
          restarted     \* who has ever started again

restartVars == <<vars, restarting, restarted>>

RInit ==
    /\ Init
    /\ restarting = {}
    /\ restarted = {}

MayRestart(n) == n \notin restarted /\ Cardinality(restarted) < MaxRestarts

Restart(n) ==
    /\ MayRestart(n)
    /\ restarted' = restarted \cup {n}
    /\ restarting' = restarting \cup {n}
    /\ round' = [round EXCEPT ![n] = 1]
    /\ last_voted_round' = [last_voted_round EXCEPT ![n] = 0]
    /\ high_qc' = [high_qc EXCEPT ![n] = Genesis]
    /\ UNCHANGED <<store, proposals, votes, timeouts, misled>>

Begin(n) ==
    /\ n \in restarting
    /\ restarting' = restarting \ {n}
    /\ GenerateProposal(n, 1, Genesis, NoTC)
    /\ UNCHANGED <<round, high_qc, timeouts, misled, restarted>>

RNext ==
    \/ \E n \in Honest : Restart(n) \/ Begin(n)
    \/ \E n \in Honest \ restarting : Step(n) /\ UNCHANGED <<restarting, restarted>>

RSpec == RInit /\ [][RNext]_restartVars

-----------------------------------------------------------------------------
(* Two votes in one round come only from an authority that has started again in between:   *)
(* nothing that it is shown makes another one forget its vote, and so "Ensure we won't vote *)
(* for contradicting blocks" (core.rs:128) holds for it.                                       *)
OnlyRestartsForget ==
    \A v, w \in votes :
        v.author = w.author /\ BlockRound(v.block) = BlockRound(w.block) /\ v # w =>
            v.author \in restarted

(* Those that start again count with the faulty and with those whom peers have misled: with *)
(* less than a third of them all, nothing that is committed is abandoned, also by those who    *)
(* have lost their last_voted_round (core.rs:130).                                                *)
RestartsKeepCommits ==
    3 * StakeOf(Faulty \cup misled \cup restarted) < StakeOf(Authority) => OnOneChain /\ LocksHold
=============================================================================
