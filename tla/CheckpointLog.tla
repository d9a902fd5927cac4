--------------------------- MODULE CheckpointLog ---------------------------
(***************************************************************************)
(* What the checkpoint extractors of all nodes promise together: there is   *)
(* one log of decisions, one entry per checkpoint iteration, and every      *)
(* replica is told the entries of that log in order, each exactly once.  An  *)
(* entry is the block that became the checkpoint of the iteration, or        *)
(* NoCheckpoint when the iteration was rejected.                             *)
(*                                                                           *)
(* CpExtractor implements this specification.                                *)
(***************************************************************************)
EXTENDS Integers, Sequences

CONSTANTS Replica,      \* the nodes
          Block,        \* the blocks that can be proposed as a checkpoint
          NoCheckpoint  \* the decision of a rejected iteration

VARIABLES log,          \* the decisions of the iterations 0, 1, 2, ...
          told          \* told[r]: how many of them replica r has been told

vars == <<log, told>>

Init == /\ log = << >>
        /\ told = [r \in Replica |-> 0]

(* The replica that is ahead of all others learns a decision first.          *)
Decide(r) ==
    /\ told[r] = Len(log)
    /\ \E d \in Block \cup {NoCheckpoint} : log' = Append(log, d)
    /\ told' = [told EXCEPT ![r] = @ + 1]

(* The others follow: they never learn anything but the next entry.          *)
Follow(r) ==
    /\ told[r] < Len(log)
    /\ told' = [told EXCEPT ![r] = @ + 1]
    /\ UNCHANGED log

Next == \E r \in Replica : Decide(r) \/ Follow(r)

Spec == Init /\ [][Next]_vars
=============================================================================
