-------------------------- MODULE CpProposerProofs --------------------------
(***************************************************************************)
(* Proofs about CpProposer, for every committee, assignment of leaders,      *)
(* number of iterations and length of the event queue.                        *)
(***************************************************************************)
EXTENDS CpProposer, TLAPS

(* The events have their types, and it can be told what kind they are of.       *)
LEMMA EventTypes ==
    /\ \A i \in Iteration, b \in Block : NewProposal(i, b) \in Event
    /\ \A i \in Iteration, cp \in Block \cup {NoCheckpoint} :
          NewCheckpoint(i, cp) \in Event
    /\ \A e \in Event : /\ e.i \in Iteration
                        /\ e.b \in Block \cup {NoCheckpoint}
                        /\ e.kind \in {"NewProposal", "NewCheckpoint"}
                        /\ e.kind = "NewProposal" => e.b \in Block
  BY DEF Event, NewProposal, NewCheckpoint

(* A proposal that is put into the channel keeps the channel's type.                *)
LEMMA ChannelType ==
    ASSUME NEW channel \in Seq(Block), NEW b \in Block
    PROVE  Append(channel, b) \in Seq(Block)
  OBVIOUS

-----------------------------------------------------------------------------
(***************************************************************************)
(* Type correctness.                                                         *)
(***************************************************************************)

(* The state variables keep their types; the proposer is past the last          *)
(* iteration of the bound only at the top of its loop (cpproposer.rs:93-270).    *)
THEOREM TypeCorrect == Spec => []TypeOK
  <1> USE ProposerAssumption DEF Iteration, PauseId, Boot, Vote
  <1>1. Init => TypeOK
    BY DEF Init, TypeOK
  <1>2. TypeOK /\ [Next]_vars => TypeOK'
    <2> SUFFICES ASSUME TypeOK, [Next]_vars PROVE TypeOK'
      OBVIOUS
    <2> USE DEF TypeOK, proposerVars, coreVars, voteVars
    <2>1. CASE StartIteration
      BY <2>1 DEF StartIteration
    <2>2. CASE DelayUp
      BY <2>2 DEF DelayUp
    <2>3. CASE Propose
      <3>1. StoredProposal \in Seq(Block)
        BY <2>3 DEF StoredProposal, Propose
      <3>2. proposed' \subseteq [i : Iteration, b : Block]
        BY <2>3 DEF Propose
      <3> QED
        BY <2>3, <3>1, <3>2 DEF Propose
    <2>4. CASE ActOnProposal
      <3>1. /\ current_iteration \in Iteration
            /\ current_iteration \in PauseId
            /\ Head(act_on) \in Block
            /\ Tail(act_on) \in Seq(Block)
        BY <2>4 DEF ActOnProposal
      <3>2. PICK v \in Vote : SubmitVote(v)
        BY <2>4, <3>1 DEF ActOnProposal
      <3>3. /\ voted' \in [Iteration -> Vote \cup {NoVote}]
            /\ pending' \subseteq [i : Iteration, vote : Vote]
        BY <3>1, <3>2 DEF SubmitVote
      <3>4. resumer' \in [PauseId -> {"none", "waiting", "asked", "done"}]
        BY <2>4, <3>1 DEF ActOnProposal, TriggerResume
      <3> QED
        BY <2>4, <3>1, <3>3, <3>4 DEF ActOnProposal
    <2>5. CASE TimeoutUp
      BY <2>5 DEF TimeoutUp, SubmitVote, TriggerResume
    <2>6. CASE RejectAgain
      BY <2>6 DEF RejectAgain, SubmitVote
    <2>7. CASE TakeEvent
      <3>1. ASSUME events # << >>
            PROVE  Head(events) \in Event /\ Tail(events) \in Seq(Event)
        BY <3>1
      <3>2. CASE TakeCheckpoint
        BY <3>1, <3>2, EventTypes DEF TakeCheckpoint, Listening, DropTrigger
      <3>3. CASE IgnoreProposal
        BY <3>1, <3>3 DEF IgnoreProposal, Listening
      <3>4. CASE TakeProposal
        <4>1. /\ Head(events).i \in Iteration
              /\ Head(events).b \in Block
              /\ Tail(events) \in Seq(Event)
          BY <3>1, <3>4, EventTypes DEF TakeProposal, Listening
        <4>2. proposals' \in [Iteration -> Block \cup {NoProposal}]
          BY <3>4, <4>1 DEF TakeProposal
        <4>3. act_on' \in Seq(Block)
          <5>1. act_on' = act_on \/ act_on' = Append(act_on, Head(events).b)
            BY <3>4 DEF TakeProposal
          <5>2. CASE act_on' = act_on
            BY <5>2
          <5>3. CASE act_on' = Append(act_on, Head(events).b)
            BY <4>1, <5>3, ChannelType
          <5> QED
            BY <5>1, <5>2, <5>3
        <4> QED
          BY <3>4, <4>1, <4>2, <4>3 DEF TakeProposal
      <3> QED
        BY <2>7, <3>2, <3>3, <3>4 DEF TakeEvent
    <2>8. CASE FuseProposal
      BY <2>8, EventTypes DEF FuseProposal
    <2>9. CASE Decide
      BY <2>9, EventTypes DEF Decide
    <2>16. CASE FusionPanics
      BY <2>16 DEF FusionPanics
    <2>17. CASE ProposerPanics
      BY <2>17 DEF ProposerPanics, DropTrigger
    <2>10. CASE DropVote
      BY <2>10 DEF DropVote
    <2>11. ASSUME NEW p \in Iteration, Resume(p) PROVE TypeOK'
      BY <2>11 DEF Resume
    <2>12. CASE BootComplete
      BY <2>12 DEF BootComplete
    <2>13. CASE CorePause
      BY <2>13 DEF CorePause
    <2>14. CASE CoreResume
      BY <2>14 DEF CoreResume
    <2>15. CASE UNCHANGED vars
      BY <2>15 DEF vars
    <2> QED
      BY <2>1, <2>2, <2>3, <2>4, <2>5, <2>6, <2>7, <2>8, <2>9, <2>10, <2>11,
         <2>12, <2>13, <2>14, <2>15, <2>16, <2>17 DEF Next
  <1> QED
    BY <1>1, <1>2, PTL DEF Spec

-----------------------------------------------------------------------------
(***************************************************************************)
(* Votes and the proposal to act on.  The three properties of this section    *)
(* follow from one invariant that ties together, for every phase, the stored   *)
(* proposal, the channel of capacity one and the vote of the iteration.         *)
(***************************************************************************)

(* While it waits, the node has no proposal, or one in the channel that it has   *)
(* not voted on, or one that it has taken from the channel and voted on.          *)
Waiting(stored, channel, vote) ==
    \/ stored = NoProposal /\ channel = << >> /\ vote = NoVote
    \/ stored # NoProposal /\ channel = <<stored>> /\ vote = NoVote
    \/ stored # NoProposal /\ channel = << >> /\ vote # NoVote

VoteInv ==
    /\ \A i \in Iteration : i > current_iteration => voted[i] = NoVote
    /\ phase \in {"start", "delay", "propose"} /\ current_iteration \in Iteration
          => voted[current_iteration] = NoVote
    /\ phase = "waiting" =>
          Waiting(proposals[current_iteration], act_on, voted[current_iteration])
    /\ phase = "rejecting" => voted[current_iteration] = RejectVote

(* VoteInv is invariant.                                                         *)
LEMMA VoteInvariant == Spec => []VoteInv
  <1> USE ProposerAssumption DEF Iteration, Vote
  <1>1. Init => VoteInv
    BY DEF Init, VoteInv
  <1>2. TypeOK /\ VoteInv /\ [Next]_vars => VoteInv'
    <2> SUFFICES ASSUME TypeOK, VoteInv, [Next]_vars PROVE VoteInv'
      OBVIOUS
    <2> USE DEF VoteInv, proposerVars, coreVars, voteVars
    <2>1. CASE StartIteration
      BY <2>1 DEF StartIteration
    <2>2. CASE DelayUp
      BY <2>2 DEF DelayUp
    <2>3. CASE Propose
      BY <2>3 DEF Propose, StoredProposal, Waiting, TypeOK
    <2>4. CASE ActOnProposal
      <3>1. /\ phase = "waiting" /\ current_iteration \in Iteration
            /\ proposals[current_iteration] # NoProposal
            /\ act_on = <<proposals[current_iteration]>>
        BY <2>4 DEF ActOnProposal, Waiting, TypeOK
      <3>2. /\ act_on' = << >> /\ phase' = phase
            /\ UNCHANGED <<current_iteration, proposals>>
        BY <2>4, <3>1 DEF ActOnProposal
      <3>3. \E v \in Vote : voted' = [voted EXCEPT ![current_iteration] = v]
        <4>1. proposals[current_iteration] \in Block
          BY <3>1 DEF TypeOK
        <4> QED
          BY <2>4, <3>1, <4>1 DEF ActOnProposal, SubmitVote
      <3> QED
        BY <3>1, <3>2, <3>3 DEF Waiting, TypeOK
    <2>5. CASE TimeoutUp
      BY <2>5 DEF TimeoutUp, SubmitVote, TypeOK
    <2>6. CASE RejectAgain
      BY <2>6 DEF RejectAgain, SubmitVote, TypeOK
    <2>7. CASE TakeCheckpoint
      BY <2>7 DEF TakeCheckpoint, TypeOK
    <2>8. CASE IgnoreProposal
      BY <2>8 DEF IgnoreProposal
    <2>9. CASE TakeProposal
      <3> DEFINE e == Head(events)
      <3>1. e \in Event /\ e.i \in Iteration /\ e.b \in Block /\ e.b # NoProposal
        <4>1. events # << >> /\ e.kind = "NewProposal"
          BY <2>9 DEF TakeProposal, Listening
        <4>2. e \in Event
          BY <4>1 DEF TypeOK
        <4> QED
          BY <4>1, <4>2, EventTypes
      <3>2. /\ UNCHANGED <<phase, current_iteration, voted>>
            /\ proposals[e.i] = NoProposal
            /\ proposals' = [proposals EXCEPT ![e.i] = e.b]
        BY <2>9 DEF TakeProposal, IsNews
      <3>3. CASE phase = "waiting" /\ e.i = current_iteration
        <4>1. act_on = << >> /\ act_on' = <<e.b>> /\ voted[current_iteration] = NoVote
          BY <2>9, <3>1, <3>2, <3>3 DEF TakeProposal, Waiting
        <4>2. proposals'[current_iteration] = e.b
          BY <3>1, <3>2, <3>3 DEF TypeOK
        <4> QED
          BY <3>1, <3>2, <3>3, <4>1, <4>2 DEF Waiting
      <3>4. CASE ~ (phase = "waiting" /\ e.i = current_iteration)
        <4>1. act_on' = act_on
          BY <2>9, <3>4 DEF TakeProposal
        <4>2. phase = "waiting" => proposals'[current_iteration] = proposals[current_iteration]
          BY <3>2, <3>4 DEF TypeOK
        <4> QED
          BY <3>2, <4>1, <4>2
      <3> QED
        BY <3>3, <3>4
    <2>10. CASE FuseProposal
      BY <2>10 DEF FuseProposal
    <2>11. CASE Decide
      BY <2>11 DEF Decide
    <2>12. CASE DropVote
      BY <2>12 DEF DropVote
    <2>13. ASSUME NEW p \in Iteration, Resume(p) PROVE VoteInv'
      BY <2>13 DEF Resume
    <2>14. CASE BootComplete
      BY <2>14 DEF BootComplete
    <2>15. CASE CorePause
      BY <2>15 DEF CorePause
    <2>16. CASE CoreResume
      BY <2>16 DEF CoreResume
    <2>17. CASE FusionPanics
      BY <2>17 DEF FusionPanics
    <2>18. CASE ProposerPanics
      BY <2>18 DEF ProposerPanics
    <2>19. CASE UNCHANGED vars
      BY <2>19 DEF vars
    <2> QED
      BY <2>1, <2>2, <2>3, <2>4, <2>5, <2>6, <2>7, <2>8, <2>9, <2>10, <2>11,
         <2>12, <2>13, <2>14, <2>15, <2>16, <2>17, <2>18, <2>19 DEF Next, TakeEvent
  <1> QED
    BY <1>1, <1>2, TypeCorrect, PTL DEF Spec

(* The proposer never waits for itself: when it puts the proposal of its own      *)
(* iteration into the channel of capacity one, the channel is empty (218).         *)
THEOREM NeverBlocked == Spec => []NeverBlocksItself
  <1>1. VoteInv => NeverBlocksItself
    BY DEF VoteInv, Waiting, NeverBlocksItself, IsNews
  <1> QED
    BY <1>1, VoteInvariant, PTL

(* A proposal that is stored for the iteration is about to be acted on, or has      *)
(* been voted on (164-167, 212-219).                                                 *)
THEOREM ProposalsActedOn == Spec => []NoProposalLost
  <1>1. VoteInv => NoProposalLost
    BY DEF VoteInv, Waiting, NoProposalLost
  <1> QED
    BY <1>1, VoteInvariant, PTL

(* At most one Accept per iteration, for the leader's first proposal, and nothing     *)
(* but Rejects after a Reject (177-200, 228-239).                                      *)
THEOREM VotesAreDisciplined == Spec => VoteDiscipline
  <1> USE ProposerAssumption DEF Iteration, Vote
  <1> DEFINE Disciplined ==
        \A i \in Iteration :
           voted'[i] # voted[i] =>
             /\ i = current_iteration
             /\ \/ voted[i] = NoVote
                \/ voted[i] \in Block /\ voted'[i] = RejectVote
             /\ voted'[i] \in Block => voted'[i] = proposals[i]
  <1>1. TypeOK /\ VoteInv /\ [Next]_vars => [Disciplined]_vars
    <2> SUFFICES ASSUME TypeOK, VoteInv, Next PROVE Disciplined
      OBVIOUS
    <2>1. CASE ActOnProposal
      <3>1. /\ voted[current_iteration] = NoVote
            /\ act_on = <<proposals[current_iteration]>>
        BY <2>1 DEF ActOnProposal, VoteInv, Waiting
      <3>2. \E v \in {proposals[current_iteration], RejectVote} :
               voted' = [voted EXCEPT ![current_iteration] = v]
        BY <2>1, <3>1 DEF ActOnProposal, SubmitVote
      <3> QED
        BY <3>1, <3>2 DEF TypeOK
    <2>2. CASE TimeoutUp
      BY <2>2 DEF TimeoutUp, SubmitVote, VoteInv, TypeOK
    <2>3. CASE RejectAgain
      BY <2>3 DEF RejectAgain, SubmitVote, VoteInv, TypeOK
    <2>4. CASE UNCHANGED voted
      BY <2>4
    <2>5. CASE TakeEvent
      BY <2>5, <2>4 DEF TakeEvent, TakeCheckpoint, IgnoreProposal, TakeProposal, voteVars
    <2>6. ASSUME \/ StartIteration \/ DelayUp \/ Propose \/ FuseProposal
                 \/ FusionPanics \/ ProposerPanics \/ Decide
                 \/ DropVote \/ BootComplete \/ CorePause \/ CoreResume
                 \/ \E p \in Iteration : Resume(p)
          PROVE  UNCHANGED voted
      BY <2>6 DEF StartIteration, DelayUp, Propose, FuseProposal, Decide, DropVote,
                  FusionPanics, ProposerPanics, BootComplete, CorePause, CoreResume, Resume, voteVars
    <2> QED
      BY <2>1, <2>2, <2>3, <2>4, <2>5, <2>6 DEF Next
  <1>2. VoteDiscipline <=> [][Disciplined]_vars
    BY DEF VoteDiscipline
  <1> QED
    BY <1>1, <1>2, TypeCorrect, VoteInvariant, PTL DEF Spec

-----------------------------------------------------------------------------
(***************************************************************************)
(* The assertions.  The invariant says of the decisions in the queue that     *)
(* they are those that the proposer has not yet taken, in their order, with      *)
(* any proposals between them: up to the last decision while the fusion task runs,  *)
(* up to the last that it has forwarded once it has panicked.                      *)
(***************************************************************************)

IsDecision(q, k, i) == q[k].kind = "NewCheckpoint" /\ q[k].i = i

Decisions(q, lo, hi) ==
    /\ \A k \in 1 .. Len(q) : q[k].kind = "NewCheckpoint" => q[k].i \in lo .. hi - 1
    /\ \A k, l \in 1 .. Len(q) :
          k < l /\ q[k].kind = "NewCheckpoint" /\ q[l].kind = "NewCheckpoint"
             => q[k].i < q[l].i
    /\ \A i \in lo .. hi - 1 : \E k \in 1 .. Len(q) : IsDecision(q, k, i)

DecisionInv == \E hi \in current_iteration .. decided :
                 /\ Decisions(events, current_iteration, hi)
                 /\ fusing => hi = decided

(* What Append does to a queue of events.                                          *)
LEMMA AppendedEvents ==
    ASSUME NEW q \in Seq(Event), NEW e \in Event
    PROVE  /\ Len(q) \in Nat
           /\ Len(Append(q, e)) = Len(q) + 1
           /\ \A k \in 1 .. Len(q) : Append(q, e)[k] = q[k]
           /\ Append(q, e)[Len(q) + 1] = e
           /\ \A k \in 1 .. Len(q) : q[k].i \in Nat
  BY ProposerAssumption, EventTypes DEF Iteration

(* What Tail does to a queue of events.                                            *)
LEMMA RemovedEvents ==
    ASSUME NEW q \in Seq(Event), q # << >>
    PROVE  /\ Len(q) \in Nat \ {0} /\ Head(q) = q[1]
           /\ Len(Tail(q)) = Len(q) - 1
           /\ \A k \in 1 .. Len(q) - 1 : Tail(q)[k] = q[k + 1]
           /\ \A k \in 1 .. Len(q) : q[k].i \in Nat
  BY ProposerAssumption, EventTypes DEF Iteration

(* A proposal that is appended changes no decision.                                *)
LEMMA ProposalAppended ==
    ASSUME NEW q \in Seq(Event), NEW lo \in Nat, NEW hi \in Nat, Decisions(q, lo, hi),
           NEW e \in Event, e.kind # "NewCheckpoint"
    PROVE  Decisions(Append(q, e), lo, hi)
  <1> DEFINE r == Append(q, e)
             n == Len(q)
  <1>1. /\ n \in Nat /\ Len(r) = n + 1 /\ r[n + 1].kind # "NewCheckpoint"
        /\ \A k \in 1 .. n : r[k] = q[k]
    BY AppendedEvents
  <1> HIDE DEF r
  <1>2. \A k \in 1 .. n + 1 : r[k].kind = "NewCheckpoint" => k \in 1 .. n /\ r[k] = q[k]
    BY <1>1
  <1>3. \A i \in lo .. hi - 1 : \E k \in 1 .. n + 1 : IsDecision(r, k, i)
    <2> SUFFICES ASSUME NEW i \in lo .. hi - 1
                 PROVE  \E k \in 1 .. n + 1 : IsDecision(r, k, i)
      OBVIOUS
    <2>1. PICK k \in 1 .. n : IsDecision(q, k, i)
      BY DEF Decisions
    <2>2. k \in 1 .. n + 1 /\ r[k] = q[k]
      BY <1>1
    <2> QED
      BY <2>1, <2>2 DEF IsDecision
  <1>4. \A k \in 1 .. n + 1 : r[k].kind = "NewCheckpoint" => r[k].i \in lo .. hi - 1
    BY <1>2 DEF Decisions
  <1>5. \A k, l \in 1 .. n + 1 :
          k < l /\ r[k].kind = "NewCheckpoint" /\ r[l].kind = "NewCheckpoint"
             => r[k].i < r[l].i
    BY <1>2 DEF Decisions
  <1>6. Decisions(r, lo, hi)
    BY <1>1, <1>3, <1>4, <1>5 DEF Decisions
  <1> QED
    BY <1>6 DEF r

(* The next decision is appended.                                                  *)
LEMMA DecisionAppended ==
    ASSUME NEW q \in Seq(Event), NEW lo \in Nat, NEW hi \in Nat, Decisions(q, lo, hi),
           lo <= hi, NEW e \in Event, e.kind = "NewCheckpoint", e.i = hi
    PROVE  Decisions(Append(q, e), lo, hi + 1)
  <1> DEFINE r == Append(q, e)
             n == Len(q)
  <1>1. /\ n \in Nat /\ Len(r) = n + 1 /\ r[n + 1] = e
        /\ \A k \in 1 .. n : r[k] = q[k]
        /\ \A k \in 1 .. n : q[k].i \in Nat
    BY AppendedEvents
  <1> HIDE DEF r
  <1>2. \A k \in 1 .. n + 1 : k = n + 1 \/ k \in 1 .. n
    BY <1>1
  <1>3. \A k \in 1 .. n + 1 : r[k].kind = "NewCheckpoint" => r[k].i \in lo .. hi
    BY <1>1, <1>2 DEF Decisions
  <1>4. \A k, l \in 1 .. n + 1 :
          k < l /\ r[k].kind = "NewCheckpoint" /\ r[l].kind = "NewCheckpoint"
             => r[k].i < r[l].i
    <2> SUFFICES ASSUME NEW k \in 1 .. n + 1, NEW l \in 1 .. n + 1, k < l,
                        r[k].kind = "NewCheckpoint", r[l].kind = "NewCheckpoint"
                 PROVE  r[k].i < r[l].i
      OBVIOUS
    <2>1. k \in 1 .. n /\ r[k] = q[k]
      BY <1>1
    <2>2. CASE l = n + 1
      BY <1>1, <2>1, <2>2 DEF Decisions
    <2>3. CASE l # n + 1
      BY <1>1, <1>2, <2>1, <2>3 DEF Decisions
    <2> QED
      BY <2>2, <2>3
  <1>5. \A i \in lo .. hi : \E k \in 1 .. n + 1 : IsDecision(r, k, i)
    <2> SUFFICES ASSUME NEW i \in lo .. hi PROVE \E k \in 1 .. n + 1 : IsDecision(r, k, i)
      OBVIOUS
    <2>1. CASE i = hi
      BY <1>1, <2>1 DEF IsDecision
    <2>2. CASE i # hi
      <3>1. PICK k \in 1 .. n : IsDecision(q, k, i)
        BY <2>2 DEF Decisions
      <3> QED
        BY <1>1, <3>1 DEF IsDecision
    <2> QED
      BY <2>1, <2>2
  <1>6. lo .. (hi + 1) - 1 = lo .. hi
    OBVIOUS
  <1>7. Decisions(r, lo, hi + 1)
    BY <1>1, <1>3, <1>4, <1>5, <1>6 DEF Decisions
  <1> QED
    BY <1>7 DEF r

(* A proposal is taken from the head.                                              *)
LEMMA ProposalRemoved ==
    ASSUME NEW q \in Seq(Event), NEW lo \in Nat, NEW hi \in Nat, Decisions(q, lo, hi),
           q # << >>, Head(q).kind # "NewCheckpoint"
    PROVE  Decisions(Tail(q), lo, hi)
  <1> DEFINE r == Tail(q)
             n == Len(q)
  <1>1. /\ n \in Nat \ {0} /\ Len(r) = n - 1 /\ q[1].kind # "NewCheckpoint"
        /\ \A k \in 1 .. n - 1 : r[k] = q[k + 1]
    BY RemovedEvents
  <1> HIDE DEF r
  <1>2. \A i \in lo .. hi - 1 : \E k \in 1 .. n - 1 : IsDecision(r, k, i)
    <2> SUFFICES ASSUME NEW i \in lo .. hi - 1
                 PROVE  \E k \in 1 .. n - 1 : IsDecision(r, k, i)
      OBVIOUS
    <2>1. PICK k \in 1 .. n : IsDecision(q, k, i)
      BY DEF Decisions
    <2>2. k - 1 \in 1 .. n - 1 /\ r[k - 1] = q[k]
      BY <1>1, <2>1 DEF IsDecision
    <2> QED
      BY <2>1, <2>2 DEF IsDecision
  <1>3. \A k \in 1 .. n - 1 : k + 1 \in 1 .. n /\ r[k] = q[k + 1]
    BY <1>1
  <1>4. \A k, l \in 1 .. n - 1 : k < l => k + 1 < l + 1
    BY <1>1
  <1>5. \A k \in 1 .. n - 1 : r[k].kind = "NewCheckpoint" => r[k].i \in lo .. hi - 1
    BY <1>3 DEF Decisions
  <1>6. \A k, l \in 1 .. n - 1 :
          k < l /\ r[k].kind = "NewCheckpoint" /\ r[l].kind = "NewCheckpoint"
             => r[k].i < r[l].i
    BY <1>3, <1>4 DEF Decisions
  <1>7. Decisions(r, lo, hi)
    BY <1>1, <1>2, <1>5, <1>6 DEF Decisions
  <1> QED
    BY <1>7 DEF r

(* A decision at the head of the queue is the first that is missing.                *)
LEMMA HeadIsFirst ==
    ASSUME NEW q \in Seq(Event), NEW lo \in Nat, NEW hi \in Nat, Decisions(q, lo, hi),
           q # << >>, Head(q).kind = "NewCheckpoint"
    PROVE  Head(q).i = lo /\ lo < hi
  <1> DEFINE n == Len(q)
  <1>1. /\ n \in Nat \ {0} /\ Head(q) = q[1] /\ 1 \in 1 .. n
        /\ \A k \in 1 .. n : q[k].i \in Nat
    BY RemovedEvents
  <1>2. q[1].i \in lo .. hi - 1
    BY <1>1 DEF Decisions
  <1>3. PICK k \in 1 .. n : IsDecision(q, k, lo)
    BY <1>2 DEF Decisions
  <1>4. k = 1 \/ q[1].i < q[k].i
    BY <1>1, <1>3 DEF Decisions, IsDecision
  <1> QED
    BY <1>1, <1>2, <1>3, <1>4 DEF IsDecision

(* A decision is taken from the head: it was that of lo.                              *)
LEMMA DecisionRemoved ==
    ASSUME NEW q \in Seq(Event), NEW lo \in Nat, NEW hi \in Nat, Decisions(q, lo, hi),
           q # << >>, Head(q).kind = "NewCheckpoint"
    PROVE  Decisions(Tail(q), lo + 1, hi)
  <1> DEFINE r == Tail(q)
             n == Len(q)
  <1>1. /\ n \in Nat \ {0} /\ Len(r) = n - 1
        /\ \A k \in 1 .. n - 1 : r[k] = q[k + 1]
        /\ \A k \in 1 .. n : q[k].i \in Nat
        /\ q[1].kind = "NewCheckpoint" /\ q[1].i = lo
    BY RemovedEvents, HeadIsFirst
  <1> HIDE DEF r
  <1>2. \A k \in 1 .. n - 1 : /\ k + 1 \in 1 .. n /\ 1 < k + 1 /\ 1 \in 1 .. n
                              /\ r[k] = q[k + 1]
    BY <1>1
  <1>3. \A k \in 1 .. n - 1 : r[k].kind = "NewCheckpoint" => r[k].i \in lo + 1 .. hi - 1
    <2> SUFFICES ASSUME NEW k \in 1 .. n - 1, r[k].kind = "NewCheckpoint"
                 PROVE  r[k].i \in lo + 1 .. hi - 1
      OBVIOUS
    <2>1. q[k + 1].i \in lo .. hi - 1 /\ q[1].i < q[k + 1].i
      BY <1>1, <1>2 DEF Decisions
    <2> QED
      BY <1>1, <1>2, <2>1
  <1>4. \A k, l \in 1 .. n - 1 : k < l => k + 1 < l + 1
    BY <1>1
  <1>5. \A i \in lo + 1 .. hi - 1 : \E k \in 1 .. n - 1 : IsDecision(r, k, i)
    <2> SUFFICES ASSUME NEW i \in lo + 1 .. hi - 1
                 PROVE  \E k \in 1 .. n - 1 : IsDecision(r, k, i)
      OBVIOUS
    <2>1. i \in lo .. hi - 1 /\ i # lo
      OBVIOUS
    <2>2. PICK k \in 1 .. n : IsDecision(q, k, i)
      BY <2>1 DEF Decisions
    <2>3. k - 1 \in 1 .. n - 1 /\ r[k - 1] = q[k]
      BY <1>1, <2>1, <2>2 DEF IsDecision
    <2> QED
      BY <2>2, <2>3 DEF IsDecision
  <1>6. \A k, l \in 1 .. n - 1 :
          k < l /\ r[k].kind = "NewCheckpoint" /\ r[l].kind = "NewCheckpoint"
             => r[k].i < r[l].i
    BY <1>2, <1>4 DEF Decisions
  <1>7. Decisions(r, lo + 1, hi)
    BY <1>1, <1>3, <1>5, <1>6 DEF Decisions
  <1> QED
    BY <1>7 DEF r

(* DecisionInv is invariant.                                                       *)
LEMMA DecisionInvariant == Spec => []DecisionInv
  <1> USE ProposerAssumption DEF Iteration
  <1>1. Init => DecisionInv
    BY DEF Init, DecisionInv, Decisions
  <1>2. TypeOK /\ DecisionInv /\ [Next]_vars => DecisionInv'
    <2> SUFFICES ASSUME TypeOK, DecisionInv, [Next]_vars PROVE DecisionInv'
      OBVIOUS
    <2>1. events \in Seq(Event) /\ current_iteration \in Nat /\ decided \in Nat
      BY DEF TypeOK
    <2>h. PICK hi \in current_iteration .. decided :
             /\ Decisions(events, current_iteration, hi)
             /\ fusing => hi = decided
      BY DEF DecisionInv
    <2>n. hi \in Nat /\ current_iteration <= hi /\ hi <= decided
      BY <2>1
    <2>2. CASE Decide /\ fusing
      <3>1. PICK cp \in Block \cup {NoCheckpoint} :
               events' = Append(events, NewCheckpoint(decided, cp))
        BY <2>2 DEF Decide
      <3>2. /\ NewCheckpoint(decided, cp) \in Event
            /\ NewCheckpoint(decided, cp).kind = "NewCheckpoint"
            /\ NewCheckpoint(decided, cp).i = decided
        BY <2>2, EventTypes DEF Decide, NewCheckpoint
      <3>3. Decisions(events', current_iteration, decided + 1)
        BY <2>1, <2>2, <2>h, <2>n, <3>1, <3>2, DecisionAppended
      <3>4. decided' = decided + 1 /\ UNCHANGED current_iteration
        BY <2>2 DEF Decide, proposerVars
      <3>5. decided + 1 \in current_iteration .. decided + 1
        BY <2>1, <2>n
      <3> QED
        BY <3>3, <3>4, <3>5 DEF DecisionInv
    <2>3. CASE FuseProposal
      <3>1. PICK i \in Iteration, b \in Block : events' = Append(events, NewProposal(i, b))
        BY <2>3 DEF FuseProposal
      <3>2. NewProposal(i, b) \in Event /\ NewProposal(i, b).kind # "NewCheckpoint"
        BY EventTypes DEF NewProposal
      <3>3. Decisions(events', current_iteration, hi)
        BY <2>1, <2>h, <2>n, <3>1, <3>2, ProposalAppended
      <3> QED
        BY <2>3, <2>h, <3>3 DEF DecisionInv, FuseProposal, proposerVars
    <2>4. CASE TakeCheckpoint
      <3>1. events # << >> /\ Head(events).kind = "NewCheckpoint"
        BY <2>4 DEF TakeCheckpoint, Listening
      <3>2. /\ Decisions(Tail(events), current_iteration + 1, hi)
            /\ current_iteration < hi
        BY <2>1, <2>h, <2>n, <3>1, DecisionRemoved, HeadIsFirst
      <3>3. hi \in current_iteration + 1 .. decided
        BY <2>1, <2>n, <3>2
      <3> QED
        BY <2>4, <2>h, <3>2, <3>3 DEF DecisionInv, TakeCheckpoint
    <2>5. CASE IgnoreProposal \/ TakeProposal
      <3>1. events # << >> /\ Head(events).kind # "NewCheckpoint"
        BY <2>5 DEF IgnoreProposal, TakeProposal, Listening
      <3>2. Decisions(Tail(events), current_iteration, hi)
        BY <2>1, <2>h, <2>n, <3>1, ProposalRemoved
      <3> QED
        BY <2>5, <2>h, <3>2 DEF DecisionInv, IgnoreProposal, TakeProposal, proposerVars
    <2>6. ASSUME \/ StartIteration \/ DelayUp \/ Propose \/ ActOnProposal \/ TimeoutUp
                 \/ RejectAgain \/ DropVote \/ BootComplete \/ CorePause \/ CoreResume
                 \/ \E p \in Iteration : Resume(p)
                 \/ FusionPanics \/ ProposerPanics
                 \/ UNCHANGED vars
          PROVE  /\ UNCHANGED <<current_iteration, decided, events>>
                 /\ fusing' => fusing
      BY <2>6 DEF StartIteration, DelayUp, Propose, ActOnProposal, TimeoutUp,
                  RejectAgain, DropVote, BootComplete, CorePause, CoreResume, Resume,
                  FusionPanics, ProposerPanics, proposerVars, vars
    <2>7. CASE UNCHANGED <<current_iteration, decided, events>> /\ (fusing' => fusing)
      BY <2>7, <2>h DEF DecisionInv
    <2>8. CASE Decide /\ ~ fusing
      <3>1. /\ UNCHANGED <<current_iteration, events, fusing>>
            /\ decided' = decided + 1
        BY <2>8 DEF Decide, proposerVars
      <3>2. hi \in current_iteration .. decided + 1
        BY <2>1, <2>n
      <3> QED
        BY <2>8, <2>h, <3>1, <3>2 DEF DecisionInv
    <2> QED
      BY <2>2, <2>3, <2>4, <2>5, <2>6, <2>7, <2>8 DEF Next, TakeEvent
  <1> QED
    BY <1>1, <1>2, TypeCorrect, PTL DEF Spec

(* assert!(i == current_iteration) never fires (cpproposer.rs:134, 206, 252).         *)
THEOREM AssertionsHold == Spec => []AssertNeverFires
  <1>1. TypeOK /\ DecisionInv => AssertNeverFires
    <2> SUFFICES ASSUME TypeOK, DecisionInv PROVE AssertNeverFires
      OBVIOUS
    <2>1. /\ events \in Seq(Event) /\ current_iteration \in Nat
          /\ decided \in Nat
      BY ProposerAssumption DEF TypeOK, Iteration
    <2>2. PICK hi \in current_iteration .. decided :
             Decisions(events, current_iteration, hi)
      BY DEF DecisionInv
    <2>3. hi \in Nat
      BY <2>1
    <2> QED
      BY <2>1, <2>2, <2>3, HeadIsFirst DEF AssertNeverFires
  <1> QED
    BY <1>1, TypeCorrect, DecisionInvariant, PTL
=============================================================================
