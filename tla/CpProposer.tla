----------------------------- MODULE CpProposer -----------------------------
(***************************************************************************)
(* One node's checkpoint proposer (mynode/src/cpproposer.rs) with the tasks   *)
(* it talks to: the fusion task that merges the extractor's events with the   *)
(* gossiped proposals, the resumer task of every iteration, and the part of   *)
(* the consensus core that pauses and resumes (consensus/src/core.rs:457).     *)
(*                                                                           *)
(* The proposer is one task; between two awaits it runs alone, and at an await  *)
(* the other tasks may run.  Its position in the code is phase:                 *)
(*                                                                           *)
(*   "start"      top of 'iteration_loop (95)                                   *)
(*   "delay"      waiting for the inter-checkpoint delay (124)                  *)
(*   "propose"    about to propose and to look at stored proposals (154)        *)
(*   "waiting"    waiting for a proposal or the timeout (172)                   *)
(*   "rejecting"  re-sending Reject until the iteration ends (233)              *)
(*   "ended"      panicked: no more events can come (147, 223, 265)              *)
(*                                                                           *)
(* The ledger and the extractor are the environment: they decide the iterations *)
(* 0, 1, 2, ... in order (CpExtractor).  A decision needs this node's consensus  *)
(* to run, which is why a pause that is never lifted would be fatal.             *)
(*                                                                               *)
(* The fusion task panics when it has fallen behind the extractor's broadcast by   *)
(* more than its capacity (56), when a proposal from gossip cannot be decoded (60)  *)
(* and when gossip has ended (74). A panic ends that task only: the queue keeps     *)
(* what is in it, and the proposer panics in its turn when it has emptied it.        *)
(***************************************************************************)
EXTENDS Integers, Sequences

CONSTANTS Self,          \* this node
          Authority,     \* the committee
          Leader,        \* LeaderElector::get_leader: iteration -> authority
          boycott_proposals,
          Block,
          NoCheckpoint,  \* last_checkpoint is None
          NoProposal,    \* no entry in proposals
          NoVote,        \* no vote submitted
          RejectVote,    \* CheckpointAction::Reject; Accept(b) is the block b
          Running,       \* the consensus core is not paused
          MaxIteration,  \* bound: iterations 0 .. MaxIteration
          MaxQueue       \* bound: events waiting when one more proposal arrives

Iteration == 0 .. MaxIteration

Boot == -1               \* the pause of Node::new
PauseId == Iteration \cup {Boot}

ASSUME ProposerAssumption ==
    /\ Self \in Authority
    /\ MaxIteration \in Nat
    /\ MaxQueue \in Nat
    /\ Leader \in [Iteration -> Authority]
    /\ boycott_proposals \in BOOLEAN
    /\ NoCheckpoint \notin Block
    /\ NoProposal \notin Block
    /\ NoVote \notin Block
    /\ RejectVote \notin Block
    /\ NoVote # RejectVote
    /\ Running \notin PauseId

Vote == Block \cup {RejectVote}

(* CheckpointEvent                                                            *)
NewProposal(i, b) == [kind |-> "NewProposal", i |-> i, b |-> b]
NewCheckpoint(i, cp) == [kind |-> "NewCheckpoint", i |-> i, b |-> cp]
Event == [kind : {"NewProposal"}, i : Iteration, b : Block]
           \cup [kind : {"NewCheckpoint"}, i : Iteration, b : Block \cup {NoCheckpoint}]

VARIABLES
    \* the proposer task
    phase, current_iteration, last_checkpoint,
    proposals,    \* proposals[i]: the first proposal for iteration i, or NoProposal
    act_on,       \* rx_proposal_to_act_on, a channel of capacity one
    \* its channels
    events,       \* rx_checkpoint_events_fusioned
    proposed,     \* the proposals this node has gossiped
    cmds,         \* tx_consensus_cmds: the Pause commands not yet taken
    \* the other tasks
    resumer,      \* resumer[p]: what has become of the resumer task of pause p
    core,         \* Running, or the pause that the consensus core is in
    fusing,       \* the fusion task has not panicked
    \* the environment
    decided,      \* how many iterations the extractor has decided
    voted,        \* voted[i]: the last vote this node submitted for iteration i
    pending       \* the votes of this node for undecided iterations that HotStuff
                  \* has neither committed nor dropped

proposerVars == <<phase, current_iteration, last_checkpoint, proposals, act_on>>
coreVars == <<cmds, core>>
voteVars == <<voted, pending>>
vars == <<phase, current_iteration, last_checkpoint, proposals, act_on,
          events, proposed, cmds, resumer, core, fusing, decided, voted, pending>>

-----------------------------------------------------------------------------
Init ==
    /\ phase = "start"
    /\ current_iteration = 0
    /\ last_checkpoint = NoCheckpoint
    /\ proposals = [i \in Iteration |-> NoProposal]
    /\ act_on = << >>
    /\ events = << >>
    /\ proposed = {}
    /\ cmds = <<Boot>>
    /\ resumer = [p \in PauseId |-> IF p = Boot THEN "waiting" ELSE "none"]
    /\ core = Running
    /\ fusing = TRUE
    /\ decided = 0
    /\ voted = [i \in Iteration |-> NoVote]
    /\ pending = {}

(* submit_vote: tx_transactions.send                                           *)
SubmitVote(v) ==
    /\ voted' = [voted EXCEPT ![current_iteration] = v]
    /\ pending' = pending \cup {[i |-> current_iteration, vote |-> v]}

(* tx_trigger_resume.send(()).await.ok(): an error once the resumer is gone,   *)
(* and an await while an earlier () is still in the channel.                    *)
TriggerResume(p) ==
    /\ resumer[p] # "asked"
    /\ resumer' = [resumer EXCEPT ![p] = IF @ = "waiting" THEN "asked" ELSE @]

(* All copies of tx_trigger_resume go out of scope.                            *)
DropTrigger(p) ==
    resumer' = [resumer EXCEPT ![p] = IF @ = "waiting" THEN "asked" ELSE @]

-----------------------------------------------------------------------------
(* Top of the loop: forget the previous proposal, ask consensus to pause and   *)
(* spawn the task that will end the pause.                                      *)
StartIteration ==
    /\ phase = "start"
    /\ current_iteration \in Iteration
    /\ proposals' = [i \in Iteration |->
                       IF i = current_iteration - 1 THEN NoProposal ELSE proposals[i]]
    /\ cmds' = Append(cmds, current_iteration)
    /\ resumer' = [resumer EXCEPT ![current_iteration] = "waiting"]
    /\ phase' = IF last_checkpoint # NoCheckpoint THEN "delay" ELSE "propose"
    /\ UNCHANGED <<current_iteration, last_checkpoint, act_on, events, proposed,
                   core, fusing, decided, voteVars>>

DelayUp ==
    /\ phase = "delay"
    /\ phase' = "propose"
    /\ UNCHANGED <<current_iteration, last_checkpoint, proposals, act_on, events,
                   proposed, coreVars, resumer, fusing, decided, voteVars>>

(* Mutant of StoredProposal: the stored proposal is forgotten.                 *)
MutStoredForgotten == << >>

(* A stored proposal is put into the new channel of this iteration.             *)
StoredProposal == IF proposals[current_iteration] = NoProposal
                  THEN << >> ELSE <<proposals[current_iteration]>>

Propose ==
    /\ phase = "propose"
    /\ IF Leader[current_iteration] = Self /\ ~ boycott_proposals
       THEN \E b \in Block :
              proposed' = proposed \cup {[i |-> current_iteration, b |-> b]}
       ELSE UNCHANGED proposed
    /\ act_on' = StoredProposal
    /\ phase' = "waiting"
    /\ UNCHANGED <<current_iteration, last_checkpoint, proposals, events, coreVars,
                   resumer, fusing, decided, voteVars>>

(* Mutant of ActOnProposal: proposals are still acted on after the timeout.      *)
MutActLate ==
    /\ phase \in {"waiting", "rejecting"}
    /\ act_on # << >>
    /\ SubmitVote(Head(act_on)) \/ SubmitVote(RejectVote)
    /\ act_on' = Tail(act_on)
    /\ UNCHANGED <<phase, current_iteration, last_checkpoint, proposals, events,
                   proposed, coreVars, resumer, fusing, decided>>

(* validate_proposal's answer is the block tree's business.                     *)
ActOnProposal ==
    /\ phase = "waiting"
    /\ act_on # << >>
    /\ TriggerResume(current_iteration)
    /\ \/ SubmitVote(Head(act_on))
       \/ SubmitVote(RejectVote)
    /\ act_on' = Tail(act_on)
    /\ UNCHANGED <<phase, current_iteration, last_checkpoint, proposals, events,
                   proposed, coreVars, fusing, decided>>

(* Mutants of TimeoutUp: the iteration is given up for the next one; consensus    *)
(* is not resumed.                                                                *)
MutTimeoutAbandons ==
    /\ phase = "waiting"
    /\ TriggerResume(current_iteration)
    /\ SubmitVote(RejectVote)
    /\ phase' = "start"
    /\ current_iteration' = current_iteration + 1
    /\ UNCHANGED <<last_checkpoint, proposals, act_on, events, proposed, coreVars,
                   fusing, decided>>

MutTimeoutKeepsPause ==
    /\ phase = "waiting"
    /\ SubmitVote(RejectVote)
    /\ phase' = "rejecting"
    /\ UNCHANGED <<current_iteration, last_checkpoint, proposals, act_on, events,
                   proposed, coreVars, resumer, fusing, decided>>

(* The timeout: resume consensus, and vote Reject for the first time.           *)
TimeoutUp ==
    /\ phase = "waiting"
    /\ TriggerResume(current_iteration)
    /\ SubmitVote(RejectVote)
    /\ phase' = "rejecting"
    /\ UNCHANGED <<current_iteration, last_checkpoint, proposals, act_on, events,
                   proposed, coreVars, fusing, decided>>


(* Every 30 seconds, until the iteration ends.                                   *)
RejectAgain ==
    /\ phase = "rejecting"
    /\ SubmitVote(RejectVote)
    /\ UNCHANGED <<proposerVars, events, proposed, coreVars, resumer, fusing, decided>>

Listening == phase \in {"delay", "waiting", "rejecting"} /\ events # << >>

(* NewCheckpoint: continue 'iteration_loop. What the loop's body owned is dropped. *)
TakeCheckpoint ==
    /\ Listening
    /\ Head(events).kind = "NewCheckpoint"
    /\ events' = Tail(events)
    /\ last_checkpoint' = Head(events).b
    /\ current_iteration' = current_iteration + 1
    /\ phase' = "start"
    /\ act_on' = << >>
    /\ DropTrigger(current_iteration)
    /\ UNCHANGED <<proposals, proposed, coreVars, fusing, decided, voteVars>>

(* Mutant of IsNews: a later proposal replaces an earlier one.                      *)
MutLatestCounts(e) == e.i >= current_iteration

(* Of the proposals for an iteration only the first counts, and one that is too    *)
(* late for its iteration does not count.                                          *)
IsNews(e) == e.i >= current_iteration /\ proposals[e.i] = NoProposal

IgnoreProposal ==
    /\ Listening
    /\ Head(events).kind = "NewProposal"
    /\ ~ IsNews(Head(events))
    /\ events' = Tail(events)
    /\ UNCHANGED <<proposerVars, proposed, coreVars, resumer, fusing, decided, voteVars>>

TakeProposal ==
    /\ Listening
    /\ Head(events).kind = "NewProposal"
    /\ IsNews(Head(events))
    /\ LET e == Head(events) IN
       /\ proposals' = [proposals EXCEPT ![e.i] = e.b]
       /\ IF phase = "waiting" /\ e.i = current_iteration
          THEN Len(act_on) < 1 /\ act_on' = Append(act_on, e.b)
          ELSE UNCHANGED act_on
    /\ events' = Tail(events)
    /\ UNCHANGED <<phase, current_iteration, last_checkpoint, proposed, coreVars,
                   resumer, fusing, decided, voteVars>>

-----------------------------------------------------------------------------
(* The fusion task forwards a gossiped proposal that its iteration's leader      *)
(* signed. A leader other than this node may sign anything, any number of times;  *)
(* what this node signed it has sent, and its own gossip replays it.               *)
FuseProposal ==
    /\ fusing
    /\ Len(events) < MaxQueue
    /\ \E i \in Iteration, b \in Block :
         /\ Leader[i] = Self => [i |-> i, b |-> b] \in proposed
         /\ events' = Append(events, NewProposal(i, b))
    /\ UNCHANGED <<proposerVars, proposed, coreVars, resumer, fusing, decided, voteVars>>

(* Undecodable bytes from a peer, or the lag of a receiver: not this node's doing.  *)
FusionPanics ==
    /\ fusing
    /\ fusing' = FALSE
    /\ UNCHANGED <<proposerVars, events, proposed, coreVars, resumer, decided, voteVars>>

(* recv() returns None once the fusion task is gone and the queue is empty; with the *)
(* proposer the last copy of its trigger goes.                                        *)
ProposerPanics ==
    /\ phase \in {"delay", "waiting", "rejecting"}
    /\ events = << >>
    /\ ~ fusing
    /\ phase' = "ended"
    /\ act_on' = << >>
    /\ DropTrigger(current_iteration)
    /\ UNCHANGED <<current_iteration, last_checkpoint, proposals, events, proposed,
                   coreVars, fusing, decided, voteVars>>

(* The extractor decides the next iteration, and the fusion task forwards the      *)
(* event.                                                                          *)
Decide ==
    /\ decided \in Iteration
    /\ \E cp \in Block \cup {NoCheckpoint} :
          events' = IF fusing THEN Append(events, NewCheckpoint(decided, cp)) ELSE events
    /\ decided' = decided + 1
    /\ pending' = {v \in pending : v.i > decided}
    /\ UNCHANGED <<proposerVars, proposed, coreVars, resumer, fusing, voted>>

(* "HotStuff might sometimes drop an unconfirmed transaction" (230)                *)
DropVote ==
    /\ \E v \in pending : pending' = pending \ {v}
    /\ UNCHANGED <<proposerVars, events, proposed, coreVars, resumer, fusing, decided,
                   voted>>

(* The spawned task of an iteration, and Node::new at the end of its start-up.     *)
Resume(p) ==
    /\ resumer[p] = "asked"
    /\ resumer' = [resumer EXCEPT ![p] = "done"]
    /\ UNCHANGED <<proposerVars, events, proposed, coreVars, fusing, decided, voteVars>>

BootComplete ==
    /\ resumer[Boot] = "waiting"
    /\ resumer' = [resumer EXCEPT ![Boot] = "done"]
    /\ UNCHANGED <<proposerVars, events, proposed, coreVars, fusing, decided, voteVars>>

(* The consensus core takes a Pause command, and then waits for its oneshot.       *)
CorePause ==
    /\ core = Running
    /\ cmds # << >>
    /\ core' = Head(cmds)
    /\ cmds' = Tail(cmds)
    /\ UNCHANGED <<proposerVars, events, proposed, resumer, fusing, decided,
                   voteVars>>

CoreResume ==
    /\ core # Running
    /\ resumer[core] = "done"
    /\ core' = Running
    /\ UNCHANGED <<proposerVars, events, proposed, cmds, resumer, fusing, decided,
                   voteVars>>

TakeEvent == TakeCheckpoint \/ IgnoreProposal \/ TakeProposal

Next == \/ StartIteration \/ DelayUp \/ Propose \/ ActOnProposal
        \/ TimeoutUp \/ RejectAgain \/ TakeEvent
        \/ FuseProposal \/ FusionPanics \/ ProposerPanics \/ Decide \/ DropVote
        \/ \E p \in Iteration : Resume(p)
        \/ BootComplete \/ CorePause \/ CoreResume

Spec == Init /\ [][Next]_vars

(***************************************************************************)
(* Fairness.  Every task runs when it can, and every timer expires.  Of       *)
(* HotStuff and of the other nodes it is assumed that an iteration is decided  *)
(* if, again and again, this node's consensus runs while a Reject of this node  *)
(* is in its hands: the others time out as well.                                *)
(***************************************************************************)
CommitReject == /\ core = Running
                /\ [i |-> decided, vote |-> RejectVote] \in pending
                /\ Decide

Fairness == /\ WF_vars(StartIteration \/ DelayUp \/ Propose \/ TimeoutUp)
            /\ WF_vars(RejectAgain) /\ WF_vars(TakeEvent)
            /\ \A p \in Iteration : WF_vars(Resume(p))
            /\ WF_vars(BootComplete) /\ WF_vars(CorePause \/ CoreResume)
            /\ SF_vars(CommitReject)

FairSpec == Spec /\ Fairness

-----------------------------------------------------------------------------
(***************************************************************************)
(* Properties                                                               *)
(***************************************************************************)

(* The values of the state variables.                                        *)
TypeOK ==
    /\ phase \in {"start", "delay", "propose", "waiting", "rejecting", "ended"}
    /\ current_iteration \in 0 .. MaxIteration + 1
    /\ phase # "start" => current_iteration \in Iteration
    /\ last_checkpoint \in Block \cup {NoCheckpoint}
    /\ proposals \in [Iteration -> Block \cup {NoProposal}]
    /\ act_on \in Seq(Block)
    /\ events \in Seq(Event)
    /\ proposed \subseteq [i : Iteration, b : Block]
    /\ cmds \in Seq(PauseId)
    /\ resumer \in [PauseId -> {"none", "waiting", "asked", "done"}]
    /\ core \in PauseId \cup {Running}
    /\ fusing \in BOOLEAN
    /\ decided \in 0 .. MaxIteration + 1
    /\ voted \in [Iteration -> Vote \cup {NoVote}]
    /\ pending \subseteq [i : Iteration, vote : Vote]

(* assert!(i == current_iteration) at 134, 206 and 252 never fires: the         *)
(* decisions reach the proposer one per iteration, in order, however they         *)
(* interleave with proposals, and no path through the loop skips one.              *)
AssertNeverFires ==
    events # << >> /\ Head(events).kind = "NewCheckpoint" =>
        Head(events).i = current_iteration

(* The proposer never waits for itself: it is the only reader of the channel of    *)
(* capacity one in which it puts the proposal to act on, so a send into a full       *)
(* channel would never return (164-167, 218).                                        *)
NeverBlocksItself ==
    phase = "waiting" /\ events # << >> /\ Head(events).kind = "NewProposal"
        /\ Head(events).i = current_iteration /\ IsNews(Head(events))
    => act_on = << >>

(* A proposal that arrived before its iteration's waiting phase, or in it, has        *)
(* been voted on or is about to be: none is lost between the phases.                   *)
NoProposalLost ==
    phase = "waiting" /\ proposals[current_iteration] # NoProposal =>
        \/ act_on = <<proposals[current_iteration]>>
        \/ voted[current_iteration] # NoVote

(* The votes of one iteration: at most one Accept, of the first proposal the node       *)
(* got from the leader, and nothing but Rejects after a Reject. Votes are only cast       *)
(* for the iteration the node is in.                                                      *)
VoteDiscipline ==
    [][\A i \in Iteration :
          voted'[i] # voted[i] =>
             /\ i = current_iteration
             /\ \/ voted[i] = NoVote
                \/ voted[i] \in Block /\ voted'[i] = RejectVote
             /\ voted'[i] \in Block => voted'[i] = proposals[i]]_vars

(* The consensus core never stays paused: whichever way the iteration goes, and if the    *)
(* proposer panics in the middle of it, the oneshot of its Pause is fired (103-117).       *)
ConsensusResumes == (core # Running) ~> (core = Running)

=============================================================================
