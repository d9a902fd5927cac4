------------------------------ MODULE HotStuff ------------------------------
(***************************************************************************)
(* The cores of the HotStuff consensus (consensus/src/core.rs) of all honest  *)
(* authorities: rounds, votes, timeouts and the two-chain commit rule.         *)
(*                                                                           *)
(* A block's digest covers its round, its payload and its parent's digest, so  *)
(* a block stands for its whole chain: it is the sequence of the headers from   *)
(* the first block after genesis to itself, and Genesis is << >>.  A quorum     *)
(* certificate is the block it certifies; of a timeout certificate, which       *)
(* carries one high_qc_round per signer, only the largest matters.              *)
(*                                                                           *)
(* Gossip shows every message to everybody, at any time, again and again, or    *)
(* never: votes, timeouts and proposals are sets of what has been sent.  Votes    *)
(* and timeouts that do not complete a quorum change only the aggregator; the    *)
(* step that completes one is an action, whatever was delivered before it.  (A    *)
(* core takes its own vote at once; it completes a quorum only if the others' votes *)
(* came first, and the model then lets one of these come second.)                   *)
(* Honest authorities send neither TC (core.rs:211-221) nor LoopBack                *)
(* (consensus.rs:172-174), but what any peer of the gossip sends is taken as a          *)
(* ConsensusMessage (consensus.rs:153-163), and the core checks nothing of these two.   *)
(* Faulty authorities vote for everything, report any round, and as leaders       *)
(* propose any block they can certify.                                            *)
(***************************************************************************)
EXTENDS Integers, SequencesExt

CONSTANTS Authority, Faulty,
          Stake,      \* Committee::stake
          Leader,     \* LeaderElector::get_leader: round -> authority
          Payload,
          Offered,       \* Offered[r]: what the mempools offer to the leaders of round r
          MayBeMissing,  \* payloads that can be missing when a proposal comes
          NoTC,       \* the block carries no timeout certificate
          MaxRound,   \* bound: no core gets past round MaxRound
          TimerRounds,   \* bound: the rounds in which timers fire
          StrayTCs,      \* bound: the TCs that peers send
          StrayLoopBacks,   \* bound: the blocks that peers send in a LoopBack
          Forging        \* bound: what peers forge: "nothing", "votable" proposals, or "any"

Honest == Authority \ Faulty
Round == 1 .. MaxRound

StakeOf(voters) == MapThenSumSet(LAMBDA a : Stake[a], voters)

(* 2N / 3 + 1, in integers.                                                    *)
quorum_threshold == (2 * StakeOf(Authority)) \div 3 + 1

Quorum == {Q \in SUBSET Authority : StakeOf(Q) >= quorum_threshold}

ASSUME HotStuffAssumption ==
    /\ Faulty \subseteq Authority
    /\ MayBeMissing \subseteq Payload
    /\ Offered \in [Round -> SUBSET Payload]
    /\ Stake \in [Authority -> Nat]
    /\ MaxRound \in Nat \ {0}
    /\ Leader \in [Round -> Authority]
    /\ TimerRounds \subseteq Round
    /\ Forging \in {"nothing", "votable", "any"}

(* Less than a third of the stake is faulty: what QCs are worth.                *)
ASSUME StakeAssumption ==
    IsFiniteSet(Authority) /\ 3 * StakeOf(Faulty) < StakeOf(Authority)

-----------------------------------------------------------------------------
(* Blocks                                                                     *)
Genesis == << >>
Header == [round : Round, payload : Payload]
BlockRound(b) == IF b = Genesis THEN 0 ELSE b[Len(b)].round
Parent(b) == IF b = Genesis THEN Genesis ELSE SubSeq(b, 1, Len(b) - 1)
Extends(b, a) == IsPrefix(a, b)

(* A certificate as the round it is for and the largest of its high_qc_rounds.  *)
TC == [round : Round, high : 0 .. MaxRound - 1]

ASSUME NoTCAssumption == NoTC \notin TC

ASSUME StrayAssumption ==
    StrayTCs \subseteq TC /\ StrayLoopBacks \subseteq Seq(Header) \ {Genesis}

(* ConsensusMessage::Propose                                                   *)
Proposal(b, tc) == [block |-> b, tc |-> tc]

VARIABLES round, last_voted_round, high_qc,
          store,       \* store[n]: the blocks that n has stored
          proposals,   \* the proposals of honest leaders
          votes,       \* the votes of honest authorities
          timeouts,    \* their timeouts
          misled       \* who has ever processed a LoopBack of a peer

vars == <<round, last_voted_round, high_qc, store, proposals, votes, timeouts, misled>>

Init ==
    /\ round = [n \in Honest |-> 1]
    /\ last_voted_round = [n \in Honest |-> 0]
    /\ high_qc = [n \in Honest |-> Genesis]
    /\ store = [n \in Honest |-> {Genesis}]
    /\ proposals = {}
    /\ votes = {}
    /\ timeouts = {}
    /\ misled = {}

-----------------------------------------------------------------------------
(* Certificates.  A vote that its author, as the next leader, hands to itself   *)
(* is not sent to anybody else.                                                  *)
KeptBack(v) == BlockRound(v.block) + 1 \in Round /\ Leader[BlockRound(v.block) + 1] = v.author

VotersSeenBy(n, b) == {v.author : v \in {w \in votes : w.block = b /\ (KeptBack(w) => w.author = n)}}

(* Mutant of HasQuorum: the stake that is missing to the quorum is rounded off.    *)
MutHasQuorum(voters) ==
    StakeOf(voters \cup Faulty) >= quorum_threshold - 1

HasQuorum(voters) == voters \cup Faulty \in Quorum

Voted == {v.block : v \in votes}

(* What anybody can know to be certified: from the votes, or from a proposal.   *)
PublicQC(b) ==
    \/ b = Genesis
    \/ \E p \in proposals : b = Parent(p.block)
    \/ HasQuorum({v.author : v \in {w \in votes : w.block = b /\ ~ KeptBack(w)}})

(* Faulty authorities report whatever high_qc_round is wanted.                   *)
IsTC(tc) ==
    LET atMost == {t \in timeouts : t.round = tc.round /\ t.high <= tc.high}
    IN /\ HasQuorum({t.author : t \in atMost})
       /\ Faulty # {} \/ \E t \in atMost : t.high = tc.high

-----------------------------------------------------------------------------
(* The pacemaker: advance_round and update_high_qc                             *)
Advanced(r, certified) == IF certified >= r THEN certified + 1 ELSE r

HigherQC(qc, hqc) == IF BlockRound(qc) > BlockRound(hqc) THEN qc ELSE hqc

(* Mutant of SafetyRule1: last_voted_round is not looked at.                    *)
MutSafetyRule1(n, b) == TRUE

(* make_vote's safety rules                                                    *)
SafetyRule1(n, b) == BlockRound(b) > last_voted_round[n]

(* Mutant of CanExtend: the high_qc_rounds are not looked at.                   *)
MutCanExtend(b, tc) == tc # NoTC /\ tc.round + 1 = BlockRound(b)

CanExtend(b, tc) ==
    /\ tc # NoTC
    /\ tc.round + 1 = BlockRound(b)
    /\ BlockRound(Parent(b)) >= tc.high

SafetyRule2(b, tc) == BlockRound(Parent(b)) + 1 = BlockRound(b) \/ CanExtend(b, tc)

(* What peers can make of the blocks of honest leaders, with another TC as the digest  *)
(* of a block does not cover it, and faulty leaders of certified blocks and of the       *)
(* timeouts.                                                                             *)
Forged ==
    LET certified == {b \in {Genesis} \cup Voted : PublicQC(b)}
        tcs == {NoTC} \cup {tc \in TC : IsTC(tc)}
        headers == {h \in Header : Leader[h.round] \in Faulty /\ h.payload \in Offered[h.round]}
        all == {Proposal(Append(b, h), tc) : b \in certified, h \in headers, tc \in tcs}
                 \cup {Proposal(p.block, tc) : p \in proposals, tc \in tcs}
    IN {p \in all : \/ Forging = "any"
                    \/ Forging = "votable" /\ SafetyRule2(p.block, p.tc)}

(* The proposals that verify.  An honest leader may have put a peer's TC into its own.    *)
Verified == {p \in proposals : p.tc = NoTC \/ IsTC(p.tc)} \cup Forged

(* process_block once the parent is there; r is the core's round.               *)
StoreAndVote(n, b, r, safe) ==
    /\ store' = [store EXCEPT ![n] = @ \cup {b}]
    /\ IF BlockRound(b) = r /\ SafetyRule1(n, b) /\ safe
       THEN /\ last_voted_round' = [last_voted_round EXCEPT ![n] = BlockRound(b)]
            /\ votes' = votes \cup {[author |-> n, block |-> b]}
       ELSE UNCHANGED <<last_voted_round, votes>>

Suspended == UNCHANGED <<store, last_voted_round, votes>>

ProcessBlock(n, p, r) ==
    IF Parent(p.block) \in store[n]
    THEN StoreAndVote(n, p.block, r, SafetyRule2(p.block, p.tc))
    ELSE Suspended

(* generate_proposal, in round r and on top of qc.                              *)
GenerateProposal(n, r, qc, tc) ==
    IF Leader[r] = n
    THEN \E x \in Offered[r] :
           LET p == Proposal(Append(qc, [round |-> r, payload |-> x]), tc)
           IN /\ proposals' = proposals \cup {p}
              /\ ProcessBlock(n, p, r)
    ELSE UNCHANGED <<proposals, store, last_voted_round, votes>>

-----------------------------------------------------------------------------
(* run() proposes before it receives anything.                                  *)
Booted(n) == Leader[1] = n => \E p \in proposals : BlockRound(p.block) = 1

Boot(n) ==
    /\ ~ Booted(n)
    /\ GenerateProposal(n, 1, Genesis, NoTC)
    /\ UNCHANGED <<round, high_qc, timeouts, misled>>

(* The vote that completes a quorum.                                            *)
HandleVote(n, b) ==
    /\ Booted(n)
    /\ BlockRound(b) >= round[n] /\ BlockRound(b) < MaxRound
    /\ HasQuorum(VotersSeenBy(n, b))
    /\ round' = [round EXCEPT ![n] = Advanced(@, BlockRound(b))]
    /\ high_qc' = [high_qc EXCEPT ![n] = HigherQC(b, @)]
    /\ GenerateProposal(n, round'[n], high_qc'[n], NoTC)
    /\ UNCHANGED <<timeouts, misled>>

(* Mutant of HandleTimeout: the next leader waits for a QC to propose.          *)
MutHandleTimeout(n, tc) ==
    /\ Booted(n)
    /\ tc.round >= round[n] /\ tc.round < MaxRound
    /\ IsTC(tc)
    /\ round' = [round EXCEPT ![n] = Advanced(@, tc.round)]
    /\ UNCHANGED <<last_voted_round, high_qc, store, proposals, votes, timeouts, misled>>

(* The timeout that completes a quorum.                                         *)
HandleTimeout(n, tc) ==
    /\ Booted(n)
    /\ tc.round >= round[n] /\ tc.round < MaxRound
    /\ IsTC(tc)
    /\ round' = [round EXCEPT ![n] = Advanced(@, tc.round)]
    /\ GenerateProposal(n, round'[n], high_qc[n], tc)
    /\ UNCHANGED <<high_qc, timeouts, misled>>

(* handle_tc, of a TC that a peer sends: it is not verified, and one of an earlier       *)
(* round makes the leader of the round propose again.                                      *)
HandleTC(n, tc) ==
    /\ Booted(n)
    /\ tc.round < MaxRound
    /\ round' = [round EXCEPT ![n] = Advanced(@, tc.round)]
    /\ GenerateProposal(n, round'[n], high_qc[n], tc)
    /\ UNCHANGED <<high_qc, timeouts, misled>>

(* The QC and the TC of a proposal are processed at once; the block may have to  *)
(* wait, for its payload or for its parent.  The LoopBack that ends the wait has    *)
(* the effect of another delivery, as the QC and the TC then change nothing.         *)
HandleProposal(n, p) ==
    /\ Booted(n)
    /\ round' = [round EXCEPT ![n] =
                   LET r == Advanced(@, BlockRound(Parent(p.block)))
                   IN IF p.tc = NoTC THEN r ELSE Advanced(r, p.tc.round)]
    /\ round'[n] \in Round
    /\ high_qc' = [high_qc EXCEPT ![n] = HigherQC(Parent(p.block), @)]
    /\ \/ ProcessBlock(n, p, round'[n])
       \/ p.block[Len(p.block)].payload \in MayBeMissing /\ Suspended
    /\ UNCHANGED <<proposals, timeouts, misled>>

(* A leader's own block can only wait for its parent.  The LoopBack that ends this      *)
(* wait is not verified either, and the TC in it may be a peer's.                          *)
ResumeOwn(n, p) ==
    /\ Booted(n)
    /\ Leader[BlockRound(p.block)] = n
    /\ ProcessBlock(n, p, round[n])
    /\ UNCHANGED <<round, high_qc, proposals, timeouts, misled>>

(* The LoopBack of a peer: process_block of a block whose leader, signature, QC, TC and   *)
(* payload nobody has looked at.  The digest of the block covers neither the round of       *)
(* its QC nor its TC, so that the peer chooses what SafetyRule2 says.                          *)
HandleLoopBack(n, b) ==
    /\ Booted(n)
    /\ Parent(b) \in store[n]
    /\ \E safe \in BOOLEAN : StoreAndVote(n, b, round[n], safe)
    /\ misled' = misled \cup {n}
    /\ UNCHANGED <<round, high_qc, proposals, timeouts>>

(* The timer may fire in any round, and again in the same round.                 *)
LocalTimeout(n) ==
    /\ Booted(n)
    /\ round[n] \in TimerRounds
    /\ last_voted_round' = [last_voted_round EXCEPT ![n] = Max({@, round[n]})]
    /\ timeouts' = timeouts \cup {[author |-> n, round |-> round[n],
                                   high |-> BlockRound(high_qc[n])]}
    /\ UNCHANGED <<round, high_qc, store, proposals, votes, misled>>

(* What the core of n can do                                                     *)
Step(n) ==
    \/ Boot(n)
    \/ \E b \in Voted : HandleVote(n, b)
    \/ \E tc \in TC : HandleTimeout(n, tc)
    \/ \E tc \in StrayTCs : HandleTC(n, tc)
    \/ \E p \in Verified : HandleProposal(n, p)
    \/ \E p \in proposals : ResumeOwn(n, p)
    \/ \E b \in StrayLoopBacks : HandleLoopBack(n, b)
    \/ LocalTimeout(n)

Next == \E n \in Honest : Step(n)

Spec == Init /\ [][Next]_vars

(* Every core gets its turns, gossip delivers what honest authorities send, and every    *)
(* timer expires.  What peers add is never sure to come.                                   *)
FairSpec ==
    /\ Spec
    /\ \A n \in Honest :
          /\ WF_vars(Boot(n))
          /\ WF_vars(\E b \in Voted : HandleVote(n, b))
          /\ WF_vars(\E tc \in TC : HandleTimeout(n, tc))
          /\ WF_vars(\E p \in Verified : HandleProposal(n, p))
          /\ WF_vars(\E p \in proposals : ResumeOwn(n, p))
          /\ WF_vars(LocalTimeout(n))

-----------------------------------------------------------------------------
(* process_block commits the grandparent of a stored block when the rounds of   *)
(* the parent and the grandparent are consecutive.                               *)
Committed(n) == {Parent(Parent(b)) : b \in {c \in store[n] :
                   BlockRound(Parent(Parent(c))) + 1 = BlockRound(Parent(c))}}

TypeOK ==
    /\ round \in [Honest -> Round]
    /\ last_voted_round \in [Honest -> 0 .. MaxRound]
    /\ high_qc \in [Honest -> Seq(Header)]
    /\ store \in [Honest -> SUBSET Seq(Header)]
    /\ proposals \subseteq [block : Seq(Header), tc : TC \cup {NoTC}]
    /\ votes \subseteq [author : Honest, block : Seq(Header)]
    /\ timeouts \subseteq [author : Honest, round : Round, high : 0 .. MaxRound - 1]
    /\ misled \subseteq Honest

(* What a quorum needs to be worth something.                                    *)
FewMisled == 3 * StakeOf(Faulty \cup misled) < StakeOf(Authority)

OnOneChain ==
    \A n, m \in Honest \ misled : \A b \in Committed(n), c \in Committed(m) :
        Extends(b, c) \/ Extends(c, b)

(* All that honest authorities commit lies on one chain, whatever faulty leaders         *)
(* propose, with whatever TCs peers make the cores change their rounds and their leaders    *)
(* propose again, and in whatever order messages come: the two-chain rule of process_block    *)
(* (core.rs:303) commits nothing that another node abandons.  Those who have processed a        *)
(* peer's LoopBack (core.rs:453) count with the faulty.                                            *)
CommitsAgree == FewMisled => OnOneChain

Certified(b) == HasQuorum({v.author : v \in {w \in votes : w.block = b}})

(* "Ensure we won't vote for contradicting blocks." (core.rs:128): an honest authority   *)
(* gives one vote in a round, although it is shown two blocks, votes for blocks that were  *)
(* suspended, its timer fires in between, and peers send it TCs and unverified blocks.       *)
OneVotePerRound ==
    \A v, w \in votes :
        v.author = w.author /\ BlockRound(v.block) = BlockRound(w.block) => v = w

LocksHold ==
    \A b, c \in Voted :
        /\ Certified(b) /\ Certified(c)
        /\ BlockRound(Parent(b)) + 1 = BlockRound(b)
        /\ BlockRound(c) > BlockRound(b)
        => Extends(c, Parent(b))

(* Once two blocks of consecutive rounds are certified, one on top of the other,  *)
(* every block that is certified in a later round extends the first: a quorum       *)
(* carries its QC into every timeout certificate, and make_vote compares the two      *)
(* (core.rs:108-127).  Of what is not verified, a TC breaks no lock, as nobody but the   *)
(* leader who proposes with it votes for it; who has voted for a peer's LoopBack counts    *)
(* with the faulty.                                                                           *)
LockedBlocksStay == FewMisled => LocksHold

(* "We should have all ancestors of delivered blocks" (synchronizer.rs:157), and   *)
(* the walk of analyze_block to genesis finds every parent (mynode.rs:240): blocks    *)
(* that came before their parents wait for them.                                       *)
AncestorsStored == \A n \in Honest : \A b \in store[n] : Parent(b) \in store[n]

(* Whoever has not processed a peer's LoopBack votes only for blocks of later rounds than *)
(* their parents', whatever QC and TC a faulty leader combines: analyze_block (mynode.rs:216) *)
(* tells the blocks it has processed by their rounds, and the rounds of a block and its QC        *)
(* are compared only by way of the round of the core (core.rs:345).                                  *)
RoundsIncrease ==
    \A v \in votes : v.author \notin misled => BlockRound(Parent(v.block)) < BlockRound(v.block)

(* With honest leaders and timers that fire only in the first rounds (TimerRounds),   *)
(* every node commits the block of a round after them, although the vote that the next *)
(* leader gives is seen by nobody else.                                                 *)
EveryoneCommits ==
    <>(\A n \in Honest : \E b \in Committed(n) : BlockRound(b) = MaxRound - 2)
=============================================================================
