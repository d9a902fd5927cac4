---------------------------- MODULE CpExtractor ----------------------------
(***************************************************************************)
(* The checkpoint extractors (mynode/src/cpextractor.rs) of several nodes,  *)
(* all of them reading the ledger that HotStuff outputs.  An extractor is    *)
(* one task: it takes the transactions from rx_ledger one at a time, keeps    *)
(* the latest vote of every author for the current iteration, and decides     *)
(* the iteration as soon as one of the two thresholds is reached.  There is   *)
(* no await but the recv, so a pass of the vote loop is one action.            *)
(*                                                                           *)
(* The ledger is the environment: HotStuff appends whatever transactions       *)
(* were submitted, by honest or faulty nodes, and every node sees a prefix     *)
(* of the same sequence.                                                       *)
(***************************************************************************)
EXTENDS Integers, Sequences, FiniteSets

CONSTANTS Replica,       \* the nodes that run an extractor
          Author,        \* public keys that appear in transactions
          Committee,     \* the authorities: those that count in committee.size()
          Stake,         \* the stake of each authority
          Block,         \* digests of longest chain blocks
          NoCheckpoint,  \* Option::None of a checkpoint decision
          NoVote,        \* an author without an entry in current_votes
          RejectVote,    \* Vote::Reject; Vote::Accept(b) is the block b itself
          Undecodable,   \* bytes on the ledger that are no CheckpointTransaction
          Submitted,     \* what is ever handed to HotStuff as a transaction
          MaxLedger,     \* bound: length of the ledger
          MaxIteration   \* bound: largest iteration named in a transaction

ASSUME CommitteeAssumption ==
    /\ Committee \subseteq Author
    /\ IsFiniteSet(Committee)
    /\ Committee # {}
    /\ Stake \in [Committee -> Nat]

ASSUME BlockAssumption ==
    /\ NoCheckpoint \notin Block
    /\ RejectVote \notin Block
    /\ NoVote \notin Block
    /\ NoVote # RejectVote

ASSUME BoundAssumption ==
    /\ MaxLedger \in Nat
    /\ MaxIteration \in Nat

Iteration == 0 .. MaxIteration

(* CheckpointAction. A Reject names no block; that of the record is unused.  *)
Action == [kind : {"Accept", "Propose"}, i : Iteration, b : Block]
            \cup [kind : {"Reject"}, i : Iteration]

(* A CheckpointTransaction; signed says whether the signature is the         *)
(* author's, the outcome of Signature::verify.                               *)
Transaction == [author : Author, signed : BOOLEAN, action : Action]

LedgerEntry == Transaction \cup {Undecodable}

ASSUME UndecodableAssumption == Undecodable \notin Transaction
ASSUME SubmittedAssumption == Submitted \subseteq LedgerEntry

Vote == Block \cup {RejectVote}
Decision == Block \cup {NoCheckpoint}

VARIABLES ledger,             \* the transactions of HotStuff's committed blocks
          pos,                \* pos[r]: how many of them r took from rx_ledger
          current_iteration,  \* current_iteration[r]
          current_votes,      \* current_votes[r]: author -> vote, or NoVote
          sent                \* sent[r]: the NewCheckpoint events r has sent

replicaVars == <<pos, current_iteration, current_votes, sent>>
vars == <<ledger, pos, current_iteration, current_votes, sent>>

-----------------------------------------------------------------------------
(* The committee and its thresholds.  The comparisons of floats in the code   *)
(* are those of the integers below: every product 1/3 * n and 2/3 * n rounds  *)
(* to the nearest f32, and up to n = 2^23 that never moves it across an        *)
(* integer, nor off one.                                                       *)

Size == Cardinality(Committee)

HasVotingRights(a) == a \in Committee /\ Stake[a] > 0

NoVotes == [a \in Committee |-> NoVote]

VotersFor(votes, v) == {a \in Committee : votes[a] = v}

AcceptThreshold(votes, b) == 3 * Cardinality(VotersFor(votes, b)) > 2 * Size

RejectThreshold(votes) == 3 * Cardinality(VotersFor(votes, RejectVote)) >= Size

(* Mutant of IsValid: the signature is not checked.                            *)
MutIsValidUnsigned(tx) == tx # Undecodable /\ HasVotingRights(tx.author)

(* Deserialization and CheckpointTransaction::verify_signature.               *)
IsValid(tx) == /\ tx # Undecodable
               /\ HasVotingRights(tx.author)
               /\ tx.signed

(* Mutant of Record: an author's first vote stays.                            *)
MutRecordFirst(votes, i, tx) ==
    IF /\ tx.action.i = i /\ tx.action.kind \in {"Accept", "Reject"}
       /\ votes[tx.author] = NoVote
    THEN [votes EXCEPT ![tx.author] =
              IF tx.action.kind = "Accept" THEN tx.action.b ELSE RejectVote]
    ELSE votes

(* The match on the action: only a vote for this very iteration is recorded,  *)
(* and it replaces an earlier vote of its author.                             *)
Record(votes, i, tx) ==
    IF tx.action.i = i /\ tx.action.kind \in {"Accept", "Reject"}
    THEN [votes EXCEPT ![tx.author] =
              IF tx.action.kind = "Accept" THEN tx.action.b ELSE RejectVote]
    ELSE votes

-----------------------------------------------------------------------------
Init ==
    /\ ledger = << >>
    /\ pos = [r \in Replica |-> 0]
    /\ current_iteration = [r \in Replica |-> 0]
    /\ current_votes = [r \in Replica |-> NoVotes]
    /\ sent = [r \in Replica |-> << >>]

(* HotStuff commits one more transaction; the first node to see it has no     *)
(* other left to read.                                                         *)
Commit(tx) ==
    /\ Len(ledger) < MaxLedger
    /\ \E r \in Replica : pos[r] = Len(ledger)
    /\ ledger' = Append(ledger, tx)
    /\ UNCHANGED replicaVars

(* tx_checkpoint_events.send, then the next iteration starts with no votes.   *)
Emit(r, d) ==
    /\ sent' = [sent EXCEPT
                  ![r] = Append(@, [iteration |-> current_iteration[r], cp |-> d])]
    /\ current_iteration' = [current_iteration EXCEPT ![r] = @ + 1]
    /\ current_votes' = [current_votes EXCEPT ![r] = NoVotes]

(* Mutant of Receive: a channel that drops transactions for a slow reader, like  *)
(* the broadcast channel of the events.                                           *)
MutReceiveLossy(r) ==
    /\ pos[r] < Len(ledger)
    /\ \E p \in pos[r] + 1 .. Len(ledger) : pos' = [pos EXCEPT ![r] = p]
    /\ UNCHANGED ledger

(* rx_ledger.recv: the common part of the three outcomes below.               *)
Receive(r) ==
    /\ pos[r] < Len(ledger)
    /\ pos' = [pos EXCEPT ![r] = @ + 1]
    /\ UNCHANGED ledger

NextTx(r) == ledger[pos[r] + 1]

(* continue 'vote_loop                                                        *)
Skip(r) ==
    /\ Receive(r)
    /\ ~ IsValid(NextTx(r))
    /\ UNCHANGED <<current_iteration, current_votes, sent>>

(* A valid transaction: record the vote, then evaluate the thresholds, those  *)
(* of acceptance first and in whatever order the hash map lists the blocks.   *)
Tally(r) ==
    /\ Receive(r)
    /\ IsValid(NextTx(r))
    /\ LET votes == Record(current_votes[r], current_iteration[r], NextTx(r)) IN
       \/ \E b \in Block : AcceptThreshold(votes, b) /\ Emit(r, b)
       \/ /\ \A b \in Block : ~ AcceptThreshold(votes, b)
          /\ RejectThreshold(votes)
          /\ Emit(r, NoCheckpoint)
       \/ /\ \A b \in Block : ~ AcceptThreshold(votes, b)
          /\ ~ RejectThreshold(votes)
          /\ current_votes' = [current_votes EXCEPT ![r] = votes]
          /\ UNCHANGED <<current_iteration, sent>>

Next == \/ \E tx \in Submitted : Commit(tx)
        \/ \E r \in Replica : Skip(r) \/ Tally(r)

Spec == Init /\ [][Next]_vars

(* The extractor task runs as long as rx_ledger has a transaction for it.     *)
Fairness == \A r \in Replica : WF_vars(Skip(r) \/ Tally(r))

FairSpec == Spec /\ Fairness

-----------------------------------------------------------------------------
(***************************************************************************)
(* Properties                                                               *)
(***************************************************************************)

(* The values of the state variables.                                        *)
TypeOK ==
    /\ ledger \in Seq(LedgerEntry)
    /\ pos \in [Replica -> Nat]
    /\ \A r \in Replica : pos[r] <= Len(ledger)
    /\ current_iteration \in [Replica -> Nat]
    /\ current_votes \in [Replica -> [Committee -> Vote \cup {NoVote}]]
    /\ sent \in [Replica -> Seq([iteration : Nat, cp : Decision])]
    /\ \A r \in Replica : Len(sent[r]) = current_iteration[r]

(* Agreement on checkpoints: whatever two nodes have decided about the same   *)
(* iteration is the same, even though faulty authors change their votes,      *)
(* vote for other iterations and put junk on the ledger, and one node may be   *)
(* any number of transactions behind.  This is what makes LOGacc one log.      *)
Agreement ==
    \A r, s \in Replica : \A k \in 1 .. Len(sent[r]) :
        k <= Len(sent[s]) => sent[r][k] = sent[s][k]

(* The q-th transaction is a signed vote v of a for iteration i.              *)
VoteAt(a, i, v, q) ==
    /\ ledger[q] # Undecodable
    /\ ledger[q].author = a
    /\ ledger[q].signed
    /\ ledger[q].action.i = i
    /\ IF v = RejectVote
       THEN ledger[q].action.kind = "Reject"
       ELSE ledger[q].action.kind = "Accept" /\ ledger[q].action.b = v

(* There is one among the first p transactions.                               *)
VotedOnLedger(a, i, v, p) == \E q \in 1 .. p : VoteAt(a, i, v, q)

(* Evidence for every decision: the k-th event is about iteration k - 1, and  *)
(* in the part of the ledger the node has read, more than two thirds of the     *)
(* authorities signed an Accept of that block in that iteration, or at least a  *)
(* third of them signed a Reject of it.                                          *)
DecisionsHaveEvidence ==
    \A r \in Replica : \A k \in 1 .. Len(sent[r]) :
        LET e == sent[r][k]
            Signers(v) ==
              {a \in Committee :
                  Stake[a] > 0 /\ VotedOnLedger(a, e.iteration, v, pos[r])}
        IN /\ e.iteration = k - 1
           /\ IF e.cp = NoCheckpoint
              THEN 3 * Cardinality(Signers(RejectVote)) >= Cardinality(Committee)
              ELSE 3 * Cardinality(Signers(e.cp)) > 2 * Cardinality(Committee)

(* An iteration never outlives its decision: between two transactions, less    *)
(* than a third of the authorities reject the current iteration and no block   *)
(* has more than two thirds.  A node that waited for one more vote would be     *)
(* an iteration behind the others for ever if that vote never came.             *)
NothingDue ==
    \A r \in Replica :
        /\ 3 * Cardinality({a \in Committee : current_votes[r][a] = RejectVote})
               < Cardinality(Committee)
        /\ \A b \in Block :
              3 * Cardinality({a \in Committee : current_votes[r][a] = b})
                 <= 2 * Cardinality(Committee)

(* A vote that counts is its author's latest: it is on the part of the ledger     *)
(* that the node has read, and no other vote of its author for the iteration comes   *)
(* after it there.  A node that accepted and then timed out counts as rejecting, not  *)
(* as both and not as accepting, and one that votes to and fro for what it said last.  *)
LatestVoteCounts ==
    \A r \in Replica : \A a \in Committee :
        LET v == current_votes[r][a] IN
        v # NoVote =>
            \E p \in 1 .. pos[r] :
                /\ VoteAt(a, current_iteration[r], v, p)
                /\ \A q \in p + 1 .. pos[r] : \A w \in Vote \ {v} :
                      ~ VoteAt(a, current_iteration[r], w, q)

(* The extractors implement the abstract log of decisions: the log is what     *)
(* the most advanced node has sent.                                              *)
Longest == CHOOSE r \in Replica : \A s \in Replica : Len(sent[s]) <= Len(sent[r])

Log == INSTANCE CheckpointLog WITH
          log <- [k \in 1 .. Len(sent[Longest]) |-> sent[Longest][k].cp],
          told <- [r \in Replica |-> Len(sent[r])]

ImplementsCheckpointLog == Log!Spec

(* A decision that one node has taken reaches every node.                        *)
EveryoneDecides ==
    \A i \in Iteration, r \in Replica : \A s \in Replica \ {r} :
        Len(sent[s]) > i ~> Len(sent[r]) > i
=============================================================================
