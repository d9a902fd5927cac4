------------------------- MODULE CpExtractorProofs -------------------------
(***************************************************************************)
(* Proofs about the checkpoint extractors, for every committee, every number *)
(* of nodes and every ledger: they agree, every decision has its evidence on  *)
(* the ledger, and together they implement the one log of CheckpointLog.       *)
(***************************************************************************)
EXTENDS CpExtractor, FiniteSetTheorems, SequenceTheorems, TLAPS

Event == [iteration : Nat, cp : Decision]
Votes == [Committee -> Vote \cup {NoVote}]

-----------------------------------------------------------------------------
(* The thresholds.                                                            *)

(* Any set of voters is a finite part of the committee.                       *)
LEMMA VotersFinite ==
    ASSUME NEW votes, NEW v
    PROVE  /\ IsFiniteSet(VotersFor(votes, v))
           /\ Cardinality(VotersFor(votes, v)) \in Nat
           /\ Cardinality(VotersFor(votes, v)) <= Size
           /\ Size \in Nat
  <1>1. VotersFor(votes, v) \subseteq Committee
    BY DEF VotersFor
  <1> QED
    BY <1>1, FS_Subset, FS_CardinalityType, CommitteeAssumption DEF Size

(* Two different votes cannot have more than the whole committee together.    *)
LEMMA VotersDisjoint ==
    ASSUME NEW votes, NEW v, NEW w, v # w
    PROVE  Cardinality(VotersFor(votes, v)) + Cardinality(VotersFor(votes, w)) <= Size
  <1> DEFINE V == VotersFor(votes, v)
             W == VotersFor(votes, w)
  <1>1. IsFiniteSet(V) /\ IsFiniteSet(W)
    BY VotersFinite
  <1>2. V \cap W = {}
    BY DEF VotersFor
  <1>3. V \cup W \subseteq Committee
    BY DEF VotersFor
  <1>4. Cardinality(V \cup W) = Cardinality(V) + Cardinality(W)
    <2>1. Cardinality(V \cup W)
             = Cardinality(V) + Cardinality(W) - Cardinality(V \cap W)
      BY <1>1, FS_Union
    <2>2. Cardinality(V \cap W) = 0
      BY <1>2, FS_EmptySet
    <2> QED
      BY <2>1, <2>2, <1>1, FS_CardinalityType
  <1>5. Cardinality(V \cup W) <= Size
    BY <1>3, FS_Subset, CommitteeAssumption DEF Size
  <1> QED
    BY <1>4, <1>5

(* At most one block is due: the order in which the hash map lists the blocks  *)
(* (cpextractor.rs:72-85) does not matter.                                      *)
LEMMA AcceptUnique ==
    ASSUME NEW votes, NEW b, NEW c,
           AcceptThreshold(votes, b), AcceptThreshold(votes, c)
    PROVE  b = c
  <1> SUFFICES ASSUME b # c PROVE FALSE
    OBVIOUS
  <1>1. Cardinality(VotersFor(votes, b)) + Cardinality(VotersFor(votes, c)) <= Size
    BY VotersDisjoint
  <1> QED
    BY <1>1, VotersFinite DEF AcceptThreshold

(* Acceptance and rejection exclude each other.                                 *)
LEMMA AcceptExcludesReject ==
    ASSUME NEW votes, NEW b \in Block, AcceptThreshold(votes, b)
    PROVE  ~ RejectThreshold(votes)
  <1>1. b # RejectVote
    BY BlockAssumption
  <1>2. Cardinality(VotersFor(votes, b)) + Cardinality(VotersFor(votes, RejectVote)) <= Size
    BY <1>1, VotersDisjoint
  <1> QED
    BY <1>2, VotersFinite DEF AcceptThreshold, RejectThreshold

(* Without votes nothing is due.                                                *)
LEMMA NoVotesNothingDue ==
    /\ ~ RejectThreshold(NoVotes)
    /\ \A b \in Block : ~ AcceptThreshold(NoVotes, b)
  <1>1. \A v \in Vote : VotersFor(NoVotes, v) = {}
    BY BlockAssumption DEF VotersFor, NoVotes, Vote
  <1>2. \A v \in Vote : Cardinality(VotersFor(NoVotes, v)) = 0
    BY <1>1, FS_EmptySet
  <1>3. Size \in Nat /\ Size > 0
    BY CommitteeAssumption, FS_CardinalityType, FS_EmptySet DEF Size
  <1> QED
    BY <1>2, <1>3 DEF AcceptThreshold, RejectThreshold, Vote

-----------------------------------------------------------------------------
(* The types of the helpers.                                                    *)

(* A transaction that is taken as valid has an author with a vote and an action.  *)
LEMMA EntryTypes ==
    ASSUME NEW tx \in LedgerEntry, IsValid(tx)
    PROVE  /\ tx.author \in Committee
           /\ tx.action \in Action
           /\ tx.action.kind = "Accept" => tx.action.b \in Block
  BY DEF LedgerEntry, IsValid, HasVotingRights, Transaction, Action

(* Record keeps one vote or none for every authority.                           *)
LEMMA RecordType ==
    ASSUME NEW votes \in Votes, NEW i, NEW tx \in LedgerEntry, IsValid(tx)
    PROVE  Record(votes, i, tx) \in Votes
  <1>1. CASE tx.action.kind = "Accept"
    BY <1>1, EntryTypes DEF Record, Votes, Vote
  <1>2. CASE tx.action.kind # "Accept"
    BY <1>2, EntryTypes DEF Record, Votes, Vote
  <1> QED
    BY <1>1, <1>2

(* So does the empty map of votes.                                              *)
LEMMA NoVotesType == NoVotes \in Votes
  BY DEF NoVotes, Votes

-----------------------------------------------------------------------------
(***************************************************************************)
(* One transaction moves an extractor from one state to one other: the       *)
(* choice that Tally leaves to the hash map is no choice.                     *)
(***************************************************************************)

State == [it : Nat, votes : Votes, sent : Seq(Event)]

View(r) == [it    |-> current_iteration[r],
            votes |-> current_votes[r],
            sent  |-> sent[r]]

Decided(st, d) == [it    |-> st.it + 1,
                   votes |-> NoVotes,
                   sent  |-> Append(st.sent, [iteration |-> st.it, cp |-> d])]

After(st, votes) ==
    IF \E b \in Block : AcceptThreshold(votes, b)
    THEN Decided(st, CHOOSE b \in Block : AcceptThreshold(votes, b))
    ELSE IF RejectThreshold(votes)
         THEN Decided(st, NoCheckpoint)
         ELSE [it |-> st.it, votes |-> votes, sent |-> st.sent]

StepOf(st, tx) ==
    IF IsValid(tx) THEN After(st, Record(st.votes, st.it, tx)) ELSE st

(* A decision appends one event, about the iteration that it closes.             *)
LEMMA DecidedType ==
    ASSUME NEW st \in State, NEW d \in Decision
    PROVE  /\ Decided(st, d) \in State
           /\ Len(Decided(st, d).sent) = Len(st.sent) + 1
           /\ \A k \in 1 .. Len(st.sent) : Decided(st, d).sent[k] = st.sent[k]
           /\ Decided(st, d).sent[Len(st.sent) + 1] = [iteration |-> st.it, cp |-> d]
           /\ Decided(st, d).it = st.it + 1
           /\ Len(st.sent) \in Nat
  <1>1. [iteration |-> st.it, cp |-> d] \in Event
    BY DEF State, Event
  <1>2. st.sent \in Seq(Event) /\ st.it \in Nat
    BY DEF State
  <1> QED
    BY <1>1, <1>2, NoVotesType DEF Decided, State

(* A decision extends what was sent and opens the next iteration.               *)
LEMMA DecidedMore ==
    ASSUME NEW st \in State, NEW d \in Decision, NEW next, next = Decided(st, d)
    PROVE  /\ next \in State
           /\ Len(next.sent) >= Len(st.sent)
           /\ \A k \in 1 .. Len(st.sent) : next.sent[k] = st.sent[k]
           /\ Len(st.sent) = st.it => Len(next.sent) = next.it
  <1>1. /\ next \in State
        /\ Len(next.sent) = Len(st.sent) + 1
        /\ next.it = st.it + 1
        /\ Len(st.sent) \in Nat
    BY DecidedType
  <1>2. \A k \in 1 .. Len(st.sent) : next.sent[k] = st.sent[k]
    BY DecidedType
  <1> QED
    BY <1>1, <1>2

(* A transaction never takes back an event, and keeps one event per iteration.   *)
LEMMA StepType ==
    ASSUME NEW st \in State, NEW tx \in LedgerEntry
    PROVE  /\ StepOf(st, tx) \in State
           /\ Len(StepOf(st, tx).sent) >= Len(st.sent)
           /\ \A k \in 1 .. Len(st.sent) : StepOf(st, tx).sent[k] = st.sent[k]
           /\ Len(st.sent) = st.it => Len(StepOf(st, tx).sent) = StepOf(st, tx).it
  <1> DEFINE votes == Record(st.votes, st.it, tx)
  <1>0. st.votes \in Votes /\ st.it \in Nat /\ st.sent \in Seq(Event)
    BY DEF State
  <1>1. CASE ~ IsValid(tx)
    BY <1>0, <1>1 DEF StepOf
  <1>2. CASE IsValid(tx) /\ \E b \in Block : AcceptThreshold(votes, b)
    <2> DEFINE d == CHOOSE b \in Block : AcceptThreshold(votes, b)
    <2>1. d \in Decision
      BY <1>2 DEF Decision
    <2>2. StepOf(st, tx) = Decided(st, d)
      BY <1>2 DEF StepOf, After
    <2> HIDE DEF d
    <2> QED
      BY <2>1, <2>2, DecidedMore
  <1>3. CASE /\ IsValid(tx)
             /\ ~ \E b \in Block : AcceptThreshold(votes, b)
             /\ RejectThreshold(votes)
    <2>1. NoCheckpoint \in Decision
      BY DEF Decision
    <2>2. StepOf(st, tx) = Decided(st, NoCheckpoint)
      BY <1>3 DEF StepOf, After
    <2> QED
      BY <2>1, <2>2, DecidedMore
  <1>4. CASE /\ IsValid(tx)
             /\ ~ \E b \in Block : AcceptThreshold(votes, b)
             /\ ~ RejectThreshold(votes)
    <2>1. StepOf(st, tx) = [it |-> st.it, votes |-> votes, sent |-> st.sent]
      BY <1>4 DEF StepOf, After
    <2>2. votes \in Votes
      BY <1>0, <1>4, RecordType
    <2> QED
      BY <1>0, <2>1, <2>2 DEF State
  <1> QED
    BY <1>1, <1>2, <1>3, <1>4

(* A step of extractor r is StepOf on r, and leaves the others alone.          *)
LEMMA ProcessIsStep ==
    ASSUME TypeOK, NEW r \in Replica, Skip(r) \/ Tally(r)
    PROVE  /\ pos[r] < Len(ledger) /\ pos' = [pos EXCEPT ![r] = @ + 1]
           /\ ledger' = ledger
           /\ NextTx(r) \in LedgerEntry
           /\ View(r)' = StepOf(View(r), NextTx(r))
           /\ \A s \in Replica \ {r} : View(s)' = View(s)
           /\ current_iteration' = [current_iteration EXCEPT ![r] = View(r)'.it]
           /\ current_votes' = [current_votes EXCEPT ![r] = View(r)'.votes]
           /\ sent' = [sent EXCEPT ![r] = View(r)'.sent]
  <1> DEFINE tx == NextTx(r)
             votes == Record(current_votes[r], current_iteration[r], tx)
  <1>1. /\ pos[r] < Len(ledger) /\ pos' = [pos EXCEPT ![r] = @ + 1]
        /\ ledger' = ledger
    BY DEF Skip, Tally, Receive
  <1>2. tx \in LedgerEntry
    BY <1>1 DEF TypeOK, NextTx
  <1>3. CASE Skip(r)
    <2>1. /\ ~ IsValid(tx)
          /\ current_iteration' = current_iteration
          /\ current_votes' = current_votes
          /\ sent' = sent
      BY <1>3 DEF Skip
    <2> QED
      BY <1>1, <1>2, <2>1 DEF TypeOK, View, StepOf
  <1>4. CASE Tally(r)
    <2>0. IsValid(tx)
      BY <1>4 DEF Tally
    <2>1. /\ View(r).votes = current_votes[r]
          /\ View(r).it = current_iteration[r]
          /\ View(r).sent = sent[r]
      BY DEF View
    <2>2. StepOf(View(r), tx) = After(View(r), votes)
      BY <2>0, <2>1 DEF StepOf
    <2>3. ASSUME NEW d, Emit(r, d), After(View(r), votes) = Decided(View(r), d)
          PROVE  /\ View(r)' = StepOf(View(r), tx)
                 /\ \A s \in Replica \ {r} : View(s)' = View(s)
                 /\ current_iteration' = [current_iteration EXCEPT ![r] = View(r)'.it]
                 /\ current_votes' = [current_votes EXCEPT ![r] = View(r)'.votes]
                 /\ sent' = [sent EXCEPT ![r] = View(r)'.sent]
      <3>1. /\ sent' = [sent EXCEPT
                          ![r] = Append(sent[r], [iteration |-> current_iteration[r], cp |-> d])]
            /\ current_iteration' = [current_iteration EXCEPT ![r] = current_iteration[r] + 1]
            /\ current_votes' = [current_votes EXCEPT ![r] = NoVotes]
        BY <2>3 DEF Emit
      <3>2. View(r)' = Decided(View(r), d)
        BY <3>1 DEF View, Decided, TypeOK
      <3> QED
        BY <2>2, <2>3, <3>1, <3>2 DEF View, TypeOK
    <2>4. CASE \E b \in Block : AcceptThreshold(votes, b) /\ Emit(r, b)
      <3>1. PICK b \in Block : AcceptThreshold(votes, b) /\ Emit(r, b)
        BY <2>4
      <3>2. (CHOOSE c \in Block : AcceptThreshold(votes, c)) = b
        <4> DEFINE c == CHOOSE c \in Block : AcceptThreshold(votes, c)
        <4>1. AcceptThreshold(votes, c)
          BY <3>1
        <4> QED
          BY <3>1, <4>1, AcceptUnique
      <3>3. After(View(r), votes) = Decided(View(r), b)
        BY <3>1, <3>2 DEF After
      <3> QED
        BY <1>1, <1>2, <2>3, <3>1, <3>3
    <2>5. CASE /\ \A b \in Block : ~ AcceptThreshold(votes, b)
               /\ RejectThreshold(votes)
               /\ Emit(r, NoCheckpoint)
      <3>1. After(View(r), votes) = Decided(View(r), NoCheckpoint)
        BY <2>5 DEF After
      <3> QED
        BY <1>1, <1>2, <2>3, <2>5, <3>1
    <2>6. CASE /\ \A b \in Block : ~ AcceptThreshold(votes, b)
               /\ ~ RejectThreshold(votes)
               /\ current_votes' = [current_votes EXCEPT ![r] = votes]
               /\ UNCHANGED <<current_iteration, sent>>
      <3>1. After(View(r), votes)
               = [it |-> View(r).it, votes |-> votes, sent |-> View(r).sent]
        BY <2>6 DEF After
      <3>2. View(r)' = [it |-> View(r).it, votes |-> votes, sent |-> View(r).sent]
        BY <2>6 DEF View, TypeOK
      <3> QED
        BY <1>1, <1>2, <2>2, <2>6, <3>1, <3>2 DEF View, TypeOK
    <2> QED
      BY <1>4, <2>4, <2>5, <2>6 DEF Tally
  <1> QED
    BY <1>3, <1>4

-----------------------------------------------------------------------------
(***************************************************************************)
(* Type correctness.                                                         *)
(***************************************************************************)

(* The state of one extractor is a State with one event per iteration.           *)
LEMMA ViewType ==
    ASSUME TypeOK, NEW r \in Replica
    PROVE  View(r) \in State /\ Len(View(r).sent) = View(r).it
  BY DEF TypeOK, View, State, Votes, Event

(* The state variables keep their types, and a node has sent exactly one event  *)
(* per iteration it has finished (cpextractor.rs:39-92).                         *)
THEOREM TypeCorrect == Spec => []TypeOK
  <1>1. Init => TypeOK
    BY NoVotesType DEF Init, TypeOK, Votes
  <1>2. TypeOK /\ [Next]_vars => TypeOK'
    <2> SUFFICES ASSUME TypeOK, [Next]_vars PROVE TypeOK'
      OBVIOUS
    <2>1. ASSUME NEW tx \in Submitted, Commit(tx) PROVE TypeOK'
      <3>1. tx \in LedgerEntry
        BY SubmittedAssumption
      <3>2. ledger' = Append(ledger, tx) /\ UNCHANGED replicaVars
        BY <2>1 DEF Commit
      <3>3. ledger' \in Seq(LedgerEntry) /\ Len(ledger') = Len(ledger) + 1
        BY <3>1, <3>2 DEF TypeOK
      <3>4. \A r \in Replica : pos'[r] <= Len(ledger')
        <4>1. /\ pos' = pos /\ pos \in [Replica -> Nat] /\ Len(ledger) \in Nat
              /\ \A r \in Replica : pos[r] <= Len(ledger)
          BY <3>2 DEF TypeOK, replicaVars
        <4> QED
          BY <3>3, <4>1
      <3> QED
        BY <3>2, <3>3, <3>4 DEF TypeOK, replicaVars
    <2>2. ASSUME NEW r \in Replica, Skip(r) \/ Tally(r) PROVE TypeOK'
      <3>1. View(r) \in State /\ Len(View(r).sent) = View(r).it
        BY ViewType
      <3>2. /\ View(r)' \in State
            /\ Len(View(r)'.sent) = View(r)'.it
        BY <2>2, <3>1, ProcessIsStep, StepType
      <3>3. /\ View(r)'.it \in Nat
            /\ View(r)'.votes \in Votes
            /\ View(r)'.sent \in Seq(Event)
        BY <3>2 DEF State
      <3>4. /\ ledger' \in Seq(LedgerEntry)
            /\ pos' \in [Replica -> Nat]
            /\ \A s \in Replica : pos'[s] <= Len(ledger')
        <4>1. /\ pos[r] < Len(ledger) /\ pos' = [pos EXCEPT ![r] = pos[r] + 1]
              /\ ledger' = ledger
          BY <2>2, ProcessIsStep
        <4>2. /\ ledger \in Seq(LedgerEntry) /\ pos \in [Replica -> Nat]
              /\ \A s \in Replica : pos[s] <= Len(ledger)
              /\ Len(ledger) \in Nat
          BY DEF TypeOK
        <4> QED
          BY <4>1, <4>2
      <3>5. /\ current_iteration' \in [Replica -> Nat]
            /\ current_votes' \in [Replica -> [Committee -> Vote \cup {NoVote}]]
            /\ sent' \in [Replica -> Seq([iteration : Nat, cp : Decision])]
        <4>1. /\ current_iteration' = [current_iteration EXCEPT ![r] = View(r)'.it]
              /\ current_votes' = [current_votes EXCEPT ![r] = View(r)'.votes]
              /\ sent' = [sent EXCEPT ![r] = View(r)'.sent]
          BY <2>2, ProcessIsStep
        <4>2. current_iteration' \in [Replica -> Nat]
          BY <3>3, <4>1 DEF TypeOK
        <4>3. current_votes' \in [Replica -> [Committee -> Vote \cup {NoVote}]]
          BY <3>3, <4>1 DEF TypeOK, Votes
        <4>4. sent' \in [Replica -> Seq([iteration : Nat, cp : Decision])]
          BY <3>3, <4>1 DEF TypeOK, Event
        <4> QED
          BY <4>2, <4>3, <4>4
      <3>6. \A s \in Replica : Len(sent'[s]) = current_iteration'[s]
        <4>1. /\ current_iteration' = [current_iteration EXCEPT ![r] = View(r)'.it]
              /\ sent' = [sent EXCEPT ![r] = View(r)'.sent]
          BY <2>2, ProcessIsStep
        <4>2. /\ current_iteration \in [Replica -> Nat]
              /\ DOMAIN sent = Replica
              /\ \A s \in Replica : Len(sent[s]) = current_iteration[s]
          BY DEF TypeOK
        <4> QED
          BY <3>2, <4>1, <4>2
      <3> QED
        BY <3>4, <3>5, <3>6 DEF TypeOK
    <2>3. CASE UNCHANGED vars
      BY <2>3 DEF TypeOK, vars
    <2> QED
      BY <2>1, <2>2, <2>3 DEF Next
  <1> QED
    BY <1>1, <1>2, PTL DEF Spec

-----------------------------------------------------------------------------
(***************************************************************************)
(* No decision is left undone.                                               *)
(***************************************************************************)

Quiet(votes) == /\ ~ RejectThreshold(votes)
                /\ \A b \in Block : ~ AcceptThreshold(votes, b)

(* NothingDue says of every extractor that no threshold is reached.              *)
LEMMA QuietIsNothingDue ==
    NothingDue <=> \A r \in Replica : Quiet(current_votes[r])
  <1>1. NothingDue <=>
          \A r \in Replica :
             /\ 3 * Cardinality(VotersFor(current_votes[r], RejectVote)) < Size
             /\ \A b \in Block :
                   3 * Cardinality(VotersFor(current_votes[r], b)) <= 2 * Size
    BY DEF NothingDue, VotersFor, Size
  <1>2. \A votes, v : Cardinality(VotersFor(votes, v)) \in Nat /\ Size \in Nat
    BY VotersFinite
  <1> QED
    BY <1>1, <1>2 DEF Quiet, RejectThreshold, AcceptThreshold

(* The same of the next state, in the direction that is needed.                  *)
LEMMA QuietAtNextState ==
    ASSUME \A r \in Replica : Quiet(current_votes'[r])
    PROVE  NothingDue'
  <1>1. NothingDue' <=>
          \A r \in Replica :
             /\ 3 * Cardinality(VotersFor(current_votes'[r], RejectVote)) < Size
             /\ \A b \in Block :
                   3 * Cardinality(VotersFor(current_votes'[r], b)) <= 2 * Size
    BY DEF NothingDue, VotersFor, Size
  <1>2. \A votes, v : Cardinality(VotersFor(votes, v)) \in Nat /\ Size \in Nat
    BY VotersFinite
  <1> QED
    BY <1>1, <1>2 DEF Quiet, RejectThreshold, AcceptThreshold

(* After a transaction no threshold is reached: the votes that reached one are    *)
(* gone with their iteration.                                                    *)
LEMMA StepQuiet ==
    ASSUME NEW st \in State, NEW tx, Quiet(st.votes)
    PROVE  Quiet(StepOf(st, tx).votes)
  <1> DEFINE votes == Record(st.votes, st.it, tx)
  <1>1. CASE ~ IsValid(tx)
    BY <1>1 DEF StepOf
  <1>2. CASE IsValid(tx)
    <2>1. StepOf(st, tx) = After(st, votes)
      BY <1>2 DEF StepOf
    <2> HIDE DEF votes
    <2>2. Quiet(After(st, votes).votes)
      BY NoVotesNothingDue DEF After, Decided, Quiet
    <2> QED
      BY <2>1, <2>2
  <1> QED
    BY <1>1, <1>2

(* Between two transactions no threshold is reached (cpextractor.rs:70-90).     *)
THEOREM NoDecisionMissed == Spec => []NothingDue
  <1>1. Init => NothingDue
    BY NoVotesNothingDue, QuietIsNothingDue DEF Init, Quiet
  <1>2. TypeOK /\ NothingDue /\ [Next]_vars => NothingDue'
    <2> SUFFICES ASSUME TypeOK, NothingDue, [Next]_vars PROVE NothingDue'
      OBVIOUS
    <2>1. ASSUME NEW tx \in Submitted, Commit(tx) PROVE NothingDue'
      BY <2>1 DEF Commit, replicaVars, NothingDue
    <2>2. ASSUME NEW r \in Replica, Skip(r) \/ Tally(r) PROVE NothingDue'
      <3>1. \A s \in Replica : Quiet(current_votes[s])
        BY QuietIsNothingDue
      <3>2. View(r) \in State /\ View(r).votes = current_votes[r]
        BY ViewType DEF View
      <3>3. View(r)' = StepOf(View(r), NextTx(r))
        BY <2>2, ProcessIsStep
      <3>4. Quiet(View(r)'.votes)
        BY <3>1, <3>2, <3>3, StepQuiet
      <3>5. current_votes' = [current_votes EXCEPT ![r] = View(r)'.votes]
        BY <2>2, ProcessIsStep
      <3>6. \A s \in Replica : Quiet(current_votes'[s])
        BY <3>1, <3>4, <3>5 DEF TypeOK
      <3> QED
        BY <3>6, QuietAtNextState
    <2>3. CASE UNCHANGED vars
      BY <2>3 DEF NothingDue, vars
    <2> QED
      BY <2>1, <2>2, <2>3 DEF Next
  <1> QED
    BY <1>1, <1>2, TypeCorrect, PTL DEF Spec

-----------------------------------------------------------------------------
(***************************************************************************)
(* Agreement.  The nodes run at different speeds, so the invariant has to     *)
(* relate the state of one to the state another had long ago.  It says that    *)
(* there is a trace, one state for every length of the ledger's prefixes,      *)
(* which every node follows: tr[p] is the state of any extractor that has       *)
(* taken p transactions.                                                        *)
(***************************************************************************)

IsTrace(tr) ==
    /\ tr \in [0 .. Len(ledger) -> State]
    /\ \A p \in 0 .. Len(ledger) - 1 : tr[p + 1] = StepOf(tr[p], ledger[p + 1])
    /\ \A p \in 0 .. Len(ledger) : \A q \in p .. Len(ledger) :
          /\ Len(tr[p].sent) <= Len(tr[q].sent)
          /\ \A k \in 1 .. Len(tr[p].sent) : tr[q].sent[k] = tr[p].sent[k]
    /\ \A r \in Replica : View(r) = tr[pos[r]]

FollowOneTrace == \E tr : IsTrace(tr)

(* Extractors that follow one trace agree: the one that is behind has sent a       *)
(* prefix of what the other has.                                                   *)
LEMMA TraceGivesAgreement == TypeOK /\ FollowOneTrace => Agreement
  <1> SUFFICES ASSUME TypeOK, NEW tr, IsTrace(tr),
                      NEW r \in Replica, NEW s \in Replica,
                      NEW k \in 1 .. Len(sent[r]), k <= Len(sent[s])
               PROVE  sent[r][k] = sent[s][k]
    BY DEF FollowOneTrace, Agreement
  <1>1. /\ pos[r] \in 0 .. Len(ledger)
        /\ pos[s] \in 0 .. Len(ledger)
        /\ Len(sent[r]) \in Nat /\ Len(sent[s]) \in Nat
    <2>1. /\ ledger \in Seq(LedgerEntry) /\ pos \in [Replica -> Nat]
          /\ pos[r] <= Len(ledger) /\ pos[s] <= Len(ledger)
          /\ Len(ledger) \in Nat
      BY DEF TypeOK
    <2>2. sent[r] \in Seq(Event) /\ sent[s] \in Seq(Event)
      BY DEF TypeOK, Event
    <2> QED
      BY <2>1, <2>2
  <1>2. sent[r] = tr[pos[r]].sent /\ sent[s] = tr[pos[s]].sent
    <2>1. View(r) = tr[pos[r]] /\ View(s) = tr[pos[s]]
      BY DEF IsTrace
    <2>2. View(r).sent = sent[r] /\ View(s).sent = sent[s]
      BY DEF View
    <2> QED
      BY <2>1, <2>2
  <1>3. k \in 1 .. Len(sent[s])
    BY <1>1
  <1>4. CASE pos[r] <= pos[s]
    <2>1. pos[s] \in pos[r] .. Len(ledger)
      BY <1>1, <1>4
    <2>2. \A j \in 1 .. Len(tr[pos[r]].sent) :
             tr[pos[s]].sent[j] = tr[pos[r]].sent[j]
      BY <1>1, <2>1 DEF IsTrace
    <2> QED
      BY <1>2, <2>2
  <1>5. CASE pos[s] <= pos[r]
    <2>1. pos[r] \in pos[s] .. Len(ledger)
      BY <1>1, <1>5
    <2>2. \A j \in 1 .. Len(tr[pos[s]].sent) :
             tr[pos[r]].sent[j] = tr[pos[s]].sent[j]
      BY <1>1, <2>1 DEF IsTrace
    <2> QED
      BY <1>2, <1>3, <2>2
  <1>6. pos[r] \in Int /\ pos[s] \in Int
    BY <1>1
  <1> QED
    BY <1>4, <1>5, <1>6

(* HotStuff commits a transaction: the trace grows by one state.                *)
LEMMA TraceGrows ==
    ASSUME TypeOK, NEW tr, IsTrace(tr), NEW tx \in Submitted, Commit(tx)
    PROVE  FollowOneTrace'
  <1> DEFINE n == Len(ledger)
             last == StepOf(tr[n], tx)
             longer == [p \in 0 .. n + 1 |-> IF p = n + 1 THEN last ELSE tr[p]]
  <1>1. /\ n \in Nat /\ tx \in LedgerEntry
        /\ ledger' = Append(ledger, tx) /\ UNCHANGED replicaVars
        /\ ledger \in Seq(LedgerEntry)
    BY SubmittedAssumption DEF Commit, TypeOK
  <1>2. /\ Len(ledger') = n + 1 /\ ledger'[n + 1] = tx
        /\ \A p \in 1 .. n : ledger'[p] = ledger[p]
    BY <1>1
  <1>3. tr[n] \in State
    BY <1>1 DEF IsTrace
  <1>4. /\ last \in State
        /\ Len(tr[n].sent) <= Len(last.sent)
        /\ \A k \in 1 .. Len(tr[n].sent) : last.sent[k] = tr[n].sent[k]
    BY <1>1, <1>3, StepType
  <1> HIDE DEF last
  <1>0. PICK tr2 : tr2 = longer
    OBVIOUS
  <1>5. \A p \in 0 .. n : tr2[p] = tr[p] /\ tr2[p] \in State /\ Len(tr[p].sent) \in Nat
    <2> SUFFICES ASSUME NEW p \in 0 .. n
                 PROVE  tr2[p] = tr[p] /\ tr2[p] \in State /\ Len(tr[p].sent) \in Nat
      OBVIOUS
    <2>1. tr[p] \in State
      BY DEF IsTrace
    <2>2. p \in 0 .. n + 1 /\ p # n + 1
      BY <1>1
    <2>3. tr2[p] = tr[p]
      BY <1>0, <2>2
    <2> QED
      BY <2>1, <2>3 DEF State
  <1>6. tr2[n + 1] = last /\ Len(last.sent) \in Nat
    <2>1. n + 1 \in 0 .. n + 1
      BY <1>1
    <2> QED
      BY <1>0, <1>4, <2>1 DEF State
  <1>7. tr2 \in [0 .. n + 1 -> State]
    <2>1. \A p \in 0 .. n + 1 : p = n + 1 \/ p \in 0 .. n
      BY <1>1
    <2>2. \A p \in 0 .. n + 1 : tr2[p] \in State
      BY <1>4, <1>5, <1>6, <2>1
    <2> QED
      BY <1>0, <2>2
  <1>8. \A p \in 0 .. n : tr2[p + 1] = StepOf(tr2[p], ledger'[p + 1])
    <2> SUFFICES ASSUME NEW p \in 0 .. n
                 PROVE  tr2[p + 1] = StepOf(tr2[p], ledger'[p + 1])
      OBVIOUS
    <2>1. CASE p = n
      BY <1>1, <1>2, <1>5, <1>6, <2>1 DEF last
    <2>2. CASE p # n
      <3>1. p \in 0 .. n - 1 /\ p + 1 \in 1 .. n /\ p + 1 \in 0 .. n
        BY <1>1, <2>2
      <3>2. tr[p + 1] = StepOf(tr[p], ledger[p + 1])
        BY <3>1 DEF IsTrace
      <3> QED
        BY <1>2, <1>5, <3>1, <3>2
    <2> QED
      BY <2>1, <2>2
  <1>9. \A p \in 0 .. n : \A q \in p .. n :
          /\ Len(tr[p].sent) <= Len(tr[q].sent)
          /\ \A k \in 1 .. Len(tr[p].sent) : tr[q].sent[k] = tr[p].sent[k]
    BY DEF IsTrace
  <1>10. \A p \in 0 .. n + 1 : \A q \in p .. n + 1 :
          /\ Len(tr2[p].sent) <= Len(tr2[q].sent)
          /\ \A k \in 1 .. Len(tr2[p].sent) : tr2[q].sent[k] = tr2[p].sent[k]
    <2> SUFFICES ASSUME NEW p \in 0 .. n + 1, NEW q \in p .. n + 1
                 PROVE  /\ Len(tr2[p].sent) <= Len(tr2[q].sent)
                        /\ \A k \in 1 .. Len(tr2[p].sent) :
                               tr2[q].sent[k] = tr2[p].sent[k]
      OBVIOUS
    <2>1. CASE q \in 0 .. n
      <3>1. p \in 0 .. n /\ q \in p .. n
        BY <1>1, <2>1
      <3>2. tr2[p] = tr[p] /\ tr2[q] = tr[q]
        BY <1>5, <2>1, <3>1
      <3>3. /\ Len(tr[p].sent) <= Len(tr[q].sent)
            /\ \A k \in 1 .. Len(tr[p].sent) : tr[q].sent[k] = tr[p].sent[k]
        BY <1>9, <3>1
      <3> QED
        BY <3>2, <3>3
    <2>2. CASE p = n + 1
      <3>1. q = n + 1
        BY <1>1, <2>2
      <3> QED
        BY <1>6, <2>2, <3>1
    <2>3. CASE p \in 0 .. n /\ q = n + 1
      <3>1. n \in p .. n
        BY <1>1, <2>3
      <3>2. /\ Len(tr[p].sent) <= Len(tr[n].sent)
            /\ \A k \in 1 .. Len(tr[p].sent) : tr[n].sent[k] = tr[p].sent[k]
        BY <1>9, <2>3, <3>1
      <3>3. Len(tr[p].sent) \in Nat /\ Len(tr[n].sent) \in Nat
        BY <1>1, <1>5, <2>3
      <3>4. \A k \in 1 .. Len(tr[p].sent) : k \in 1 .. Len(tr[n].sent)
        BY <3>2, <3>3
      <3>5. tr2[p] = tr[p] /\ tr2[q] = last
        BY <1>5, <1>6, <2>3
      <3>6. Len(tr[p].sent) <= Len(last.sent)
        <4>1. \A a, b, c \in Nat : a <= b /\ b <= c => a <= c
          OBVIOUS
        <4>2. Len(tr[n].sent) <= Len(last.sent) /\ Len(last.sent) \in Nat
          BY <1>4, <1>6
        <4>3. Len(tr[p].sent) <= Len(tr[n].sent)
          BY <3>2
        <4> QED
          BY ONLY <3>3, <4>1, <4>2, <4>3
      <3>7. \A k \in 1 .. Len(tr[p].sent) : last.sent[k] = tr[p].sent[k]
        <4>1. \A k \in 1 .. Len(tr[n].sent) : last.sent[k] = tr[n].sent[k]
          BY <1>4
        <4> QED
          BY <3>2, <3>4, <4>1
      <3> QED
        BY <3>5, <3>6, <3>7
    <2> QED
      BY <1>1, <2>1, <2>2, <2>3
  <1>11. \A r \in Replica : View(r)' = tr2[pos'[r]]
    <2> SUFFICES ASSUME NEW r \in Replica PROVE View(r)' = tr2[pos'[r]]
      OBVIOUS
    <2>1. View(r)' = View(r) /\ pos'[r] = pos[r]
      BY <1>1 DEF View, replicaVars
    <2>2. pos[r] \in 0 .. n
      BY <1>1 DEF TypeOK
    <2>3. View(r) = tr[pos[r]]
      BY DEF IsTrace
    <2> QED
      BY <1>5, <2>1, <2>2, <2>3
  <1>12. IsTrace(tr2)'
    <2>1. Len(ledger') = n + 1 /\ 0 .. Len(ledger') - 1 = 0 .. n
      BY <1>1, <1>2
    <2>2. tr2 \in [0 .. Len(ledger') -> State]
      BY <1>7, <2>1
    <2>3. \A p \in 0 .. Len(ledger') - 1 : tr2[p + 1] = StepOf(tr2[p], ledger'[p + 1])
      BY <1>8, <2>1
    <2>4. \A p \in 0 .. Len(ledger') : \A q \in p .. Len(ledger') :
            /\ Len(tr2[p].sent) <= Len(tr2[q].sent)
            /\ \A k \in 1 .. Len(tr2[p].sent) : tr2[q].sent[k] = tr2[p].sent[k]
      BY <1>10, <2>1
    <2> QED
      BY <1>11, <2>2, <2>3, <2>4 DEF IsTrace
  <1> QED
    BY <1>12 DEF FollowOneTrace

(* An extractor takes a transaction: it moves to the next state of the trace.    *)
LEMMA TraceFollowed ==
    ASSUME TypeOK, NEW tr, IsTrace(tr), NEW r \in Replica, Skip(r) \/ Tally(r)
    PROVE  FollowOneTrace'
  <1>1. /\ pos[r] < Len(ledger) /\ pos' = [pos EXCEPT ![r] = pos[r] + 1]
        /\ ledger' = ledger
        /\ View(r)' = StepOf(View(r), NextTx(r))
        /\ \A s \in Replica \ {r} : View(s)' = View(s)
    BY ProcessIsStep
  <1>2. /\ pos \in [Replica -> Nat] /\ Len(ledger) \in Nat
    BY DEF TypeOK
  <1>3. View(r)' = tr[pos'[r]]
    <2>1. pos[r] \in 0 .. Len(ledger) - 1
      BY <1>1, <1>2
    <2>2. tr[pos[r] + 1] = StepOf(tr[pos[r]], ledger[pos[r] + 1])
      BY <2>1 DEF IsTrace
    <2>3. View(r) = tr[pos[r]]
      BY DEF IsTrace
    <2> QED
      BY <1>1, <1>2, <2>2, <2>3 DEF NextTx
  <1>4. \A s \in Replica \ {r} : View(s)' = tr[pos'[s]]
    <2>1. \A s \in Replica \ {r} : pos'[s] = pos[s]
      BY <1>1, <1>2
    <2>2. \A s \in Replica : View(s) = tr[pos[s]]
      BY DEF IsTrace
    <2> QED
      BY <1>1, <2>1, <2>2
  <1>5. \A s \in Replica : View(s)' = tr[pos'[s]]
    BY <1>3, <1>4
  <1>6. IsTrace(tr)'
    BY <1>1, <1>5 DEF IsTrace
  <1> QED
    BY <1>6 DEF FollowOneTrace

(* Every two nodes agree on every iteration both have decided                     *)
(* (cpextractor.rs:39-92 on the ledger of mynode.rs:199-230).                     *)
THEOREM AgreementHolds == Spec => []Agreement
  <1>1. Init => FollowOneTrace
    <2> SUFFICES ASSUME Init PROVE FollowOneTrace
      OBVIOUS
    <2> DEFINE init == [it |-> 0, votes |-> NoVotes, sent |-> << >>]
               tr == [p \in 0 .. 0 |-> init]
    <2>1. init \in State
      BY NoVotesType DEF State
    <2>2. ledger = << >> /\ Len(ledger) = 0 /\ pos = [r \in Replica |-> 0]
      BY DEF Init
    <2>3. \A r \in Replica : View(r) = init
      BY DEF Init, View
    <2>4. \A p \in 0 .. 0 : tr[p] = init
      OBVIOUS
    <2>5. tr \in [0 .. 0 -> State]
      BY <2>1
    <2>6. Len(init.sent) = 0
      OBVIOUS
    <2> HIDE DEF tr, init
    <2>7. IsTrace(tr)
      BY <2>2, <2>3, <2>4, <2>5, <2>6 DEF IsTrace
    <2> QED
      BY <2>7 DEF FollowOneTrace
  <1>2. TypeOK /\ FollowOneTrace /\ [Next]_vars => FollowOneTrace'
    <2> SUFFICES ASSUME TypeOK, NEW tr, IsTrace(tr), [Next]_vars
                 PROVE  FollowOneTrace'
      BY DEF FollowOneTrace
    <2>1. ASSUME NEW tx \in Submitted, Commit(tx) PROVE FollowOneTrace'
      BY <2>1, TraceGrows
    <2>2. ASSUME NEW r \in Replica, Skip(r) \/ Tally(r) PROVE FollowOneTrace'
      BY <2>2, TraceFollowed
    <2>3. CASE UNCHANGED vars
      <3>1. IsTrace(tr)'
        BY <2>3 DEF IsTrace, View, vars
      <3> QED
        BY <3>1 DEF FollowOneTrace
    <2> QED
      BY <2>1, <2>2, <2>3 DEF Next
  <1>3. TypeOK /\ FollowOneTrace => Agreement
    BY TraceGivesAgreement
  <1> QED
    BY <1>1, <1>2, <1>3, TypeCorrect, PTL DEF Spec

-----------------------------------------------------------------------------
(* Votes on a ledger l.                                                        *)
IsVote(tx, a, i, v) ==
    /\ tx # Undecodable
    /\ tx.author = a /\ tx.signed /\ tx.action.i = i
    /\ IF v = RejectVote
       THEN tx.action.kind = "Reject"
       ELSE tx.action.kind = "Accept" /\ tx.action.b = v

Voted(l, a, i, v, p) == \E q \in 1 .. p : IsVote(l[q], a, i, v)

IsLatest(l, a, i, v, n) ==
    \E p \in 1 .. n :
        IsVote(l[p], a, i, v) /\ \A q \in p + 1 .. n : \A w \in Vote \ {v} : ~ IsVote(l[q], a, i, w)

(* The votes of iteration i after n transactions, and the events sent by then.  *)
VotesBacked(l, i, votes, n) ==
    \A a \in Committee : votes[a] # NoVote => Stake[a] > 0 /\ IsLatest(l, a, i, votes[a], n)

Signers(l, i, v, n) == {a \in Committee : Stake[a] > 0 /\ Voted(l, a, i, v, n)}

Backed(l, e, n) ==
    IF e.cp = NoCheckpoint
    THEN 3 * Cardinality(Signers(l, e.iteration, RejectVote, n)) >= Size
    ELSE 3 * Cardinality(Signers(l, e.iteration, e.cp, n)) > 2 * Size

EventsBacked(l, events, n) ==
    \A k \in 1 .. Len(events) : events[k].iteration = k - 1 /\ Backed(l, events[k], n)

LEMMA VotedMore ==
    ASSUME NEW l, NEW a, NEW i, NEW v, NEW n \in Nat
    PROVE  Voted(l, a, i, v, n + 1) <=> Voted(l, a, i, v, n) \/ IsVote(l[n + 1], a, i, v)
  <1>1. \A q \in 1 .. n + 1 : q \in 1 .. n \/ q = n + 1
    OBVIOUS
  <1>2. n + 1 \in 1 .. n + 1 /\ \A q \in 1 .. n : q \in 1 .. n + 1
    OBVIOUS
  <1> QED BY <1>1, <1>2 DEF Voted

(* More ledger takes no evidence away.                                          *)
LEMMA BackedStays ==
    ASSUME NEW l, NEW e, NEW n \in Nat, Backed(l, e, n)
    PROVE  Backed(l, e, n + 1)
  <1>1. ASSUME NEW v
        PROVE  /\ Cardinality(Signers(l, e.iteration, v, n)) \in Nat
               /\ Cardinality(Signers(l, e.iteration, v, n + 1)) \in Nat
               /\ Cardinality(Signers(l, e.iteration, v, n))
                     <= Cardinality(Signers(l, e.iteration, v, n + 1))
    <2>1. /\ Signers(l, e.iteration, v, n) \subseteq Signers(l, e.iteration, v, n + 1)
          /\ Signers(l, e.iteration, v, n + 1) \subseteq Committee
      BY VotedMore DEF Signers
    <2>2. IsFiniteSet(Signers(l, e.iteration, v, n + 1))
      BY <2>1, FS_Subset, CommitteeAssumption
    <2> QED BY <2>1, <2>2, FS_Subset, FS_CardinalityType
  <1>2. Size \in Nat
    BY CommitteeAssumption, FS_CardinalityType DEF Size
  <1>3. CASE e.cp = NoCheckpoint
    BY <1>1, <1>2, <1>3 DEF Backed
  <1>4. CASE e.cp # NoCheckpoint
    BY <1>1, <1>2, <1>4 DEF Backed
  <1> QED BY <1>3, <1>4

-----------------------------------------------------------------------------
(* One transaction.                                                             *)

(* A transaction that is no vote of a's leaves a's latest vote the latest.       *)
LEMMA LatestStays ==
    ASSUME NEW l, NEW a, NEW i, NEW v, NEW n \in Nat, IsLatest(l, a, i, v, n),
           \A w \in Vote : ~ IsVote(l[n + 1], a, i, w)
    PROVE  IsLatest(l, a, i, v, n + 1)
  <1>1. PICK p \in 1 .. n :
           /\ IsVote(l[p], a, i, v)
           /\ \A q \in p + 1 .. n : \A w \in Vote \ {v} : ~ IsVote(l[q], a, i, w)
    BY DEF IsLatest
  <1>2. p \in 1 .. n + 1
    BY <1>1
  <1>3. \A q \in p + 1 .. n + 1 : \A w \in Vote \ {v} : ~ IsVote(l[q], a, i, w)
    <2>1. \A q \in p + 1 .. n + 1 : q \in p + 1 .. n \/ q = n + 1
      OBVIOUS
    <2> QED BY <2>1, <1>1
  <1> QED BY <1>1, <1>2, <1>3 DEF IsLatest

LEMMA SkippedVotes ==
    ASSUME NEW l, NEW i, NEW votes \in Votes, NEW n \in Nat,
           VotesBacked(l, i, votes, n), ~ IsValid(l[n + 1])
    PROVE  VotesBacked(l, i, votes, n + 1)
  <1> SUFFICES ASSUME NEW a \in Committee, votes[a] # NoVote
               PROVE  Stake[a] > 0 /\ IsLatest(l, a, i, votes[a], n + 1)
    BY DEF VotesBacked
  <1>1. Stake[a] > 0 /\ IsLatest(l, a, i, votes[a], n)
    BY DEF VotesBacked
  <1>2. \A w \in Vote : ~ IsVote(l[n + 1], a, i, w)
    BY <1>1 DEF IsVote, IsValid, HasVotingRights
  <1> QED BY <1>1, <1>2, LatestStays

LEMMA RecordedVotes ==
    ASSUME NEW l, NEW i, NEW votes \in Votes, NEW n \in Nat, l[n + 1] \in LedgerEntry,
           VotesBacked(l, i, votes, n), IsValid(l[n + 1])
    PROVE  VotesBacked(l, i, Record(votes, i, l[n + 1]), n + 1)
  <1> DEFINE tx == l[n + 1]
             new == Record(votes, i, tx)
  <1> SUFFICES ASSUME NEW a \in Committee, new[a] # NoVote
               PROVE  Stake[a] > 0 /\ IsLatest(l, a, i, new[a], n + 1)
    BY DEF VotesBacked
  <1>1. CASE tx.action.i = i /\ tx.action.kind \in {"Accept", "Reject"} /\ tx.author = a
    <2> DEFINE v == IF tx.action.kind = "Accept" THEN tx.action.b ELSE RejectVote
    <2>1. new[a] = v /\ Stake[a] > 0
      BY <1>1 DEF Record, Votes, IsValid, HasVotingRights
    <2>2. tx.action.kind = "Accept" => tx.action.b \in Block
      BY EntryTypes
    <2>3. IsVote(tx, a, i, v) /\ \A w \in Vote \ {v} : ~ IsVote(tx, a, i, w)
      BY <1>1, <2>2, BlockAssumption DEF IsVote, IsValid, Vote
    <2> HIDE DEF v, tx, new
    <2>4. IsVote(l[n + 1], a, i, v)
      BY <2>3 DEF tx
    <2>5. n + 1 \in 1 .. n + 1 /\ (n + 1) + 1 .. n + 1 = {}
      OBVIOUS
    <2>7. IsLatest(l, a, i, v, n + 1)
      BY <2>4, <2>5 DEF IsLatest
    <2> QED BY <2>1, <2>7
  <1>2. CASE ~ (tx.action.i = i /\ tx.action.kind \in {"Accept", "Reject"} /\ tx.author = a)
    <2>1. new[a] = votes[a]
      BY <1>2 DEF Record, Votes
    <2>2. \A w \in Vote : ~ IsVote(tx, a, i, w)
      BY <1>2 DEF IsVote
    <2>3. Stake[a] > 0 /\ IsLatest(l, a, i, votes[a], n)
      BY <2>1 DEF VotesBacked
    <2> QED BY <2>1, <2>2, <2>3, LatestStays
  <1> QED BY <1>1, <1>2

(* A decision has its evidence when the votes have theirs.                        *)
LEMMA DecisionBacked ==
    ASSUME NEW l, NEW i \in Nat, NEW votes \in Votes, NEW n \in Nat, VotesBacked(l, i, votes, n),
           NEW d, (d \in Block /\ AcceptThreshold(votes, d))
                     \/ (d = NoCheckpoint /\ RejectThreshold(votes))
    PROVE  Backed(l, [iteration |-> i, cp |-> d], n)
  <1> DEFINE e == [iteration |-> i, cp |-> d]
             v == IF d = NoCheckpoint THEN RejectVote ELSE d
  <1>1. v \in Vote
    BY DEF Vote
  <1>2. VotersFor(votes, v) \subseteq Signers(l, i, v, n)
    <2> SUFFICES ASSUME NEW a \in Committee, votes[a] = v
                 PROVE  Stake[a] > 0 /\ Voted(l, a, i, v, n)
      BY DEF VotersFor, Signers
    <2>1. votes[a] # NoVote
      BY <1>1, BlockAssumption DEF Vote
    <2>2. Stake[a] > 0 /\ IsLatest(l, a, i, v, n)
      BY <2>1 DEF VotesBacked
    <2> QED BY <2>2 DEF IsLatest, Voted
  <1>3. IsFiniteSet(Signers(l, i, v, n))
    BY FS_Subset, CommitteeAssumption DEF Signers
  <1>4. /\ Cardinality(VotersFor(votes, v)) <= Cardinality(Signers(l, i, v, n))
        /\ Cardinality(VotersFor(votes, v)) \in Nat /\ Size \in Nat
        /\ Cardinality(Signers(l, i, v, n)) \in Nat
    BY <1>2, <1>3, FS_Subset, FS_CardinalityType, VotersFinite
  <1>5. CASE d = NoCheckpoint
    BY <1>4, <1>5, BlockAssumption DEF Backed, RejectThreshold
  <1>6. CASE d # NoCheckpoint
    BY <1>4, <1>6 DEF Backed, AcceptThreshold
  <1> QED BY <1>5, <1>6

LEMMA StepBacked ==
    ASSUME NEW l, NEW n \in Nat, l[n + 1] \in LedgerEntry,
           NEW st \in State, Len(st.sent) = st.it,
           VotesBacked(l, st.it, st.votes, n), EventsBacked(l, st.sent, n),
           NEW next, next = StepOf(st, l[n + 1])
    PROVE  /\ VotesBacked(l, next.it, next.votes, n + 1)
           /\ EventsBacked(l, next.sent, n + 1)
  <1> DEFINE tx == l[n + 1]
             votes == Record(st.votes, st.it, tx)
  <1>0. st.votes \in Votes /\ st.it \in Nat /\ st.sent \in Seq(Event)
    BY DEF State
  <1>1. EventsBacked(l, st.sent, n + 1)
    BY BackedStays DEF EventsBacked
  <1>2. CASE ~ IsValid(tx)
    BY <1>0, <1>1, <1>2, SkippedVotes DEF StepOf
  <1>3. CASE IsValid(tx)
    <2>1. next = After(st, votes)
      BY <1>3 DEF StepOf
    <2>2. VotesBacked(l, st.it, votes, n + 1) /\ votes \in Votes
      BY <1>0, <1>3, RecordedVotes, RecordType
    <2> HIDE DEF votes, tx
    <2>3. ASSUME NEW d \in Decision, next = Decided(st, d),
                 (d \in Block /\ AcceptThreshold(votes, d))
                    \/ (d = NoCheckpoint /\ RejectThreshold(votes))
          PROVE  VotesBacked(l, next.it, next.votes, n + 1) /\ EventsBacked(l, next.sent, n + 1)
      <3> DEFINE e == [iteration |-> st.it, cp |-> d]
      <3>1. Backed(l, e, n + 1)
        BY <1>0, <2>2, <2>3, DecisionBacked
      <3>2. /\ Len(next.sent) = Len(st.sent) + 1
            /\ \A k \in 1 .. Len(st.sent) : next.sent[k] = st.sent[k]
            /\ next.sent[Len(st.sent) + 1] = e /\ Len(st.sent) \in Nat
        BY <2>3, DecidedType
      <3>3. EventsBacked(l, next.sent, n + 1)
        <4> SUFFICES ASSUME NEW k \in 1 .. Len(next.sent)
                     PROVE  next.sent[k].iteration = k - 1 /\ Backed(l, next.sent[k], n + 1)
          BY DEF EventsBacked
        <4>1. CASE k = Len(st.sent) + 1
          BY <3>1, <3>2, <4>1
        <4>2. CASE k \in 1 .. Len(st.sent)
          BY <1>1, <3>2, <4>2 DEF EventsBacked
        <4> QED BY <3>2, <4>1, <4>2
      <3>4. VotesBacked(l, next.it, next.votes, n + 1)
        BY <2>3 DEF Decided, VotesBacked, NoVotes
      <3> QED BY <3>3, <3>4
    <2>4. CASE \E b \in Block : AcceptThreshold(votes, b)
      <3> DEFINE d == CHOOSE b \in Block : AcceptThreshold(votes, b)
      <3>1. d \in Block /\ AcceptThreshold(votes, d) /\ d \in Decision
        BY <2>4 DEF Decision
      <3>2. next = Decided(st, d)
        BY <2>1, <2>4 DEF After
      <3> HIDE DEF d
      <3> QED BY <2>3, <3>1, <3>2
    <2>5. CASE (~ \E b \in Block : AcceptThreshold(votes, b)) /\ RejectThreshold(votes)
      <3>1. next = Decided(st, NoCheckpoint) /\ NoCheckpoint \in Decision
        BY <2>1, <2>5 DEF After, Decision
      <3> QED BY <2>3, <2>5, <3>1
    <2>6. CASE (~ \E b \in Block : AcceptThreshold(votes, b)) /\ ~ RejectThreshold(votes)
      <3>1. next = [it |-> st.it, votes |-> votes, sent |-> st.sent]
        BY <2>1, <2>6 DEF After
      <3> QED BY <1>1, <2>2, <3>1
    <2> QED BY <2>4, <2>5, <2>6
  <1> QED BY <1>2, <1>3

-----------------------------------------------------------------------------
(* The invariant: every vote that counts and every event has its evidence.        *)
Evidence ==
    \A r \in Replica : /\ VotesBacked(ledger, current_iteration[r], current_votes[r], pos[r])
                       /\ EventsBacked(ledger, sent[r], pos[r])

(* The part of a ledger that is read stays as it is when the ledger grows.        *)
LEMMA LongerLedger ==
    ASSUME NEW l, NEW m, NEW n \in Nat, \A q \in 1 .. n : m[q] = l[q],
           NEW i, NEW votes, NEW events,
           VotesBacked(l, i, votes, n), EventsBacked(l, events, n)
    PROVE  VotesBacked(m, i, votes, n) /\ EventsBacked(m, events, n)
  <1>1. ASSUME NEW p \in 0 .. n, NEW a, NEW j, NEW v
        PROVE  Voted(m, a, j, v, p) <=> Voted(l, a, j, v, p)
    <2>1. \A q \in 1 .. p : m[q] = l[q]
      OBVIOUS
    <2> QED BY <2>1 DEF Voted
  <1>2. n \in 0 .. n
    OBVIOUS
  <1>3. VotesBacked(m, i, votes, n)
    <2>1. ASSUME NEW a, NEW v, IsLatest(l, a, i, v, n) PROVE IsLatest(m, a, i, v, n)
      <3>1. PICK p \in 1 .. n :
               /\ IsVote(l[p], a, i, v)
               /\ \A q \in p + 1 .. n : \A w \in Vote \ {v} : ~ IsVote(l[q], a, i, w)
        BY <2>1 DEF IsLatest
      <3>2. m[p] = l[p] /\ \A q \in p + 1 .. n : m[q] = l[q]
        OBVIOUS
      <3> QED BY <3>1, <3>2 DEF IsLatest
    <2> QED BY <2>1 DEF VotesBacked
  <1>4. EventsBacked(m, events, n)
    <2>1. ASSUME NEW j, NEW v PROVE Signers(m, j, v, n) = Signers(l, j, v, n)
      BY <1>1, <1>2 DEF Signers
    <2> QED BY <2>1 DEF EventsBacked, Backed
  <1> QED BY <1>3, <1>4

LEMMA EvidenceStep == TypeOK /\ Evidence /\ [Next]_vars => Evidence'
  <1> SUFFICES ASSUME TypeOK, Evidence, [Next]_vars PROVE Evidence'
    OBVIOUS
  <1>1. ASSUME NEW tx \in Submitted, Commit(tx) PROVE Evidence'
    <2>1. ledger' = Append(ledger, tx) /\ UNCHANGED replicaVars /\ tx \in LedgerEntry
      BY <1>1, SubmittedAssumption DEF Commit
    <2>2. \A q \in 1 .. Len(ledger) : ledger'[q] = ledger[q]
      BY <2>1 DEF TypeOK
    <2>3. \A r \in Replica : pos[r] \in Nat /\ \A q \in 1 .. pos[r] : ledger'[q] = ledger[q]
      <3>1. \A r \in Replica : pos[r] \in Nat /\ pos[r] <= Len(ledger) /\ Len(ledger) \in Nat
        BY DEF TypeOK
      <3> QED BY <2>2, <3>1
    <2>4. ASSUME NEW r \in Replica
          PROVE  /\ VotesBacked(ledger', current_iteration[r], current_votes[r], pos[r])
                 /\ EventsBacked(ledger', sent[r], pos[r])
      BY <2>3, LongerLedger DEF Evidence
    <2> QED BY <2>1, <2>4 DEF Evidence, replicaVars
  <1>2. ASSUME NEW r \in Replica, Skip(r) \/ Tally(r) PROVE Evidence'
    <2>1. /\ pos[r] < Len(ledger) /\ pos' = [pos EXCEPT ![r] = @ + 1] /\ ledger' = ledger
          /\ View(r)' = StepOf(View(r), NextTx(r))
          /\ \A s \in Replica \ {r} : View(s)' = View(s)
          /\ NextTx(r) \in LedgerEntry
      BY <1>2, ProcessIsStep
    <2>2. View(r) \in State /\ Len(View(r).sent) = View(r).it
      BY ViewType
    <2>3. \A s \in Replica : /\ View(s).it = current_iteration[s]
                             /\ View(s).votes = current_votes[s]
                             /\ View(s).sent = sent[s]
                             /\ View(s)'.it = current_iteration'[s]
                             /\ View(s)'.votes = current_votes'[s]
                             /\ View(s)'.sent = sent'[s]
      BY DEF View
    <2>4. pos \in [Replica -> Nat]
      BY DEF TypeOK
    <2>5. /\ VotesBacked(ledger, View(r)'.it, View(r)'.votes, pos[r] + 1)
          /\ EventsBacked(ledger, View(r)'.sent, pos[r] + 1)
      <3>1. /\ VotesBacked(ledger, View(r).it, View(r).votes, pos[r])
            /\ EventsBacked(ledger, View(r).sent, pos[r])
        BY <2>3 DEF Evidence
      <3>2. View(r)' = StepOf(View(r), ledger[pos[r] + 1]) /\ ledger[pos[r] + 1] \in LedgerEntry
        BY <2>1 DEF NextTx
      <3>3. pos[r] \in Nat
        BY <2>4
      <3> QED BY <2>2, <3>1, <3>2, <3>3, StepBacked
    <2>6. ASSUME NEW s \in Replica
          PROVE  /\ VotesBacked(ledger', current_iteration'[s], current_votes'[s], pos'[s])
                 /\ EventsBacked(ledger', sent'[s], pos'[s])
      <3>1. CASE s = r
        BY <2>1, <2>3, <2>4, <2>5, <3>1
      <3>2. CASE s # r
        <4>1. View(s)' = View(s) /\ pos'[s] = pos[s]
          BY <2>1, <2>4, <3>2
        <4>2. /\ current_iteration'[s] = current_iteration[s]
              /\ current_votes'[s] = current_votes[s] /\ sent'[s] = sent[s]
          BY <2>3, <4>1
        <4> QED BY <2>1, <4>1, <4>2 DEF Evidence
      <3> QED BY <3>1, <3>2
    <2> QED BY <2>6 DEF Evidence
  <1>3. CASE UNCHANGED vars
    BY <1>3 DEF Evidence, vars
  <1> QED BY <1>1, <1>2, <1>3 DEF Next

LEMMA EvidenceHolds == Spec => []Evidence
  <1>1. Init => Evidence
    BY DEF Init, Evidence, VotesBacked, EventsBacked, NoVotes
  <1> QED BY <1>1, EvidenceStep, TypeCorrect, PTL DEF Spec

(* Every event is about the iteration it closes, and has its signed votes on the    *)
(* ledger: more than two thirds of the authorities for a block, or a third against    *)
(* (cpextractor.rs:70-90).                                                             *)
THEOREM DecisionsBacked == Spec => []DecisionsHaveEvidence
  <1>1. Evidence => DecisionsHaveEvidence
    <2> SUFFICES ASSUME Evidence, NEW r \in Replica, NEW k \in 1 .. Len(sent[r])
                 PROVE  LET e == sent[r][k]
                            S(v) == {a \in Committee :
                                       Stake[a] > 0 /\ VotedOnLedger(a, e.iteration, v, pos[r])}
                        IN /\ e.iteration = k - 1
                           /\ IF e.cp = NoCheckpoint
                              THEN 3 * Cardinality(S(RejectVote)) >= Cardinality(Committee)
                              ELSE 3 * Cardinality(S(e.cp)) > 2 * Cardinality(Committee)
      BY DEF DecisionsHaveEvidence
    <2>1. sent[r][k].iteration = k - 1 /\ Backed(ledger, sent[r][k], pos[r])
      BY DEF Evidence, EventsBacked
    <2>2. ASSUME NEW a, NEW i, NEW v
          PROVE  VotedOnLedger(a, i, v, pos[r]) <=> Voted(ledger, a, i, v, pos[r])
      BY DEF VotedOnLedger, VoteAt, Voted, IsVote
    <2>3. ASSUME NEW i, NEW v
          PROVE  Signers(ledger, i, v, pos[r])
                   = {a \in Committee : Stake[a] > 0 /\ VotedOnLedger(a, i, v, pos[r])}
      BY <2>2 DEF Signers
    <2> QED BY <2>1, <2>3 DEF Backed, Size
  <1> QED BY <1>1, EvidenceHolds, PTL

(* The vote of an author that counts is the last the author put on the ledger for     *)
(* the current iteration, as far as the node has read it: nothing else of the author     *)
(* for that iteration follows (cpextractor.rs:52-68).                                       *)
THEOREM LatestCounts == Spec => []LatestVoteCounts
  <1>1. Evidence => LatestVoteCounts
    <2> SUFFICES ASSUME Evidence, NEW r \in Replica, NEW a \in Committee, NEW v,
                        v = current_votes[r][a], v # NoVote
                 PROVE  \E p \in 1 .. pos[r] :
                          /\ VoteAt(a, current_iteration[r], v, p)
                          /\ \A q \in p + 1 .. pos[r] : \A w \in Vote \ {v} :
                                ~ VoteAt(a, current_iteration[r], w, q)
      BY DEF LatestVoteCounts
    <2>1. IsLatest(ledger, a, current_iteration[r], v, pos[r])
      BY DEF Evidence, VotesBacked
    <2>2. ASSUME NEW i, NEW w, NEW q PROVE VoteAt(a, i, w, q) <=> IsVote(ledger[q], a, i, w)
      BY DEF VoteAt, IsVote
    <2> QED BY <2>1, <2>2 DEF IsLatest
  <1> QED BY <1>1, EvidenceHolds, PTL

-----------------------------------------------------------------------------
(* The one log.                                                                    *)
Ahead(r) == \A s \in Replica : Len(sent[s]) <= Len(sent[r])

SomeoneAhead == \E r \in Replica : Ahead(r)

LogNow == [k \in 1 .. Len(sent[Longest]) |-> sent[Longest][k].cp]

ToldNow == [r \in Replica |-> Len(sent[r])]

(* The log can be read from any of the nodes that are ahead.                        *)
LEMMA LogOfAhead ==
    ASSUME TypeOK, Agreement, SomeoneAhead
    PROVE  /\ Longest \in Replica /\ Ahead(Longest)
           /\ \A r \in Replica : /\ Len(sent[r]) \in Nat
                                 /\ Len(sent[r]) <= Len(sent[Longest])
                                 /\ \A k \in 1 .. Len(sent[r]) : sent[r][k] = sent[Longest][k]
  <1>1. Longest \in Replica /\ Ahead(Longest)
    BY DEF SomeoneAhead, Longest, Ahead
  <1>2. \A r \in Replica : Len(sent[r]) \in Nat
    BY DEF TypeOK
  <1> QED BY <1>1, <1>2 DEF Ahead, Agreement

(* A step sends one event of one node, or none.                                     *)
LEMMA OneEvent ==
    ASSUME TypeOK, [Next]_vars
    PROVE  \/ sent' = sent
           \/ \E r \in Replica, d \in Decision :
                 sent' = [sent EXCEPT ![r] = Append(sent[r],
                            [iteration |-> current_iteration[r], cp |-> d])]
  <1>1. ASSUME NEW tx \in Submitted, Commit(tx) PROVE sent' = sent
    BY <1>1 DEF Commit, replicaVars
  <1>2. ASSUME NEW r \in Replica, Skip(r) PROVE sent' = sent
    BY <1>2 DEF Skip
  <1>3. ASSUME NEW r \in Replica, Tally(r)
        PROVE  \/ sent' = sent
               \/ \E d \in Decision :
                     sent' = [sent EXCEPT ![r] = Append(sent[r],
                                [iteration |-> current_iteration[r], cp |-> d])]
    BY <1>3 DEF Tally, Emit, Decision
  <1> QED BY <1>1, <1>2, <1>3 DEF Next, vars

(* A sequence is a function on its positions.                                        *)
LEMMA SequenceIsFunction ==
    ASSUME NEW S, NEW s \in Seq(S)
    PROVE  /\ Len(s) \in Nat
           /\ \A k \in 1 .. Len(s) : s[k] \in S
           /\ s = [k \in 1 .. Len(s) |-> s[k]]
  <1>1. Len(s) \in Nat /\ s \in [1 .. Len(s) -> S]
    BY LenProperties
  <1> QED BY <1>1

(* Such a step is a step of the log, or none.                                        *)
LEMMA LogStep ==
    ASSUME TypeOK, Agreement, SomeoneAhead, TypeOK', Agreement', [Next]_vars
    PROVE  /\ SomeoneAhead'
           /\ \/ LogNow' = LogNow /\ ToldNow' = ToldNow
              \/ \E r \in Replica :
                    \/ /\ ToldNow[r] = Len(LogNow)
                       /\ \E d \in Block \cup {NoCheckpoint} : LogNow' = Append(LogNow, d)
                       /\ ToldNow' = [ToldNow EXCEPT ![r] = @ + 1]
                    \/ /\ ToldNow[r] < Len(LogNow)
                       /\ ToldNow' = [ToldNow EXCEPT ![r] = @ + 1]
                       /\ LogNow' = LogNow
  <1> DEFINE n == Len(sent[Longest])
  <1>1. /\ Longest \in Replica /\ n \in Nat
        /\ \A r \in Replica : /\ Len(sent[r]) \in Nat /\ Len(sent[r]) <= n
                              /\ \A k \in 1 .. Len(sent[r]) : sent[r][k] = sent[Longest][k]
    BY LogOfAhead
  <1>2. LogNow \in Seq(Decision) /\ Len(LogNow) = n
    <2>1. sent[Longest] \in Seq([iteration : Nat, cp : Decision])
      BY <1>1 DEF TypeOK
    <2>2. \A k \in 1 .. n : sent[Longest][k] \in [iteration : Nat, cp : Decision]
      BY <2>1, SequenceIsFunction
    <2>3. \A k \in 1 .. n : sent[Longest][k].cp \in Decision
      BY <2>2
    <2> QED BY <1>1, <2>3 DEF LogNow
  <1>3. CASE sent' = sent
    <2>1. Longest' = Longest
      BY <1>3 DEF Longest
    <2> QED BY <1>3, <2>1 DEF LogNow, ToldNow, SomeoneAhead, Ahead
  <1>4. ASSUME NEW r \in Replica, NEW d \in Decision,
               sent' = [sent EXCEPT ![r] = Append(sent[r],
                          [iteration |-> current_iteration[r], cp |-> d])]
        PROVE  /\ SomeoneAhead'
               /\ \/ /\ ToldNow[r] = Len(LogNow)
                     /\ LogNow' = Append(LogNow, d)
                     /\ ToldNow' = [ToldNow EXCEPT ![r] = @ + 1]
                  \/ /\ ToldNow[r] < Len(LogNow)
                     /\ ToldNow' = [ToldNow EXCEPT ![r] = @ + 1]
                     /\ LogNow' = LogNow
    <2> DEFINE e == [iteration |-> current_iteration[r], cp |-> d]
    <2>1. sent \in [Replica -> Seq(Event)] /\ e \in Event
      BY DEF TypeOK, Event
    <2>2. /\ Len(sent'[r]) = Len(sent[r]) + 1 /\ sent'[r][Len(sent[r]) + 1] = e
          /\ \A k \in 1 .. Len(sent[r]) : sent'[r][k] = sent[r][k]
          /\ \A s \in Replica \ {r} : sent'[s] = sent[s]
      BY <1>4, <2>1
    <2>3. \A s \in Replica : Len(sent'[s]) <= Len(sent'[IF Len(sent[r]) = n THEN r ELSE Longest])
      BY <1>1, <2>2
    <2>4. SomeoneAhead'
      BY <1>1, <2>3 DEF SomeoneAhead, Ahead
    <2>5. /\ Longest' \in Replica /\ Len(sent'[Longest']) \in Nat
          /\ \A s \in Replica :
                /\ Len(sent'[s]) <= Len(sent'[Longest'])
                /\ \A k \in 1 .. Len(sent'[s]) : sent'[s][k] = sent'[Longest'][k]
      <3>1. Longest' \in Replica /\ \A s \in Replica : Len(sent'[s]) <= Len(sent'[Longest'])
        BY <2>4 DEF SomeoneAhead, Ahead, Longest
      <3>2. \A s \in Replica : Len(sent'[s]) \in Nat
        BY DEF TypeOK
      <3> QED BY <3>1, <3>2 DEF Agreement
    <2>6. ToldNow' = [ToldNow EXCEPT ![r] = @ + 1] /\ ToldNow[r] = Len(sent[r])
      BY <2>2 DEF ToldNow
    <2>7. LogNow' = [k \in 1 .. Len(sent'[Longest']) |-> sent'[Longest'][k].cp]
      BY DEF LogNow
    <2>8. CASE Len(sent[r]) = n
      <3>1. Len(sent'[Longest']) = n + 1
        <4>1. n + 1 <= Len(sent'[Longest'])
          BY <2>2, <2>5, <2>8
        <4>2. Len(sent'[Longest']) <= n + 1
          BY <1>1, <2>2, <2>5, <2>8
        <4> QED BY <1>1, <2>5, <4>1, <4>2
      <3>2. \A k \in 1 .. n : sent'[Longest'][k].cp = LogNow[k]
        BY <1>1, <2>2, <2>5, <2>8 DEF LogNow
      <3>3. sent'[Longest'][n + 1].cp = d
        BY <1>1, <2>2, <2>5, <2>8
      <3>4. LogNow' = Append(LogNow, d)
        <4>1. \A k \in 1 .. n + 1 : k \in 1 .. n \/ k = n + 1
          BY <1>1
        <4>2. \A k \in 1 .. n + 1 : sent'[Longest'][k].cp = Append(LogNow, d)[k]
          BY <1>1, <1>2, <3>2, <3>3, <4>1
        <4>3. Append(LogNow, d) \in Seq(Decision) /\ Len(Append(LogNow, d)) = n + 1
          BY <1>2
        <4> DEFINE longer == Append(LogNow, d)
        <4> HIDE DEF longer
        <4>4. longer = [k \in 1 .. n + 1 |-> longer[k]]
          BY <4>3, SequenceIsFunction DEF longer
        <4> QED BY <2>7, <3>1, <4>2, <4>4 DEF longer
      <3> QED BY <1>2, <2>4, <2>6, <2>8, <3>4
    <2>9. CASE Len(sent[r]) # n
      <3>1. r # Longest /\ Len(sent[r]) < n
        BY <1>1, <2>9
      <3>2. sent'[Longest] = sent[Longest]
        BY <1>1, <2>2, <3>1
      <3>3. Len(sent'[Longest']) = n
        <4>1. n <= Len(sent'[Longest'])
          BY <1>1, <2>5, <3>2
        <4>2. Len(sent'[Longest']) <= n
          BY <1>1, <2>2, <2>3, <2>5, <2>9, <3>2
        <4> QED BY <1>1, <2>5, <4>1, <4>2
      <3>4. \A k \in 1 .. n : sent'[Longest'][k] = sent[Longest][k]
        BY <1>1, <2>5, <3>2
      <3>5. LogNow' = LogNow
        BY <2>7, <3>3, <3>4 DEF LogNow
      <3> QED BY <1>2, <2>4, <2>6, <3>1, <3>5
    <2> QED BY <2>8, <2>9
  <1> QED BY <1>3, <1>4, OneEvent DEF Decision

(* All extractors together are one log that every node is told in order, each         *)
(* entry once, however far the nodes are apart.                                         *)
THEOREM ImplementsLog ==
    ASSUME Replica # {} PROVE Spec => ImplementsCheckpointLog
  <1>1. Init => Log!Init /\ SomeoneAhead
    <2> SUFFICES ASSUME Init PROVE Log!Init /\ SomeoneAhead
      OBVIOUS
    <2>1. \A r \in Replica : sent[r] = << >> /\ Len(sent[r]) = 0
      BY DEF Init
    <2>2. SomeoneAhead
      BY <2>1 DEF SomeoneAhead, Ahead
    <2>3. Longest \in Replica
      BY <2>2 DEF SomeoneAhead, Ahead, Longest
    <2>4. Len(sent[Longest]) = 0
      BY <2>1, <2>3
    <2>5. LogNow = << >> /\ ToldNow = [r \in Replica |-> 0]
      BY <2>1, <2>4 DEF LogNow, ToldNow
    <2> QED BY <2>2, <2>5 DEF Log!Init, LogNow, ToldNow
  <1>2. /\ TypeOK /\ Agreement /\ SomeoneAhead /\ TypeOK' /\ Agreement' /\ [Next]_vars
        => SomeoneAhead' /\ [Log!Next]_Log!vars
    <2> SUFFICES ASSUME TypeOK, Agreement, SomeoneAhead, TypeOK', Agreement', [Next]_vars
                 PROVE  SomeoneAhead' /\ [Log!Next]_Log!vars
      OBVIOUS
    <2>1. /\ Log!Next <=> \E r \in Replica : Log!Decide(r) \/ Log!Follow(r)
          /\ \A r \in Replica :
               /\ Log!Decide(r) <=>
                     /\ ToldNow[r] = Len(LogNow)
                     /\ \E d \in Block \cup {NoCheckpoint} : LogNow' = Append(LogNow, d)
                     /\ ToldNow' = [ToldNow EXCEPT ![r] = @ + 1]
               /\ Log!Follow(r) <=>
                     /\ ToldNow[r] < Len(LogNow)
                     /\ ToldNow' = [ToldNow EXCEPT ![r] = @ + 1]
                     /\ LogNow' = LogNow
      BY DEF Log!Next, Log!Decide, Log!Follow, LogNow, ToldNow
    <2>2. LogNow' = LogNow /\ ToldNow' = ToldNow => UNCHANGED Log!vars
      BY DEF Log!vars, LogNow, ToldNow
    <2> QED BY <2>1, <2>2, LogStep
  <1> QED
    BY <1>1, <1>2, TypeCorrect, AgreementHolds, PTL
       DEF Spec, ImplementsCheckpointLog, Log!Spec
=============================================================================
