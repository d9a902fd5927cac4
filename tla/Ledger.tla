------------------------------- MODULE Ledger -------------------------------
(***************************************************************************)
(* From the blocks that HotStuff commits to the ledger of transactions that   *)
(* the checkpoint extractor reads: Node::analyze_block of every node.          *)
(*                                                                           *)
(* HotStuff commits blocks of one chain on which rounds increase (CommitsAgree *)
(* and RoundsIncrease of the module HotStuff).  It commits few of them: a block *)
(* whose child is in the next round.  It may commit a block again, for another   *)
(* grandchild, and that after later blocks.  Here it commits any block of the     *)
(* chain at any time.                                                              *)
(***************************************************************************)
EXTENDS Integers, SequencesExt

CONSTANTS Node, Transaction,
          MaxRound,     \* bound: rounds
          MaxPayload,   \* bound: transactions in a block
          MaxCommits    \* bound: commits in a node's channel (1000 in the code)

ASSUME LedgerAssumption == MaxRound \in Nat /\ MaxPayload \in Nat /\ MaxCommits \in Nat

Block == [round : 1 .. MaxRound, payload : BoundedSeq(Transaction, MaxPayload)]

VARIABLES chain,      \* the blocks after genesis, as certified so far
          commit,     \* commit[n]: rx_commit, every block as its place on the chain
          smallest_unprocessed_round,
          ledger      \* ledger[n]: what n has sent to its extractor since it started

ledgerVars == <<chain, commit, smallest_unprocessed_round, ledger>>

Genesis == [round |-> 0, payload |-> << >>]

LedgerInit ==
    /\ chain = << >>
    /\ commit = [n \in Node |-> << >>]
    /\ smallest_unprocessed_round = [n \in Node |-> 0]
    /\ ledger = [n \in Node |-> << >>]

(* HotStuff: the chain grows, and place k of it (0 is genesis) is committed at n. *)
Certify(b) ==
    /\ \A i \in DOMAIN chain : b.round > chain[i].round
    /\ chain' = Append(chain, b)
    /\ UNCHANGED <<commit, smallest_unprocessed_round, ledger>>

Commit(n, k) ==
    /\ Len(commit[n]) < MaxCommits
    /\ commit' = [commit EXCEPT ![n] = Append(@, k)]
    /\ UNCHANGED <<chain, smallest_unprocessed_round, ledger>>

(* Mutant of AncestorsOf: committed blocks only.                                  *)
MutAncestorsOf(k) == IF k = 0 THEN << Genesis >> ELSE << chain[k] >>

(* The blocks from a committed one back to genesis, in the order of the chain.   *)
AncestorsOf(k) == << Genesis >> \o SubSeq(chain, 1, k)

(* Mutant of Process: the block in the very next round is taken for an old one.   *)
MutProcess(state, b) ==
    IF b.round > state.smallest
    THEN [smallest |-> b.round + 1, txs |-> state.txs \o b.payload]
    ELSE state

Process(state, b) ==
    IF b.round >= state.smallest
    THEN [smallest |-> b.round + 1, txs |-> state.txs \o b.payload]
    ELSE state

ProcessAll(state, blks) ==
    LET done[k \in 0 .. Len(blks)] ==
            IF k = 0 THEN state ELSE Process(done[k - 1], blks[k])
    IN done[Len(blks)]

AnalyzeBlock(n) ==
    /\ commit[n] # << >>
    /\ LET done == ProcessAll([smallest |-> smallest_unprocessed_round[n], txs |-> << >>],
                              AncestorsOf(Head(commit[n])))
       IN /\ smallest_unprocessed_round' = [smallest_unprocessed_round EXCEPT ![n] = done.smallest]
          /\ ledger' = [ledger EXCEPT ![n] = @ \o done.txs]
    /\ commit' = [commit EXCEPT ![n] = Tail(@)]
    /\ UNCHANGED chain

(* Only the store outlives a process: the ledger is made again from genesis.     *)
Restart(n) ==
    /\ commit' = [commit EXCEPT ![n] = << >>]
    /\ smallest_unprocessed_round' = [smallest_unprocessed_round EXCEPT ![n] = 0]
    /\ ledger' = [ledger EXCEPT ![n] = << >>]
    /\ UNCHANGED chain

LedgerNext ==
    \/ \E b \in Block : Certify(b)
    \/ \E n \in Node :
          \/ \E k \in 0 .. Len(chain) : Commit(n, k)
          \/ AnalyzeBlock(n)
          \/ Restart(n)

LedgerSpec == LedgerInit /\ [][LedgerNext]_ledgerVars

-----------------------------------------------------------------------------
TxsOf(blocks) == FlattenSeq([i \in DOMAIN blocks |-> blocks[i].payload])

(* Every node's ledger is the transactions of whole blocks of the chain, each block *)
(* once and none left out, whichever blocks are committed at the node and in       *)
(* whichever order, and whenever it was restarted: the round reached stands for the   *)
(* blocks processed (mynode.rs:216-217).  Any two ledgers are therefore prefixes of   *)
(* one sequence, which is what the extractors rely on.                                *)
WholeBlocksOnce ==
    \A n \in Node : \E k \in 0 .. Len(chain) :
        /\ ledger[n] = TxsOf(SubSeq(chain, 1, k))
        /\ smallest_unprocessed_round[n] \in
              IF k = 0 THEN {0, 1} ELSE {chain[k].round + 1}

(* Once a committed block is processed the ledger has all that is on the chain up to  *)
(* it, the blocks that were never committed by themselves included                      *)
(* (mynode.rs:204-212), unless more was there before.                                   *)
CommitsReachLedger ==
    [][\A n \in Node : AnalyzeBlock(n) =>
          IsPrefix(TxsOf(SubSeq(chain, 1, Head(commit[n]))), ledger'[n])]_ledgerVars
=============================================================================
