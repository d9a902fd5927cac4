-------------------------------- MODULE Store --------------------------------
(***************************************************************************)
(* The store (store/src/lib.rs): a task that owns the database and takes the   *)
(* commands of all clones of a Store from one bounded channel.  write returns as *)
(* soon as its command is in the channel; read and notify_read wait on a oneshot   *)
(* channel, which is the request here.  The senders of a notify_read on a key that   *)
(* has no value are kept as obligations of the key.                                   *)
(*                                                                                 *)
(* A request is dropped when the future that waits for it is: a waiter of the mempool *)
(* synchronizer that is cancelled.  Errors of RocksDB are not modelled.                *)
(***************************************************************************)
EXTENDS Naturals, Sequences

CONSTANTS Request, Key, Value, Absent, New, Asked, Dropped,
          ChannelCapacity

ASSUME StoreAssumption ==
    /\ Absent \notin Value
    /\ {New, Asked, Dropped} \cap (Value \cup {Absent}) = {}
    /\ New # Asked /\ New # Dropped /\ Asked # Dropped
    /\ ChannelCapacity \in Nat \ {0}

VARIABLES db,           \* the database
          channel,      \* the commands under way
          obligations,  \* obligations[k]: requests that wait for a value of k
          reply         \* reply[r]: the oneshot channel of request r

vars == <<db, channel, obligations, reply>>

WriteCmd == [kind : {"Write"}, key : Key, value : Value]
ReadCmd == [kind : {"Read", "NotifyRead"}, key : Key, sender : Request]
StoreCommand == WriteCmd \cup ReadCmd

Init ==
    /\ db = [k \in Key |-> Absent]
    /\ channel = << >>
    /\ obligations = [k \in Key |-> {}]
    /\ reply = [r \in Request |-> New]

-----------------------------------------------------------------------------
(* The clones of the store                                                    *)
Send(command) ==
    /\ Len(channel) < ChannelCapacity
    /\ channel' = Append(channel, command)

Write(k, v) ==
    /\ Send([kind |-> "Write", key |-> k, value |-> v])
    /\ UNCHANGED <<db, obligations, reply>>

(* read and notify_read                                                        *)
Ask(r, kind, k) ==
    /\ reply[r] = New
    /\ Send([kind |-> kind, key |-> k, sender |-> r])
    /\ reply' = [reply EXCEPT ![r] = Asked]
    /\ UNCHANGED <<db, obligations>>

Drop(r) ==
    /\ reply[r] = Asked
    /\ reply' = [reply EXCEPT ![r] = Dropped]
    /\ UNCHANGED <<db, channel, obligations>>

-----------------------------------------------------------------------------
(* The task                                                                    *)

(* let _ = s.send(..): who has dropped its end gets nothing.                    *)
Answered(requests, v) ==
    [r \in Request |-> IF r \in requests /\ reply[r] = Asked THEN v ELSE reply[r]]

(* Mutants of ServeWrite: the obligations are kept for the next write; a value is   *)
(* never replaced.                                                                   *)
MutServeWrite ==
    /\ channel # << >>
    /\ LET command == Head(channel) IN
         /\ command.kind = "Write"
         /\ db' = [db EXCEPT ![command.key] = command.value]
    /\ channel' = Tail(channel)
    /\ UNCHANGED <<obligations, reply>>

MutServeWriteOnce ==
    /\ channel # << >>
    /\ LET command == Head(channel) IN
         /\ command.kind = "Write"
         /\ db' = [db EXCEPT ![command.key] = IF @ = Absent THEN command.value ELSE @]
         /\ reply' = Answered(obligations[command.key], command.value)
         /\ obligations' = [obligations EXCEPT ![command.key] = {}]
    /\ channel' = Tail(channel)

ServeWrite ==
    /\ channel # << >>
    /\ LET command == Head(channel) IN
         /\ command.kind = "Write"
         /\ db' = [db EXCEPT ![command.key] = command.value]
         /\ reply' = Answered(obligations[command.key], command.value)
         /\ obligations' = [obligations EXCEPT ![command.key] = {}]
    /\ channel' = Tail(channel)

ServeRead ==
    /\ channel # << >>
    /\ LET command == Head(channel) IN
         /\ command.kind = "Read"
         /\ reply' = Answered({command.sender}, db[command.key])
    /\ channel' = Tail(channel)
    /\ UNCHANGED <<db, obligations>>

(* Mutant of ServeNotifyRead: every request becomes an obligation.               *)
MutServeNotifyRead ==
    /\ channel # << >>
    /\ LET command == Head(channel) IN
         /\ command.kind = "NotifyRead"
         /\ obligations' = [obligations EXCEPT ![command.key] = @ \cup {command.sender}]
    /\ channel' = Tail(channel)
    /\ UNCHANGED <<db, reply>>

ServeNotifyRead ==
    /\ channel # << >>
    /\ LET command == Head(channel) IN
         /\ command.kind = "NotifyRead"
         /\ IF db[command.key] = Absent
            THEN /\ obligations' = [obligations EXCEPT ![command.key] =
                                      @ \cup {command.sender}]
                 /\ UNCHANGED reply
            ELSE /\ reply' = Answered({command.sender}, db[command.key])
                 /\ UNCHANGED obligations
    /\ channel' = Tail(channel)
    /\ UNCHANGED db

Serve == ServeWrite \/ ServeRead \/ ServeNotifyRead

Next ==
    \/ Serve
    \/ \E k \in Key :
          \/ \E v \in Value : Write(k, v)
          \/ \E r \in Request, kind \in {"Read", "NotifyRead"} : Ask(r, kind, k)
    \/ \E r \in Request : Drop(r)

Spec == Init /\ [][Next]_vars

(* The task gets its turns.                                                     *)
FairSpec == Spec /\ WF_vars(Serve)

-----------------------------------------------------------------------------
(* The refinement of AtomicStore: a command takes effect when it is put into the *)
(* channel.  WritesTo(k, i, j) are the places from i to j in the channel of        *)
(* writes to k, Latest the value of k that they leave.                              *)
WritesTo(k, i, j) == {n \in i .. j : channel[n].kind = "Write" /\ channel[n].key = k}

Latest(k, j) ==
    LET writes == WritesTo(k, 1, j) IN
    IF writes = {} THEN db[k]
    ELSE channel[CHOOSE n \in writes : \A m \in writes : m <= n].value

FirstFrom(k, i) ==
    LET writes == WritesTo(k, i, Len(channel)) IN
    IF writes = {} THEN Asked
    ELSE channel[CHOOSE n \in writes : \A m \in writes : n <= m].value

PlacesOf(r) == {n \in 1 .. Len(channel) :
                  channel[n].kind # "Write" /\ channel[n].sender = r}

EffectiveAnswer(r) ==
    IF reply[r] # Asked THEN reply[r]
    ELSE IF PlacesOf(r) # {}
    THEN LET n == CHOOSE n \in PlacesOf(r) : TRUE
             k == channel[n].key
         IN IF channel[n].kind = "Read" \/ Latest(k, n) # Absent THEN Latest(k, n)
            ELSE FirstFrom(k, n)
    ELSE FirstFrom(CHOOSE k \in Key : r \in obligations[k], 1)

EffectiveWaits(k) ==
    {r \in Request :
       /\ EffectiveAnswer(r) = Asked
       /\ \/ r \in obligations[k]
          \/ \E n \in PlacesOf(r) : channel[n].key = k}

Atomic == INSTANCE AtomicStore WITH
    dict <- [k \in Key |-> Latest(k, Len(channel))],
    waits <- [k \in Key |-> EffectiveWaits(k)],
    answer <- [r \in Request |-> EffectiveAnswer(r)]

-----------------------------------------------------------------------------
(***************************************************************************)
(* Properties                                                               *)
(***************************************************************************)

(* The values of the state variables.                                        *)
TypeOK ==
    /\ db \in [Key -> Value \cup {Absent}]
    /\ channel \in Seq(StoreCommand)
    /\ Len(channel) <= ChannelCapacity
    /\ obligations \in [Key -> SUBSET Request]
    /\ reply \in [Request -> Value \cup {Absent, New, Asked, Dropped}]

(* No wake-up is lost: a request is kept as an obligation only while its key has  *)
(* no value (lib.rs:33-56), and a request that nobody has dropped is in the          *)
(* channel or is kept as an obligation, so that a write will find it.                  *)
NoLostWakeup ==
    /\ \A k \in Key : obligations[k] # {} => db[k] = Absent
    /\ \A r \in Request : reply[r] = Asked =>
          PlacesOf(r) # {} \/ \E k \in Key : r \in obligations[k]

(* The users see an atomic dictionary although a write returns before it is done   *)
(* (lib.rs:64-68): whoever reads after it, through any clone of the store, sees it,   *)
(* and a notify_read is answered with the first value there is.                        *)
ImplementsAtomicStore == Atomic!Spec

(* The waiters of the two synchronizers are woken: every read, and every             *)
(* notify_read of a key that has been written, is answered or dropped.                  *)
EveryRequestEnds ==
    \A r \in Request :
        reply[r] = Asked /\ EffectiveAnswer(r) # Asked ~> reply[r] # Asked
=============================================================================
