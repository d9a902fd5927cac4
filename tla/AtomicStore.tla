----------------------------- MODULE AtomicStore -----------------------------
(***************************************************************************)
(* What the store promises its users: a dictionary that changes and is read at *)
(* once.  A read returns the value of that moment, a notify_read that value or,   *)
(* if there is none, the first one that is written.  Every request is made once     *)
(* (it is a oneshot channel) and may be dropped by whoever made it.                  *)
(***************************************************************************)
CONSTANTS Request, Key, Value,
          Absent,             \* no value
          New, Asked, Dropped \* a request before, during and after its time

VARIABLES dict,     \* key -> value
          waits,    \* waits[k]: the requests to be told of the first value of k
          answer    \* answer[r]: what has become of request r

vars == <<dict, waits, answer>>

Init ==
    /\ dict = [k \in Key |-> Absent]
    /\ waits = [k \in Key |-> {}]
    /\ answer = [r \in Request |-> New]

Write(k, v) ==
    /\ dict' = [dict EXCEPT ![k] = v]
    /\ answer' = [r \in Request |-> IF r \in waits[k] THEN v ELSE answer[r]]
    /\ waits' = [waits EXCEPT ![k] = {}]

Read(r, k) ==
    /\ answer[r] = New
    /\ answer' = [answer EXCEPT ![r] = dict[k]]
    /\ UNCHANGED <<dict, waits>>

NotifyRead(r, k) ==
    /\ answer[r] = New
    /\ IF dict[k] = Absent
       THEN /\ answer' = [answer EXCEPT ![r] = Asked]
            /\ waits' = [waits EXCEPT ![k] = @ \cup {r}]
       ELSE /\ answer' = [answer EXCEPT ![r] = dict[k]]
            /\ UNCHANGED waits
    /\ UNCHANGED dict

Drop(r) ==
    /\ answer[r] \notin {New, Dropped}
    /\ answer' = [answer EXCEPT ![r] = Dropped]
    /\ waits' = [k \in Key |-> waits[k] \ {r}]
    /\ UNCHANGED dict

Next ==
    \/ \E k \in Key :
          \/ \E v \in Value : Write(k, v)
          \/ \E r \in Request : Read(r, k) \/ NotifyRead(r, k)
    \/ \E r \in Request : Drop(r)

Spec == Init /\ [][Next]_vars
=============================================================================
