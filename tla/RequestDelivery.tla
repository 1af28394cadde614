---------------------------- MODULE RequestDelivery ----------------------------
(* What the retry policy promises (comments of retry_policy.go 16-20 and       *)
(* types.go 66-69), without the memory counter and the statements of the code: *)
(* a request whose first POST fails waits in a queue that is served, and shed, *)
(* strictly from the front; who is told "sent" has been acknowledged by the    *)
(* server, who is told "shifted" never was, and nobody is told twice.          *)
EXTENDS Sequences

CONSTANT Requests

VARIABLES started,  \* the requests given to ingest
          waiting,  \* the remembered requests, oldest first
          acked,    \* the requests the server acknowledged
          shed,     \* the requests removed to make room
          told      \* told[r]: what the callback of r was called with

dvars == <<started, waiting, acked, shed, told>>

IsWaiting(r) == \E k \in DOMAIN waiting : waiting[k] = r

Init ==
  /\ started = {} /\ waiting = <<>> /\ acked = {} /\ shed = {}
  /\ told = [r \in Requests |-> "nothing"]

Start(r) ==
  /\ r \notin started
  /\ started' = started \cup {r}
  /\ UNCHANGED <<waiting, acked, shed, told>>

(* The first POST succeeds, and its caller is told in the same step.           *)
Deliver(r) ==
  /\ r \in started \ (acked \cup shed) /\ ~IsWaiting(r)
  /\ acked' = acked \cup {r}
  /\ told' = [told EXCEPT ![r] = "sent"]
  /\ UNCHANGED <<started, waiting, shed>>

Remember(r) ==
  /\ r \in started \ (acked \cup shed) /\ ~IsWaiting(r)
  /\ waiting' = Append(waiting, r)
  /\ UNCHANGED <<started, acked, shed, told>>

Redeliver ==
  /\ waiting # <<>>
  /\ acked' = acked \cup {Head(waiting)}
  /\ waiting' = Tail(waiting)
  /\ UNCHANGED <<started, shed, told>>

MakeRoom ==
  /\ waiting # <<>>
  /\ shed' = shed \cup {Head(waiting)}
  /\ waiting' = Tail(waiting)
  /\ UNCHANGED <<started, acked, told>>

Tell(r) ==
  /\ told[r] = "nothing"
  /\ \/ r \in acked /\ told' = [told EXCEPT ![r] = "sent"]
     \/ r \in shed /\ told' = [told EXCEPT ![r] = "shifted"]
  /\ UNCHANGED <<started, waiting, acked, shed>>

Next ==
  \/ \E r \in Requests : Start(r) \/ Deliver(r) \/ Remember(r) \/ Tell(r)
  \/ Redeliver \/ MakeRoom

Spec == Init /\ [][Next]_dvars
================================================================================
