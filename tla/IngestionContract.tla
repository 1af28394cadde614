--------------------------- MODULE IngestionContract ---------------------------
(* What the ingester promises of the items given to Publish, with no locks,    *)
(* goroutines or counters: an item is accepted only while the ingester is      *)
(* open; all that is buffered leaves in one batch; a batch finishes or is lost *)
(* as a whole; and a shutdown that claims to have flushed leaves nothing       *)
(* behind (ingester/types.go 22-23, ShutdownWithTimeout's comment).            *)
CONSTANT Items

VARIABLES open,   \* does the ingester take items?
          phase,  \* phase[i]: how far item i has come
          claim   \* what the latest shutdown has answered

cvars == <<open, phase, claim>>

Phases == {"new", "rejected", "buffered", "handed", "finished", "lost"}

In(p) == {i \in Items : phase[i] = p}

Move(S, p) == phase' = [i \in Items |-> IF i \in S THEN p ELSE phase[i]]

Init ==
  /\ open = FALSE
  /\ phase = [i \in Items |-> "new"]
  /\ claim = "none"

TakeItem(i) ==
  /\ open /\ phase[i] = "new"
  /\ Move({i}, "buffered")
  /\ UNCHANGED <<open, claim>>

RefuseItem(i) ==
  /\ ~open /\ phase[i] = "new"
  /\ Move({i}, "rejected")
  /\ UNCHANGED <<open, claim>>

HandOver(p) ==
  /\ In("buffered") # {}
  /\ Move(In("buffered"), p)
  /\ UNCHANGED <<open, claim>>

Finish(batch) ==
  /\ batch # {} /\ batch \subseteq In("handed")
  /\ Move(batch, "finished")
  /\ UNCHANGED <<open, claim>>

Open ==
  /\ ~open
  /\ open' = TRUE /\ claim' = "none"
  /\ UNCHANGED phase

Close ==
  /\ open
  /\ open' = FALSE
  /\ UNCHANGED <<phase, claim>>

Claim(answer) ==
  /\ ~open /\ claim = "none"
  /\ answer = "flushed" => In("buffered") \cup In("handed") = {}
  /\ claim' = answer
  /\ UNCHANGED <<open, phase>>

Next ==
  \/ \E i \in Items : TakeItem(i) \/ RefuseItem(i)
  \/ HandOver("handed") \/ HandOver("lost")
  \/ \E batch \in SUBSET Items : Finish(batch)
  \/ Open \/ Close \/ Claim("flushed") \/ Claim("timedOut")

Spec == Init /\ [][Next]_cvars
================================================================================
