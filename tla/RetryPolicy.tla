------------------------------ MODULE RetryPolicy ------------------------------
(* The retry policy of the ingester (ingester/retry_policy.go).  Every request *)
(* runs ingest in a goroutine of its own (group_strategy.go line 94) and the   *)
(* goroutines share rt.queue and rt.currentMemorySize without a lock, so a     *)
(* step is one read or one write of one of them: queue = append(queue, e),     *)
(* queue = queue[1:] and currentMemorySize += n are a read and a write each.   *)
(* A slice header is read and written in one piece here.                       *)
EXTENDS Integers, Sequences, FiniteSets, Functions

CONSTANTS Requests,    \* the batches handed over by the group strategy
          Size,        \* Size[r]: size(data) of the batch, its 24 bytes included
          MaxMemory,   \* maxMemorySizeInBytes
          MaxInFlight  \* how many goroutines may be inside ingest at a time

ASSUME SizeAssumption == /\ Size \in [Requests -> Nat \ {0}]
                         /\ MaxMemory \in Nat
                         /\ MaxInFlight \in Nat \ {0}
ASSUME RequestsAssumption == IsFiniteSet(Requests)

VARIABLES
  queue, mem,        \* rt.queue, rt.currentMemorySize
  pc, mode,          \* where goroutine r is; is it putting or draining?
  first, qreg, mreg, \* its locals: the element at hand, a queue and a size it read
  acked, sent, shifted, \* per request: POSTs answered OK, callback(nil), callback(err)
  crash              \* a run-time panic ends the process

shared == <<queue, mem>>
locals == <<mode, first, qreg, mreg>>
calls  == <<acked, sent, shifted>>
vars   == <<shared, pc, locals, calls, crash>>

Element(r, hasCallback) == [req |-> r, callback |-> hasCallback]

Init ==
  /\ queue = <<>> /\ mem = 0
  /\ pc = [r \in Requests |-> "new"] /\ mode = [r \in Requests |-> "none"]
  /\ first = [r \in Requests |-> Element(r, TRUE)]
  /\ qreg = [r \in Requests |-> <<>>] /\ mreg = [r \in Requests |-> 0]
  /\ acked = [r \in Requests |-> 0]
  /\ sent = [r \in Requests |-> 0] /\ shifted = [r \in Requests |-> 0]
  /\ crash = "no"

Inside == {r \in Requests : pc[r] \notin {"new", "done"}}

Goto(r, label) == pc' = [pc EXCEPT ![r] = label]

At(r, label) == pc[r] = label

--------------------------------------------------------------------------------
(* ingest: the POST, and the two ways it may end.  An error says only that no  *)
(* answer 200 was read.                                                        *)

Begin(r) ==
  /\ At(r, "new") /\ Cardinality(Inside) < MaxInFlight
  /\ Goto(r, "post")
  /\ UNCHANGED <<shared, locals, calls, crash>>

PostOkAndPut(r) ==  \* fault: the else branch is missing, a sent request is queued too
  /\ At(r, "post") /\ Goto(r, "fit")
  /\ mode' = [mode EXCEPT ![r] = "drain"]
  /\ acked' = [acked EXCEPT ![r] = @ + 1]
  /\ sent' = [sent EXCEPT ![r] = @ + 1]
  /\ UNCHANGED <<shared, first, qreg, mreg, shifted, crash>>

PostOk(r) ==
  /\ At(r, "post") /\ Goto(r, "check")
  /\ mode' = [mode EXCEPT ![r] = "drain"]
  /\ acked' = [acked EXCEPT ![r] = @ + 1]
  /\ sent' = [sent EXCEPT ![r] = @ + 1]
  /\ UNCHANGED <<shared, first, qreg, mreg, shifted, crash>>

PostFails(r) ==
  /\ At(r, "post") /\ Goto(r, "fit")
  /\ mode' = [mode EXCEPT ![r] = "put"]
  /\ UNCHANGED <<shared, first, qreg, mreg, calls, crash>>

--------------------------------------------------------------------------------
(* putToQueue: at once, not at all, or after elements have been shifted out.   *)
(* The callback is kept only in the first case.                                *)

RoomLoose(r) == mem + Size[r] <= MaxMemory  \* fault: <= for <

Room(r) == mem + Size[r] < MaxMemory

FitsAtOnce(r) ==
  /\ At(r, "fit") /\ Room(r) /\ Goto(r, "append")
  /\ first' = [first EXCEPT ![r] = Element(r, TRUE)]
  /\ UNCHANGED <<shared, mode, qreg, mreg, calls, crash>>

TooLarge(r) ==
  /\ At(r, "fit") /\ ~Room(r) /\ Size[r] > MaxMemory /\ Goto(r, "done")
  /\ UNCHANGED <<shared, locals, calls, crash>>

EvictForAny(r) ==  \* fault: a batch that can never fit is not refused
  /\ At(r, "fit") /\ ~Room(r) /\ Goto(r, "evict")
  /\ UNCHANGED <<shared, locals, calls, crash>>

MustEvict(r) ==
  /\ At(r, "fit") /\ ~Room(r) /\ Size[r] <= MaxMemory /\ Goto(r, "evict")
  /\ UNCHANGED <<shared, locals, calls, crash>>

FitsAfterEviction(r) ==
  /\ At(r, "evict") /\ Room(r) /\ Goto(r, "append")
  /\ first' = [first EXCEPT ![r] = Element(r, FALSE)]
  /\ UNCHANGED <<shared, mode, qreg, mreg, calls, crash>>

EvictFirst(r) ==
  /\ At(r, "evict") /\ ~Room(r) /\ Goto(r, "shift")
  /\ UNCHANGED <<shared, locals, calls, crash>>

--------------------------------------------------------------------------------
(* addToQueue.                                                                 *)

AppendRead(r) ==
  /\ At(r, "append") /\ Goto(r, "appendWrite")
  /\ qreg' = [qreg EXCEPT ![r] = queue]
  /\ UNCHANGED <<shared, mode, first, mreg, calls, crash>>

PrependWrite(r) ==  \* fault: the element goes to the front
  /\ At(r, "appendWrite") /\ Goto(r, "grow")
  /\ queue' = <<first[r]>> \o qreg[r]
  /\ qreg' = [qreg EXCEPT ![r] = <<>>]
  /\ UNCHANGED <<mem, mode, first, mreg, calls, crash>>

AppendWrite(r) ==
  /\ At(r, "appendWrite") /\ Goto(r, "grow")
  /\ queue' = Append(qreg[r], first[r])
  /\ qreg' = [qreg EXCEPT ![r] = <<>>]
  /\ UNCHANGED <<mem, mode, first, mreg, calls, crash>>

GrowRead(r) ==
  /\ At(r, "grow") /\ Goto(r, "growWrite")
  /\ mreg' = [mreg EXCEPT ![r] = mem]
  /\ UNCHANGED <<shared, mode, first, qreg, calls, crash>>

GrowWrite(r) ==
  /\ At(r, "growWrite") /\ Goto(r, "done")
  /\ mem' = mreg[r] + Size[first[r].req]
  /\ mreg' = [mreg EXCEPT ![r] = 0]
  /\ UNCHANGED <<queue, mode, first, qreg, calls, crash>>

--------------------------------------------------------------------------------
(* shift, then the callback of the element it returned.  Its caller is the     *)
(* eviction loop or the drain loop.                                            *)

ShiftRead(r) ==
  /\ At(r, "shift") /\ queue # <<>> /\ Goto(r, "cut")
  /\ first' = [first EXCEPT ![r] = Head(queue)]
  /\ UNCHANGED <<shared, mode, qreg, mreg, calls, crash>>

CutRead(r) ==
  /\ At(r, "cut") /\ queue # <<>> /\ Goto(r, "cutWrite")
  /\ qreg' = [qreg EXCEPT ![r] = queue]
  /\ UNCHANGED <<shared, mode, first, mreg, calls, crash>>

CutWrite(r) ==
  /\ At(r, "cutWrite") /\ Goto(r, "shrink")
  /\ queue' = Tail(qreg[r])
  /\ qreg' = [qreg EXCEPT ![r] = <<>>]
  /\ UNCHANGED <<mem, mode, first, mreg, calls, crash>>

ShrinkRead(r) ==
  /\ At(r, "shrink") /\ Goto(r, "shrinkWrite")
  /\ mreg' = [mreg EXCEPT ![r] = mem]
  /\ UNCHANGED <<shared, mode, first, qreg, calls, crash>>

ShrinkOwnSize(r) ==  \* fault: the size of the new batch is subtracted, not the old one's
  /\ At(r, "shrinkWrite") /\ Goto(r, "notify")
  /\ mem' = mreg[r] - Size[r]
  /\ mreg' = [mreg EXCEPT ![r] = 0]
  /\ UNCHANGED <<queue, mode, first, qreg, calls, crash>>

ShrinkWrite(r) ==
  /\ At(r, "shrinkWrite") /\ Goto(r, "notify")
  /\ mem' = mreg[r] - Size[first[r].req]
  /\ mreg' = [mreg EXCEPT ![r] = 0]
  /\ UNCHANGED <<queue, mode, first, qreg, calls, crash>>

NotifySent(r) ==
  /\ At(r, "notify") /\ mode[r] = "drain" /\ first[r].callback /\ Goto(r, "check")
  /\ sent' = [sent EXCEPT ![first[r].req] = @ + 1]
  /\ UNCHANGED <<shared, locals, acked, shifted, crash>>

NotifyShifted(r) ==
  /\ At(r, "notify") /\ mode[r] = "put" /\ first[r].callback /\ Goto(r, "evict")
  /\ shifted' = [shifted EXCEPT ![first[r].req] = @ + 1]
  /\ UNCHANGED <<shared, locals, acked, sent, crash>>

NotifyNil(r) ==
  /\ At(r, "notify") /\ ~first[r].callback
  /\ crash' = "nil"
  /\ UNCHANGED <<shared, pc, locals, calls>>

(* queue[0] or queue[1:] of an empty queue.                                    *)
EmptyQueue(r) ==
  /\ pc[r] \in {"shift", "cut", "peek"} /\ queue = <<>>
  /\ crash' = "empty"
  /\ UNCHANGED <<shared, pc, locals, calls>>

--------------------------------------------------------------------------------
(* releaseWait: resend the first element until the queue is empty or a POST    *)
(* fails.                                                                      *)

DrainEmpty(r) ==
  /\ At(r, "check") /\ queue = <<>> /\ Goto(r, "done")
  /\ UNCHANGED <<shared, locals, calls, crash>>

DrainMore(r) ==
  /\ At(r, "check") /\ queue # <<>> /\ Goto(r, "peek")
  /\ UNCHANGED <<shared, locals, calls, crash>>

Peek(r) ==
  /\ At(r, "peek") /\ queue # <<>> /\ Goto(r, "resend")
  /\ first' = [first EXCEPT ![r] = Head(queue)]
  /\ UNCHANGED <<shared, mode, qreg, mreg, calls, crash>>

ResendOk(r) ==
  /\ At(r, "resend") /\ Goto(r, "shift")
  /\ acked' = [acked EXCEPT ![first[r].req] = @ + 1]
  /\ UNCHANGED <<shared, locals, sent, shifted, crash>>

ResendFailsButShifts(r) ==  \* fault: a failed resend is shifted out all the same
  /\ At(r, "resend") /\ Goto(r, "shift")
  /\ UNCHANGED <<shared, locals, calls, crash>>

ResendRetries(r) ==  \* fault: a failed resend is tried again at once
  /\ At(r, "resend") /\ Goto(r, "check")
  /\ UNCHANGED <<shared, locals, calls, crash>>

ResendFails(r) ==
  /\ At(r, "resend") /\ Goto(r, "done")
  /\ UNCHANGED <<shared, locals, calls, crash>>

--------------------------------------------------------------------------------
Put(r) ==
  \/ FitsAtOnce(r) \/ TooLarge(r) \/ MustEvict(r) \/ FitsAfterEviction(r) \/ EvictFirst(r)
  \/ AppendRead(r) \/ AppendWrite(r) \/ GrowRead(r) \/ GrowWrite(r)

Shift(r) ==
  \/ ShiftRead(r) \/ CutRead(r) \/ CutWrite(r) \/ ShrinkRead(r) \/ ShrinkWrite(r)
  \/ NotifySent(r) \/ NotifyShifted(r) \/ NotifyNil(r) \/ EmptyQueue(r)

Drain(r) == DrainEmpty(r) \/ DrainMore(r) \/ Peek(r) \/ ResendOk(r) \/ ResendFails(r)

Goroutine(r) == PostOk(r) \/ PostFails(r) \/ Put(r) \/ Shift(r) \/ Drain(r)

Next == crash = "no" /\ \E r \in Requests : Begin(r) \/ Goroutine(r)

Spec == Init /\ [][Next]_vars

(* A goroutine that can run runs, and every POST ends (httpClient.Timeout).    *)
Fairness == \A r \in Requests : WF_vars(crash = "no" /\ Goroutine(r))

FairSpec == Spec /\ Fairness

--------------------------------------------------------------------------------
Elements == [req : Requests, callback : BOOLEAN]

Labels == {"new", "post", "fit", "evict", "append", "appendWrite", "grow", "growWrite",
           "shift", "cut", "cutWrite", "shrink", "shrinkWrite", "notify",
           "check", "peek", "resend", "done"}

(* Types of the variables.                                                     *)
TypeOK ==
  /\ queue \in Seq(Elements) /\ mem \in Int
  /\ pc \in [Requests -> Labels] /\ mode \in [Requests -> {"none", "put", "drain"}]
  /\ first \in [Requests -> Elements]
  /\ qreg \in [Requests -> Seq(Elements)] /\ mreg \in [Requests -> Int]
  /\ acked \in [Requests -> Nat] /\ sent \in [Requests -> Nat] /\ shifted \in [Requests -> Nat]
  /\ crash \in {"no", "nil", "empty"}

SizeOf(q) ==
  LET upTo[k \in 0..Len(q)] == IF k = 0 THEN 0 ELSE upTo[k - 1] + Size[q[k].req]
  IN  upTo[Len(q)]

InQueue(r) == \E k \in DOMAIN queue : queue[k].req = r

(* With nobody inside ingest, currentMemorySize is the size of the queue: no   *)
(* sequence of puts, evictions and drains makes the two drift apart.           *)
MemoryIsQueueSize == Inside = {} => mem = SizeOf(queue)

(* The queue never holds maxMemorySizeInBytes or more.                         *)
QueueIsBounded == queue # <<>> => SizeOf(queue) < MaxMemory

(* A request ingest has finished with is acknowledged, waits in the queue, was *)
(* shifted out, or was larger than the whole buffer.                           *)
NothingForgotten ==
  crash = "no" /\ Inside = {} =>
    \A r \in Requests :
      At(r, "done") => acked[r] > 0 \/ InQueue(r) \/ shifted[r] > 0 \/ Size[r] > MaxMemory

(* retry_policy.go line 56, "Caution: must be called when queue.length > 0":   *)
(* when the goroutines take turns, shift finds the queue empty for one kind of *)
(* batch only, the one exactly as large as the buffer (lines 37 and 43).       *)
EmptyShiftNeedsFullBatch == crash = "empty" => \E r \in Inside : Size[r] = MaxMemory

(* ingest ends: neither the eviction loop nor the drain loop runs for ever.    *)
IngestEnds == \A r \in Requests : At(r, "post") ~> (At(r, "done") \/ crash # "no")

(* Whatever the goroutines do to the shared queue, a request acknowledged at   *)
(* its first POST is reported once, as sent, and never enters the queue.       *)
DirectIsToldOnce ==
  \A r \in Requests :
    mode[r] = "drain" => acked[r] = 1 /\ sent[r] = 1 /\ shifted[r] = 0 /\ ~InQueue(r)

(* Whatever they do, no more callbacks report success than POSTs succeeded.    *)
SuccessesAreAcknowledged == SumFunction(sent) <= SumFunction(acked)

--------------------------------------------------------------------------------
(* The state of RequestDelivery that a state stands for when the goroutines    *)
(* take turns: between a successful resend and the write of the shorter queue  *)
(* the first element has already left the abstract queue.                      *)
Leaving == \E r \in Requests : mode[r] = "drain" /\ pc[r] \in {"shift", "cut", "cutWrite"}

Waiting == LET reqs == [k \in DOMAIN queue |-> queue[k].req]
           IN  IF Leaving THEN Tail(reqs) ELSE reqs

Evicted == {r \in Requests : shifted[r] > 0}
             \cup {first[r].req : r \in {s \in Requests :
                     mode[s] = "put" /\ pc[s] \in {"shrink", "shrinkWrite", "notify"}}}

Told(r) == CASE sent[r] > 0    -> "sent"
             [] shifted[r] > 0 -> "shifted"
             [] OTHER          -> "nothing"

Delivery == INSTANCE RequestDelivery
              WITH started <- {r \in Requests : pc[r] # "new"},
                   waiting <- Waiting,
                   acked   <- {r \in Requests : acked[r] > 0},
                   shed    <- Evicted,
                   told    <- [r \in Requests |-> Told(r)]

(* Goroutines that take turns implement the promise.                           *)
ImplementsDelivery == Delivery!Spec
================================================================================
