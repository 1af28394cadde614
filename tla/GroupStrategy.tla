----------------------------- MODULE GroupStrategy -----------------------------
(* The group strategy of the ingester (ingester/group_strategy.go): items are *)
(* accumulated under a lock and handed, a whole batch at a time, to the retry *)
(* policy; a worker goroutine per activation flushes on a timer and once more *)
(* when its context is cancelled; a sync.WaitGroup lets ShutdownWithTimeout   *)
(* wait for every batch that has been handed over.                            *)
(*                                                                            *)
(* A step is one critical section of gs.lock, one operation on the wait group *)
(* or one unlocked access to a shared field: everything between two of them   *)
(* touches locals only.  An activation is named by its epoch, the number of   *)
(* contexts created so far; a call of ShutdownWithTimeout that finds the      *)
(* strategy active is named by the epoch it ends.                             *)
EXTENDS Integers, FiniteSets, Functions

CONSTANTS Items,         \* the requests given to Publish, one calling goroutine each
          Exposures,     \* Exposures[i]: the number of exposures item i carries
          Detected,      \* the items that carry a newly detected flag
          Poison,        \* the items json.Marshal rejects (a NaN attribute)
          Threshold,     \* firstExposuresIngestThreshold
          MaxItemsRange, \* the values of SDKIngestionMaxItems in the configurations
          MaxEpoch,      \* bound on the number of calls of Activate
          Overlap        \* may Activate and ShutdownWithTimeout overlap in time?

ASSUME ItemsAssumption  == /\ IsFiniteSet(Items)
                           /\ Exposures \in [Items -> Nat]
                           /\ Detected \subseteq Items
                           /\ Poison \subseteq Items
ASSUME ConfigAssumption == /\ Threshold \in Nat
                           /\ MaxItemsRange \subseteq Nat
                           /\ MaxEpoch \in Nat
                           /\ Overlap \in BOOLEAN

Epochs == 1..MaxEpoch

VARIABLES
  \* fields of groupStrategy
  isActive, ctx, cancelled, maxItems, callCount, exposuresCount, accumulator,
  \* sync.WaitGroup and the panics it raises
  wg, waiter, crash,
  \* goroutines: publishers, workers, callers of ShutdownWithTimeout
  publish, worker, watch, seen, stop,
  \* what happened to the items: history of Publish, and the retry policy's part
  accepted, flight, hollow, settled, lost, leaked

config   == <<isActive, ctx, cancelled, maxItems>>
buffer   == <<callCount, exposuresCount, accumulator, accepted>>
group    == <<wg, waiter, crash>>
workers  == <<worker, watch, seen>>
handover == <<flight, hollow, settled, lost, leaked>>
vars     == <<config, buffer, group, publish, workers, stop, handover>>

Handed == UNION flight

(* newGroupStrategy: inactive, no context yet, the default configuration.     *)
Init ==
  /\ isActive = FALSE /\ ctx = 0 /\ cancelled = {} /\ maxItems \in MaxItemsRange
  /\ callCount = 0 /\ exposuresCount = 0 /\ accumulator = {} /\ accepted = {}
  /\ wg = 0 /\ waiter = [e \in Epochs |-> "none"] /\ crash = "no"
  /\ publish = [i \in Items |-> "idle"]
  /\ worker = [e \in Epochs |-> "none"]
  /\ watch = [e \in Epochs |-> 0] /\ seen = [e \in Epochs |-> FALSE]
  /\ stop = [e \in Epochs |-> "none"]
  /\ flight = {} /\ hollow = 0 /\ settled = {} /\ lost = {} /\ leaked = 0

--------------------------------------------------------------------------------
(* sync.WaitGroup.  A Done that brings the counter to zero wakes every waiter; *)
(* a Done at zero panics ("negative WaitGroup counter"); a waiter that finds,  *)
(* once it runs again, a counter that is not zero panics ("WaitGroup is        *)
(* reused before previous Wait has returned").                                 *)

WgAdd == wg' = wg + 1 /\ UNCHANGED <<waiter, crash>>

WgDone ==
  \/ /\ wg > 0
     /\ wg' = wg - 1
     /\ waiter' = [e \in Epochs |->
                     IF wg = 1 /\ waiter[e] = "waiting" THEN "woken" ELSE waiter[e]]
     /\ UNCHANGED crash
  \/ /\ wg = 0
     /\ crash' = "negative"
     /\ UNCHANGED <<wg, waiter>>

WaitCall(e) ==
  /\ waiter[e] = "called"
  /\ waiter' = [waiter EXCEPT ![e] = IF wg = 0 THEN "returned" ELSE "waiting"]
  /\ UNCHANGED <<config, buffer, wg, crash, publish, workers, stop, handover>>

WaitResume(e) ==
  /\ waiter[e] = "woken"
  /\ \/ wg = 0 /\ waiter' = [waiter EXCEPT ![e] = "returned"] /\ UNCHANGED crash
     \/ wg # 0 /\ crash' = "reused" /\ UNCHANGED waiter
  /\ UNCHANGED <<config, buffer, wg, publish, workers, stop, handover>>

--------------------------------------------------------------------------------
(* ingest(): under the lock, marshal the accumulator, start the goroutine that *)
(* hands the bytes to the retry policy, clear the count and the accumulator.   *)
(* When Marshal fails nothing is handed over and the callback is dropped, yet  *)
(* the accumulator is cleared all the same.                                    *)

IngestKeepsItems ==  \* fault: the accumulator is not reset
  /\ callCount' = 0
  /\ flight' = flight \cup ({accumulator} \ {{}})
  /\ UNCHANGED <<accumulator, exposuresCount, accepted, hollow, settled, lost, leaked>>

Ingest ==
  /\ callCount' = 0
  /\ accumulator' = {}
  /\ \/ /\ accumulator \cap Poison = {}
        /\ flight' = flight \cup ({accumulator} \ {{}})
        /\ hollow' = IF accumulator = {} THEN hollow + 1 ELSE hollow
        /\ UNCHANGED <<lost, leaked>>
     \/ /\ accumulator \cap Poison # {}
        /\ lost' = lost \cup accumulator
        /\ leaked' = leaked + 1
        /\ UNCHANGED <<flight, hollow>>
  /\ UNCHANGED <<exposuresCount, accepted, settled>>

(* The retry policy has finished with a batch and calls its callback, which is *)
(* gs.wg.Done() for every batch (RetryPolicyCallback, ingester/types.go).      *)
Settle(batch) ==
  /\ flight' = flight \ {batch}
  /\ settled' = settled \cup batch
  /\ WgDone
  /\ UNCHANGED <<config, buffer, publish, workers, stop, hollow, lost, leaked>>

SettleHollow ==
  /\ hollow > 0
  /\ hollow' = hollow - 1
  /\ WgDone
  /\ UNCHANGED <<config, buffer, publish, workers, stop, flight, settled, lost, leaked>>

--------------------------------------------------------------------------------
(* Publish(data): the locked part, then, when the item calls for a flush, the  *)
(* unlocked Add(1) and the call of ingest.                                     *)

ShouldSendLate(i, calls, exposures) ==  \* fault: > for >= on the call count
  \/ calls > maxItems
  \/ i \in Detected
  \/ Exposures[i] > 0 /\ exposures <= Threshold

ShouldSendFewer(i, calls, exposures) ==  \* fault: < for <= on the threshold
  \/ calls >= maxItems
  \/ i \in Detected
  \/ Exposures[i] > 0 /\ exposures < Threshold

ShouldSend(i, calls, exposures) ==
  \/ calls >= maxItems
  \/ i \in Detected
  \/ Exposures[i] > 0 /\ exposures <= Threshold

CountDown(i) == exposuresCount - Exposures[i]  \* fault: a budget that is not refilled

CountExposures(i) ==
  IF exposuresCount <= Threshold THEN exposuresCount + Exposures[i] ELSE exposuresCount

AcceptAlways(i) ==  \* fault: the isActive check is missing
  /\ publish[i] = "idle"
  /\ accumulator' = accumulator \cup {i}
  /\ accepted' = accepted \cup {i}
  /\ callCount' = callCount + 1
  /\ publish' = [publish EXCEPT ![i] = "done"]
  /\ UNCHANGED <<exposuresCount, config, group, workers, stop, handover>>

Accept(i) ==
  /\ publish[i] = "idle"
  /\ isActive
  /\ accumulator' = accumulator \cup {i}
  /\ accepted' = accepted \cup {i}
  /\ callCount' = callCount + 1
  /\ exposuresCount' = CountExposures(i)
  /\ publish' = [publish EXCEPT ![i] =
                   IF ShouldSend(i, callCount + 1, exposuresCount') THEN "add" ELSE "done"]
  /\ UNCHANGED <<config, group, workers, stop, handover>>

Reject(i) ==
  /\ publish[i] = "idle"
  /\ ~isActive
  /\ publish' = [publish EXCEPT ![i] = "rejected"]
  /\ UNCHANGED <<config, buffer, group, workers, stop, handover>>

PublishForgetsAdd(i) ==  \* fault: no Add(1) before ingest
  /\ publish[i] = "add"
  /\ publish' = [publish EXCEPT ![i] = "ingest"]
  /\ UNCHANGED <<config, buffer, group, workers, stop, handover>>

PublishAdd(i) ==
  /\ publish[i] = "add"
  /\ WgAdd
  /\ publish' = [publish EXCEPT ![i] = "ingest"]
  /\ UNCHANGED <<config, buffer, workers, stop, handover>>

PublishIngest(i) ==
  /\ publish[i] = "ingest"
  /\ Ingest
  /\ publish' = [publish EXCEPT ![i] = "done"]
  /\ UNCHANGED <<config, group, workers, stop>>

--------------------------------------------------------------------------------
(* The worker goroutine of an activation.  gs.ctx is read again, unlocked, at  *)
(* every entry of the select, so a worker may come to watch a later context    *)
(* than the one it was started for.                                            *)

Watch(e) ==
  /\ worker[e] = "loop"
  /\ watch' = [watch EXCEPT ![e] = ctx]
  /\ worker' = [worker EXCEPT ![e] = "select"]
  /\ UNCHANGED <<config, buffer, group, publish, seen, stop, handover>>

(* The timer fires: callCount is read under the lock, then released.           *)
Tick(e) ==
  /\ worker[e] = "select"
  /\ seen' = [seen EXCEPT ![e] = callCount > 0]
  /\ watch' = [watch EXCEPT ![e] = 0]
  /\ worker' = [worker EXCEPT ![e] = "tick"]
  /\ UNCHANGED <<config, buffer, group, publish, stop, handover>>

TickAdd(e) ==
  /\ worker[e] = "tick"
  /\ WgAdd
  /\ worker' = [worker EXCEPT ![e] = "counted"]
  /\ UNCHANGED <<config, buffer, publish, watch, seen, stop, handover>>

TickIngest(e) ==
  /\ worker[e] = "counted"
  /\ seen[e]
  /\ Ingest
  /\ seen' = [seen EXCEPT ![e] = FALSE]
  /\ worker' = [worker EXCEPT ![e] = "loop"]
  /\ UNCHANGED <<config, group, publish, watch, stop>>

TickIdle(e) ==
  /\ worker[e] = "counted"
  /\ ~seen[e]
  /\ WgDone
  /\ worker' = [worker EXCEPT ![e] = "loop"]
  /\ UNCHANGED <<config, buffer, publish, watch, seen, stop, handover>>

(* The watched context is cancelled: callCount is read without the lock.       *)
CtxDone(e) ==
  /\ worker[e] = "select"
  /\ watch[e] \in cancelled
  /\ seen' = [seen EXCEPT ![e] = callCount > 0]
  /\ watch' = [watch EXCEPT ![e] = 0]
  /\ worker' = [worker EXCEPT ![e] = "final"]
  /\ UNCHANGED <<config, buffer, group, publish, stop, handover>>

FinalIngest(e) ==
  /\ worker[e] = "final"
  /\ seen[e]
  /\ Ingest
  /\ seen' = [seen EXCEPT ![e] = FALSE]
  /\ worker' = [worker EXCEPT ![e] = "exited"]
  /\ UNCHANGED <<config, group, publish, watch, stop>>

FinalIdleAlways(e) ==  \* fault: the last flush is skipped
  /\ worker[e] = "final"
  /\ WgDone
  /\ worker' = [worker EXCEPT ![e] = "exited"]
  /\ UNCHANGED <<config, buffer, publish, watch, seen, stop, handover>>

FinalIdle(e) ==
  /\ worker[e] = "final"
  /\ ~seen[e]
  /\ WgDone
  /\ worker' = [worker EXCEPT ![e] = "exited"]
  /\ UNCHANGED <<config, buffer, publish, watch, seen, stop, handover>>

--------------------------------------------------------------------------------
(* Activate and ShutdownWithTimeout.  Init calls Activate on a new ingester and *)
(* the SSE callback after its own Shutdown (flagger.go 96 and 102-103), hence  *)
(* on an inactive strategy when they take turns.  Nothing makes them: the      *)
(* callback takes no lock, so in another goroutine a Shutdown may be under way *)
(* and an Activate may have come first.                                        *)

Stopping(e)  == stop[e] \in {"stopping", "added", "waiting"}
ControlBusy  == \E e \in Epochs : Stopping(e)

(* config # nil replaces the configuration, nil keeps it.                      *)
Activate ==
  /\ Overlap \/ (~isActive /\ ~ControlBusy)
  /\ ctx < MaxEpoch
  /\ isActive' = TRUE
  /\ ctx' = ctx + 1
  /\ maxItems' \in MaxItemsRange
  /\ worker' = [worker EXCEPT ![ctx + 1] = "loop"]
  /\ UNCHANGED <<cancelled, buffer, group, publish, watch, seen, stop, handover>>

Deactivate ==
  /\ isActive /\ (Overlap \/ ~ControlBusy)
  /\ isActive' = FALSE
  /\ stop' = [stop EXCEPT ![ctx] = "stopping"]
  /\ UNCHANGED <<ctx, cancelled, maxItems, buffer, group, publish, workers, handover>>

ShutdownForgetsAdd(e) ==  \* fault: no Add(1) for the worker's last flush
  /\ stop[e] = "stopping"
  /\ stop' = [stop EXCEPT ![e] = "added"]
  /\ UNCHANGED <<config, buffer, group, publish, workers, handover>>

ShutdownAdd(e) ==
  /\ stop[e] = "stopping"
  /\ WgAdd
  /\ stop' = [stop EXCEPT ![e] = "added"]
  /\ UNCHANGED <<config, buffer, publish, workers, handover>>

(* gs.cancel is read without the lock: it cancels the context that is current  *)
(* now, which another goroutine's Activate may have replaced.                  *)
Cancel(e) ==
  /\ stop[e] = "added"
  /\ cancelled' = cancelled \cup {ctx}
  /\ stop' = [stop EXCEPT ![e] = "waiting"]
  /\ waiter' = [waiter EXCEPT ![e] = "called"]
  /\ UNCHANGED <<isActive, ctx, maxItems, buffer, wg, crash, publish, workers, handover>>

ReturnFlushed(e) ==
  /\ stop[e] = "waiting"
  /\ waiter[e] = "returned"
  /\ stop' = [stop EXCEPT ![e] = "flushed"]
  /\ UNCHANGED <<config, buffer, group, publish, workers, handover>>

ReturnTimedOut(e) ==
  /\ stop[e] = "waiting"
  /\ stop' = [stop EXCEPT ![e] = "timedOut"]
  /\ UNCHANGED <<config, buffer, group, publish, workers, handover>>

--------------------------------------------------------------------------------
Publisher(i) == Accept(i) \/ Reject(i) \/ PublishAdd(i) \/ PublishIngest(i)

Worker(e) == \/ Watch(e) \/ Tick(e) \/ TickAdd(e) \/ TickIngest(e) \/ TickIdle(e)
             \/ CtxDone(e) \/ FinalIngest(e) \/ FinalIdle(e)

Shutdown(e) == ShutdownAdd(e) \/ Cancel(e) \/ ReturnFlushed(e) \/ ReturnTimedOut(e)

Waiter(e) == WaitCall(e) \/ WaitResume(e)

Next ==
  /\ crash = "no"
  /\ \/ \E i \in Items : Publisher(i)
     \/ \E e \in Epochs : Worker(e) \/ Shutdown(e) \/ Waiter(e)
     \/ Activate \/ Deactivate
     \/ SettleHollow \/ \E batch \in flight : Settle(batch)

Spec == Init /\ [][Next]_vars

(* The Go scheduler runs every goroutine that can run, and a timer that is     *)
(* always reset fires again.  Nothing is assumed of the callers of Publish,    *)
(* Activate and ShutdownWithTimeout, nor of the server behind Settle.          *)
Fairness ==
  /\ \A i \in Items : WF_vars(crash = "no" /\ (PublishAdd(i) \/ PublishIngest(i)))
  /\ \A e \in Epochs : WF_vars(crash = "no" /\ Worker(e))

FairSpec == Spec /\ Fairness

--------------------------------------------------------------------------------
(* Types of the variables.                                                     *)
TypeOK ==
  /\ isActive \in BOOLEAN
  /\ ctx \in 0..MaxEpoch
  /\ cancelled \subseteq 0..MaxEpoch
  /\ maxItems \in MaxItemsRange
  /\ callCount \in Nat /\ exposuresCount \in Nat
  /\ accumulator \subseteq Items /\ accepted \subseteq Items
  /\ wg \in Nat
  /\ waiter \in [Epochs -> {"none", "called", "waiting", "woken", "returned"}]
  /\ crash \in {"no", "negative", "reused"}
  /\ publish \in [Items -> {"idle", "add", "ingest", "done", "rejected"}]
  /\ worker \in [Epochs -> {"none", "loop", "select", "tick", "counted", "final", "exited"}]
  /\ watch \in [Epochs -> 0..MaxEpoch] /\ seen \in [Epochs -> BOOLEAN]
  /\ stop \in [Epochs -> {"none", "stopping", "added", "waiting", "flushed", "timedOut"}]
  /\ flight \subseteq (SUBSET Items) \ {{}}
  /\ hollow \in Nat /\ leaked \in Nat
  /\ settled \subseteq Items /\ lost \subseteq Items

(* Every item Publish accepted is in exactly one place - the accumulator, one  *)
(* batch with the retry policy, finished, or lost in a failed Marshal - and    *)
(* callCount counts the accumulator, whatever publishers, workers and control  *)
(* calls do to each other (the unlock between lines 117 and 84 included).      *)
Conservation ==
  /\ accepted = accumulator \cup Handed \cup settled \cup lost
  /\ accumulator \cap (Handed \cup settled \cup lost) = {}
  /\ Handed \cap (settled \cup lost) = {}
  /\ settled \cap lost = {}
  /\ \A b1, b2 \in flight : b1 # b2 => b1 \cap b2 = {}
  /\ callCount = Cardinality(accumulator)

(* The counter of the wait group is what is owed: one for each publisher and   *)
(* worker between Add and ingest, one for each batch whose callback is due,    *)
(* one for each shutdown whose worker has not yet made its last flush.         *)
WaitGroupBalance ==
  crash = "no" =>
    wg + Cardinality({e \in Epochs : worker[e] = "exited"})
      = Cardinality({i \in Items : publish[i] = "ingest"})
        + Cardinality({e \in Epochs : worker[e] = "counted"})
        + Cardinality({e \in Epochs : stop[e] \in {"added", "waiting", "flushed", "timedOut"}})
        + Cardinality(flight) + hollow + leaked

(* What types.go (lines 22-23) wants of the wait group: when the latest        *)
(* ShutdownWithTimeout returns false, nothing that was ever accepted is still  *)
(* in the accumulator or with the retry policy.                                *)
ShutdownComplete ==
  \A e \in Epochs :
    stop[e] = "flushed" /\ ctx = e => accepted \subseteq settled \cup lost

(* startWorker lines 66-67, "this case is triggered by ShutdownWithTimeout",    *)
(* "gs.wg delta is 1": every Done has an Add of its own, so the counter never  *)
(* goes below zero.  It holds when control calls are serialised.               *)
NoNegativeCounter == crash # "negative"

(* An accumulator at or above every configured maximum has a publisher on its  *)
(* way to flush it: no order of publishers leaves a full buffer to the timer.  *)
FullBufferIsFlushed ==
  (\A m \in MaxItemsRange : callCount >= m) /\ callCount > 0 =>
    \E i \in Items : publish[i] \in {"add", "ingest"}

(* flagger.go line 17 and group_strategy_test.go line 378: the first           *)
(* exposures, up to the threshold, do not wait for the timer: one that is in   *)
(* the accumulator while no more than Threshold were accepted has a publisher  *)
(* on its way to flush it.                                                     *)
AcceptedExposures == SumFunctionOnSet(Exposures, accepted)

FirstExposuresAtOnce ==
  \A i \in accumulator :
    Exposures[i] > 0 /\ AcceptedExposures <= Threshold =>
      publish[i] \in {"add", "ingest"}

(* An accepted item leaves the accumulator, unless the process panics first:   *)
(* neither a missed tick nor a shutdown racing the timer strands it.           *)
AcceptedIsIngested ==
  \A i \in Items : i \in accumulator ~> (i \notin accumulator \/ crash # "no")

--------------------------------------------------------------------------------
(* The state of the contract that a state of the strategy stands for.          *)
Phase(i) ==
  CASE i \in accumulator          -> "buffered"
    [] i \in Handed               -> "handed"
    [] i \in settled              -> "finished"
    [] i \in lost                 -> "lost"
    [] publish[i] = "rejected"    -> "rejected"
    [] OTHER                      -> "new"

LatestClaim ==
  IF ctx > 0 /\ stop[ctx] \in {"flushed", "timedOut"} THEN stop[ctx] ELSE "none"

Contract == INSTANCE IngestionContract
              WITH open  <- isActive,
                   phase <- [i \in Items |-> Phase(i)],
                   claim <- LatestClaim

(* The strategy implements the contract when control calls are serialised.     *)
ImplementsContract == Contract!Spec

================================================================================
