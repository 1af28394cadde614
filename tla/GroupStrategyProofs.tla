-------------------------- MODULE GroupStrategyProofs --------------------------
(* Proofs about GroupStrategy for every set of items, every configuration and  *)
(* every number of activations: with overlapping control calls its types, the  *)
(* conservation of items, what is flushed at once and what the wait group's    *)
(* counter counts; with control calls that take turns (~Overlap) that the      *)
(* counter does not go below zero, that a clean shutdown is complete, and that *)
(* the group strategy implements IngestionContract.                            *)
EXTENDS GroupStrategy, SumProofs

USE DEF Epochs

--------------------------------------------------------------------------------
(* The initial state is well typed.                                            *)
LEMMA TypeInit == ASSUME Init PROVE TypeOK
<1>1. isActive \in BOOLEAN /\ seen \in [Epochs -> BOOLEAN]
  BY DEF Init
<1>2. /\ ctx \in 0..MaxEpoch /\ cancelled \subseteq 0..MaxEpoch
      /\ maxItems \in MaxItemsRange /\ watch \in [Epochs -> 0..MaxEpoch]
  BY ConfigAssumption DEF Init, ConfigAssumption
<1>3. /\ callCount \in Nat /\ exposuresCount \in Nat /\ wg \in Nat
      /\ hollow \in Nat /\ leaked \in Nat
      /\ accumulator \subseteq Items /\ accepted \subseteq Items
      /\ flight \subseteq (SUBSET Items) \ {{}}
      /\ settled \subseteq Items /\ lost \subseteq Items
  BY DEF Init
<1>4. /\ waiter \in [Epochs -> {"none", "called", "waiting", "woken", "returned"}]
      /\ crash \in {"no", "negative", "reused"}
      /\ publish \in [Items -> {"idle", "add", "ingest", "done", "rejected"}]
      /\ worker \in [Epochs -> {"none", "loop", "select", "tick", "counted", "final", "exited"}]
      /\ stop \in [Epochs -> {"none", "stopping", "added", "waiting", "flushed", "timedOut"}]
  BY DEF Init
<1> QED BY <1>1, <1>2, <1>3, <1>4, Zenon DEF TypeOK

(* A step keeps every variable in its type.                                    *)
LEMMA TypeStep == ASSUME TypeOK, [Next]_vars PROVE TypeOK'
<1> USE ItemsAssumption, ConfigAssumption DEF TypeOK, ItemsAssumption, ConfigAssumption
<1>0. WgDone => /\ wg' \in Nat
                /\ waiter' \in [Epochs -> {"none", "called", "waiting", "woken", "returned"}]
                /\ crash' \in {"no", "negative", "reused"}
  BY DEF WgDone
<1>1. Ingest => /\ callCount' \in Nat /\ exposuresCount' \in Nat
                /\ accumulator' \subseteq Items /\ accepted' \subseteq Items
                /\ flight' \subseteq (SUBSET Items) \ {{}}
                /\ hollow' \in Nat /\ leaked' \in Nat
                /\ settled' \subseteq Items /\ lost' \subseteq Items
  <2>1. Ingest => /\ callCount' \in Nat /\ exposuresCount' \in Nat
                  /\ accumulator' \subseteq Items /\ accepted' \subseteq Items
                  /\ settled' \subseteq Items /\ lost' \subseteq Items
    BY DEF Ingest
  <2>2. Ingest => flight' \subseteq (SUBSET Items) \ {{}}
    BY DEF Ingest
  <2>3. Ingest => hollow' \in Nat /\ leaked' \in Nat
    BY DEF Ingest
  <2> QED BY <2>1, <2>2, <2>3
<1>2. ASSUME NEW i \in Items, Accept(i) PROVE TypeOK'
  <2>1. /\ Exposures[i] \in Nat
        /\ callCount' \in Nat /\ exposuresCount' \in Nat
    BY <1>2 DEF Accept, CountExposures
  <2>2. /\ accumulator' \subseteq Items /\ accepted' \subseteq Items
        /\ publish' \in [Items -> {"idle", "add", "ingest", "done", "rejected"}]
    BY <1>2 DEF Accept
  <2> QED BY <1>2, <2>1, <2>2 DEF Accept, config, group, workers, handover
<1>3. ASSUME NEW i \in Items, Reject(i) PROVE TypeOK'
  BY <1>3 DEF Reject, config, group, workers, handover, buffer
<1>4. ASSUME NEW i \in Items, PublishAdd(i) PROVE TypeOK'
  BY <1>4 DEF PublishAdd, WgAdd, config, buffer, workers, handover
<1>5. ASSUME NEW i \in Items, PublishIngest(i) PROVE TypeOK'
  BY <1>1, <1>5 DEF PublishIngest, config, group, workers
<1>6. ASSUME NEW e \in Epochs, Watch(e) PROVE TypeOK'
  BY <1>6 DEF Watch, config, buffer, group, handover
<1>7. ASSUME NEW e \in Epochs, Tick(e) PROVE TypeOK'
  BY <1>7 DEF Tick, config, buffer, group, handover
<1>8. ASSUME NEW e \in Epochs, TickAdd(e) PROVE TypeOK'
  BY <1>8 DEF TickAdd, WgAdd, config, buffer, handover
<1>9. ASSUME NEW e \in Epochs, TickIngest(e) PROVE TypeOK'
  BY <1>1, <1>9 DEF TickIngest, config, group
<1>10. ASSUME NEW e \in Epochs, TickIdle(e) PROVE TypeOK'
  BY <1>0, <1>10 DEF TickIdle, config, buffer, handover
<1>11. ASSUME NEW e \in Epochs, CtxDone(e) PROVE TypeOK'
  BY <1>11 DEF CtxDone, config, buffer, group, handover
<1>12. ASSUME NEW e \in Epochs, FinalIngest(e) PROVE TypeOK'
  BY <1>1, <1>12 DEF FinalIngest, config, group
<1>13. ASSUME NEW e \in Epochs, FinalIdle(e) PROVE TypeOK'
  BY <1>0, <1>13 DEF FinalIdle, config, buffer, handover
<1>14. ASSUME NEW e \in Epochs, ShutdownAdd(e) PROVE TypeOK'
  BY <1>14 DEF ShutdownAdd, WgAdd, config, buffer, workers, handover
<1>15. ASSUME NEW e \in Epochs, Cancel(e) PROVE TypeOK'
  BY <1>15 DEF Cancel, buffer, workers, handover
<1>16. ASSUME NEW e \in Epochs, ReturnFlushed(e) \/ ReturnTimedOut(e) PROVE TypeOK'
  <2>1. UNCHANGED <<config, buffer, group, publish, workers, handover>>
    BY <1>16 DEF ReturnFlushed, ReturnTimedOut
  <2>2. stop' \in [Epochs -> {"none", "stopping", "added", "waiting", "flushed", "timedOut"}]
    BY <1>16 DEF ReturnFlushed, ReturnTimedOut
  <2> QED BY <2>1, <2>2 DEF config, buffer, group, workers, handover
<1>17. ASSUME NEW e \in Epochs, Waiter(e) PROVE TypeOK'
  BY <1>17 DEF Waiter, WaitCall, WaitResume, config, buffer, workers, handover
<1>18. CASE Activate
  <2>1. /\ isActive' \in BOOLEAN /\ ctx' \in 0..MaxEpoch /\ maxItems' \in MaxItemsRange
        /\ UNCHANGED <<cancelled, buffer, group, publish, watch, seen, stop, handover>>
    BY <1>18 DEF Activate
  <2>2. worker' \in [Epochs -> {"none", "loop", "select", "tick", "counted", "final", "exited"}]
    BY <1>18 DEF Activate
  <2> QED BY <2>1, <2>2 DEF buffer, group, handover
<1>19. CASE Deactivate
  BY <1>19 DEF Deactivate, buffer, group, workers, handover
<1>20. CASE SettleHollow
  BY <1>0, <1>20 DEF SettleHollow, config, buffer, workers
<1>21. ASSUME NEW batch \in flight, Settle(batch) PROVE TypeOK'
  BY <1>0, <1>21 DEF Settle, config, buffer, workers
<1>22. CASE UNCHANGED vars
  BY <1>22 DEF vars, config, buffer, group, workers, handover
<1> QED
  BY <1>2, <1>3, <1>4, <1>5, <1>6, <1>7, <1>8, <1>9, <1>10, <1>11, <1>12, <1>13,
     <1>14, <1>15, <1>16, <1>17, <1>18, <1>19, <1>20, <1>21, <1>22
  DEF Next, Publisher, Worker, Shutdown

(* Every variable keeps its type, whatever publishers, workers, control calls  *)
(* and the retry policy do.                                                    *)
THEOREM TypeCorrect == Spec => []TypeOK
<1>1. Init => TypeOK
  BY TypeInit
<1>2. TypeOK /\ [Next]_vars => TypeOK'
  BY TypeStep
<1> QED BY <1>1, <1>2, PTL DEF Spec

--------------------------------------------------------------------------------
(* Conservation is not inductive alone: a publisher that has not started must  *)
(* not have been accepted already, or its item would be counted twice.         *)
NewIsNotAccepted == \A i \in Items : publish[i] = "idle" => i \notin accepted

ConservationInv == TypeOK /\ Conservation /\ NewIsNotAccepted

(* Adding a batch to those in flight adds its items to the items handed over.  *)
LEMMA HandedAdd ==
  ASSUME NEW F, NEW A
  PROVE  UNION (F \cup ({A} \ {{}})) = (UNION F) \cup A
OBVIOUS

(* Taking a batch out of disjoint ones takes exactly its items out.            *)
LEMMA HandedRemove ==
  ASSUME NEW F, NEW b \in F, \A b1, b2 \in F : b1 # b2 => b1 \cap b2 = {}
  PROVE  UNION (F \ {b}) = (UNION F) \ b
OBVIOUS

(* The empty accumulator has no items to count.                                *)
LEMMA IngestConserves == ASSUME Conservation, Ingest PROVE Conservation'
<1>1. accumulator' = {} /\ callCount' = 0 /\ callCount' = Cardinality(accumulator')
  BY FS_EmptySet DEF Ingest
<1>2. CASE /\ flight' = flight \cup ({accumulator} \ {{}})
           /\ UNCHANGED <<lost, settled, accepted>>
  <2>1. Handed' = Handed \cup accumulator
    BY <1>2, HandedAdd DEF Handed
  <2>2. \A b1, b2 \in flight' : b1 # b2 => b1 \cap b2 = {}
    BY <1>2 DEF Conservation, Handed
  <2> QED BY <1>1, <1>2, <2>1, <2>2 DEF Conservation
<1>3. CASE /\ lost' = lost \cup accumulator
           /\ UNCHANGED <<flight, settled, accepted>>
  BY <1>1, <1>3 DEF Conservation, Handed
<1> QED BY <1>2, <1>3 DEF Ingest

(* What leaves the buffer and the handover alone keeps every item in place.    *)
LEMMA UntouchedConserves ==
  ASSUME Conservation, UNCHANGED <<buffer, handover>> PROVE Conservation'
BY DEF Conservation, Handed, buffer, handover

(* Each step moves items between places and never copies or drops one.         *)
LEMMA ConservationStep ==
  ASSUME ConservationInv, [Next]_vars PROVE Conservation' /\ NewIsNotAccepted'
<1> USE DEF ConservationInv
<1>1. ASSUME NEW i \in Items, Accept(i) PROVE Conservation' /\ NewIsNotAccepted'
  <2>1. i \notin accepted /\ i \notin accumulator
    BY <1>1 DEF Accept, NewIsNotAccepted, Conservation
  <2>2. IsFiniteSet(accumulator)
    BY FS_Subset, ItemsAssumption DEF ItemsAssumption, TypeOK
  <2>3. Cardinality(accumulator') = Cardinality(accumulator) + 1
    BY <1>1, <2>1, <2>2, FS_AddElement DEF Accept
  <2>4. UNCHANGED <<flight, settled, lost>>
    BY <1>1 DEF Accept, handover
  <2>5. Conservation'
    BY <1>1, <2>1, <2>3, <2>4 DEF Accept, Conservation, Handed
  <2>6. publish'[i] # "idle" /\ \A j \in Items \ {i} : publish'[j] = publish[j]
    BY <1>1 DEF Accept, TypeOK
  <2>7. NewIsNotAccepted'
    BY <1>1, <2>6 DEF Accept, NewIsNotAccepted
  <2> QED BY <2>5, <2>7
<1>2. ASSUME NEW i \in Items, Reject(i) \/ PublishAdd(i) PROVE Conservation' /\ NewIsNotAccepted'
  <2>1. UNCHANGED <<buffer, handover>>
    BY <1>2 DEF Reject, PublishAdd
  <2>2. \A j \in Items : publish'[j] = "idle" => publish[j] = "idle"
    BY <1>2 DEF Reject, PublishAdd, TypeOK
  <2> QED BY <2>1, <2>2, UntouchedConserves DEF NewIsNotAccepted, buffer
<1>3. ASSUME NEW i \in Items, PublishIngest(i) PROVE Conservation' /\ NewIsNotAccepted'
  <2>1. Conservation'
    BY <1>3, IngestConserves DEF PublishIngest
  <2>2. UNCHANGED accepted /\ \A j \in Items : publish'[j] = "idle" => publish[j] = "idle"
    BY <1>3 DEF PublishIngest, Ingest, TypeOK
  <2> QED BY <2>1, <2>2 DEF NewIsNotAccepted
<1>4. ASSUME NEW e \in Epochs, TickIngest(e) \/ FinalIngest(e)
      PROVE Conservation' /\ NewIsNotAccepted'
  <2>1. Conservation'
    BY <1>4, IngestConserves DEF TickIngest, FinalIngest
  <2>2. UNCHANGED <<accepted, publish>>
    BY <1>4 DEF TickIngest, FinalIngest, Ingest
  <2> QED BY <2>1, <2>2 DEF NewIsNotAccepted
<1>5. ASSUME NEW batch \in flight, Settle(batch) PROVE Conservation' /\ NewIsNotAccepted'
  <2>1. Handed' = Handed \ batch
    BY <1>5, HandedRemove DEF Settle, Handed, Conservation
  <2>2. batch \subseteq Handed
    BY DEF Handed
  <2>3. UNCHANGED <<buffer, lost, publish>> /\ settled' = settled \cup batch
    BY <1>5 DEF Settle
  <2>4. \A b1, b2 \in flight' : b1 # b2 => b1 \cap b2 = {}
    BY <1>5 DEF Settle, Conservation
  <2> QED BY <2>1, <2>2, <2>3, <2>4 DEF Conservation, NewIsNotAccepted, buffer
<1>6. CASE SettleHollow
  BY <1>6 DEF SettleHollow, Conservation, NewIsNotAccepted, Handed, buffer
<1>7. ASSUME NEW e \in Epochs,
             \/ Watch(e) \/ Tick(e) \/ TickAdd(e) \/ TickIdle(e) \/ CtxDone(e) \/ FinalIdle(e)
             \/ Shutdown(e) \/ Waiter(e)
      PROVE Conservation' /\ NewIsNotAccepted'
  <2>1. UNCHANGED <<buffer, handover, publish>>
    BY <1>7 DEF Watch, Tick, TickAdd, TickIdle, CtxDone, FinalIdle, Waiter, WaitCall, WaitResume,
                Shutdown, ShutdownAdd, Cancel, ReturnFlushed, ReturnTimedOut
  <2> QED BY <2>1, UntouchedConserves DEF NewIsNotAccepted, buffer
<1>8. CASE Activate \/ Deactivate \/ UNCHANGED vars
  <2>1. UNCHANGED <<buffer, handover, publish>>
    BY <1>8 DEF Activate, Deactivate, vars
  <2> QED BY <2>1, UntouchedConserves DEF NewIsNotAccepted, buffer
<1> QED
  BY <1>1, <1>2, <1>3, <1>4, <1>5, <1>6, <1>7, <1>8 DEF Next, Publisher, Worker

(* No item that Publish accepted is lost, duplicated or counted twice between  *)
(* the accumulator, the retry policy and the failed Marshals, in any           *)
(* interleaving of publishers, workers, activations and shutdowns.             *)
THEOREM ItemsAreConserved == Spec => []Conservation
<1>1. Init => ConservationInv
  <2> SUFFICES ASSUME Init PROVE Conservation /\ NewIsNotAccepted
    BY TypeInit DEF ConservationInv
  <2>1. Cardinality(accumulator) = 0
    BY FS_EmptySet DEF Init
  <2> QED BY <2>1 DEF Init, Conservation, NewIsNotAccepted, Handed
<1>2. ConservationInv /\ [Next]_vars => ConservationInv'
  BY TypeStep, ConservationStep DEF ConservationInv
<1>3. ConservationInv => Conservation
  BY DEF ConservationInv
<1> QED BY <1>1, <1>2, <1>3, PTL DEF Spec

--------------------------------------------------------------------------------
(* What neither adds to the buffer nor takes a publisher off its way keeps the *)
(* publisher that is going to flush.                                           *)
LEMMA FlushKept ==
  ASSUME FullBufferIsFlushed, callCount' = callCount,
         \A i \in Items : publish[i] \in {"add", "ingest"} => publish'[i] \in {"add", "ingest"}
  PROVE  FullBufferIsFlushed'
BY DEF FullBufferIsFlushed

(* After a flush there is nothing to flush.                                    *)
LEMMA IngestEmpties == ASSUME Ingest PROVE FullBufferIsFlushed'
BY DEF Ingest, FullBufferIsFlushed

LEMMA FlushStep == ASSUME TypeOK, FullBufferIsFlushed, [Next]_vars PROVE FullBufferIsFlushed'
<1>1. ASSUME NEW i \in Items, Accept(i) PROVE FullBufferIsFlushed'
  <2>1. publish'[i] = IF ShouldSend(i, callCount + 1, exposuresCount') THEN "add" ELSE "done"
    BY <1>1 DEF Accept, TypeOK
  <2>2. callCount' >= maxItems => publish'[i] = "add"
    BY <1>1, <2>1 DEF Accept, ShouldSend
  <2> QED BY <2>2 DEF FullBufferIsFlushed, TypeOK
<1>2. ASSUME NEW i \in Items, Reject(i) \/ PublishAdd(i) PROVE FullBufferIsFlushed'
  <2>1. callCount' = callCount
    BY <1>2 DEF Reject, PublishAdd, buffer
  <2>2. \A j \in Items : publish[j] \in {"add", "ingest"} => publish'[j] \in {"add", "ingest"}
    BY <1>2 DEF Reject, PublishAdd, TypeOK
  <2> QED BY <2>1, <2>2, FlushKept
<1>3. ASSUME NEW i \in Items, PublishIngest(i) PROVE FullBufferIsFlushed'
  BY <1>3, IngestEmpties DEF PublishIngest
<1>4. ASSUME NEW e \in Epochs, TickIngest(e) \/ FinalIngest(e) PROVE FullBufferIsFlushed'
  BY <1>4, IngestEmpties DEF TickIngest, FinalIngest
<1>5. CASE UNCHANGED <<callCount, publish>>
  BY <1>5, FlushKept
<1>6. ASSUME NEW e \in Epochs,
             \/ Watch(e) \/ Tick(e) \/ TickAdd(e) \/ TickIdle(e) \/ CtxDone(e) \/ FinalIdle(e)
             \/ Shutdown(e) \/ Waiter(e)
      PROVE  UNCHANGED <<callCount, publish>>
  BY <1>6 DEF Watch, Tick, TickAdd, TickIdle, CtxDone, FinalIdle, Waiter, WaitCall, WaitResume,
              Shutdown, ShutdownAdd, Cancel, ReturnFlushed, ReturnTimedOut, buffer
<1>7. ASSUME Activate \/ Deactivate \/ SettleHollow \/ (\E batch \in flight : Settle(batch))
             \/ UNCHANGED vars
      PROVE  UNCHANGED <<callCount, publish>>
  BY <1>7 DEF Activate, Deactivate, SettleHollow, Settle, vars, buffer
<1> QED
  BY <1>1, <1>2, <1>3, <1>4, <1>5, <1>6, <1>7 DEF Next, Publisher, Worker

(* A buffer at or above every maximum a configuration may set has a publisher  *)
(* on its way to flush it, whatever the timer, shutdowns and new               *)
(* configurations do (group_strategy.go 101-123).                              *)
THEOREM FullBuffersAreFlushed == Spec => []FullBufferIsFlushed
<1>1. Init => TypeOK /\ FullBufferIsFlushed
  <2>1. ASSUME Init PROVE FullBufferIsFlushed
    <3>1. ~(callCount > 0)
      BY <2>1 DEF Init
    <3> QED BY <3>1, Zenon DEF FullBufferIsFlushed
  <2> QED BY <2>1, TypeInit
<1>2. TypeOK /\ FullBufferIsFlushed /\ [Next]_vars => (TypeOK /\ FullBufferIsFlushed)'
  BY TypeStep, FlushStep
<1> QED BY <1>1, <1>2, PTL DEF Spec

--------------------------------------------------------------------------------
(* exposuresCount stops counting above the threshold, so it may fall behind    *)
(* what was accepted; it never runs ahead of it.                               *)
FirstInv ==
  TypeOK /\ NewIsNotAccepted /\ exposuresCount <= AcceptedExposures /\ FirstExposuresAtOnce

LEMMA AcceptedSums ==
  ASSUME TypeOK
  PROVE  /\ AcceptedExposures \in Nat
         /\ \A i \in Items \ accepted :
              SumFunctionOnSet(Exposures, accepted \cup {i}) = AcceptedExposures + Exposures[i]
<1>1. IsFiniteSet(accepted) /\ \A i \in Items : Exposures[i] \in Nat
  BY ItemsAssumption, FS_Subset DEF ItemsAssumption, TypeOK
<1>2. \A i \in accepted : Exposures[i] \in Nat
  BY <1>1 DEF TypeOK
<1>3. AcceptedExposures \in Nat
  BY <1>1, <1>2, SumOnSetType DEF AcceptedExposures
<1>4. ASSUME NEW i \in Items \ accepted
      PROVE  SumFunctionOnSet(Exposures, accepted \cup {i}) = AcceptedExposures + Exposures[i]
  <2>1. \A y \in accepted \cup {i} : Exposures[y] \in Nat
    BY <1>1, <1>2
  <2> QED BY <1>1, <2>1, SumAdds DEF AcceptedExposures
<1> QED BY <1>3, <1>4

(* An item is judged as it is accepted: with the count that includes it.       *)
LEMMA FirstAccepted ==
  ASSUME FirstInv, NEW i \in Items, Accept(i)
  PROVE  exposuresCount' <= AcceptedExposures' /\ FirstExposuresAtOnce'
<1>1. /\ i \notin accepted /\ accepted' = accepted \cup {i} /\ accumulator' = accumulator \cup {i}
      /\ Threshold \in Nat /\ exposuresCount \in Nat /\ Exposures[i] \in Nat
      /\ exposuresCount' = CountExposures(i)
      /\ publish'[i] = IF ShouldSend(i, callCount + 1, exposuresCount') THEN "add" ELSE "done"
      /\ \A j \in Items \ {i} : publish'[j] = publish[j]
  BY ItemsAssumption, ConfigAssumption
     DEF FirstInv, Accept, NewIsNotAccepted, TypeOK, ItemsAssumption, ConfigAssumption
<1>2. AcceptedExposures \in Nat /\ AcceptedExposures' = AcceptedExposures + Exposures[i]
  BY <1>1, AcceptedSums DEF FirstInv, AcceptedExposures
<1>3. exposuresCount' <= AcceptedExposures'
  BY <1>1, <1>2 DEF FirstInv, CountExposures
<1>4. Exposures[i] > 0 /\ AcceptedExposures' <= Threshold => publish'[i] = "add"
  <2>1. exposuresCount' \in Nat
    BY <1>1 DEF CountExposures
  <2>2. AcceptedExposures' <= Threshold => exposuresCount' <= Threshold
    BY <1>1, <1>2, <1>3, <2>1
  <2> QED BY <1>1, <2>2 DEF ShouldSend
<1>5. AcceptedExposures' <= Threshold => AcceptedExposures <= Threshold
  BY <1>1, <1>2
<1>6. \A j \in accumulator \ {i} : j \in Items
  BY DEF FirstInv, TypeOK
<1> QED BY <1>1, <1>3, <1>4, <1>5, <1>6 DEF FirstInv, FirstExposuresAtOnce

LEMMA FirstStep ==
  ASSUME FirstInv, [Next]_vars
  PROVE  exposuresCount' <= AcceptedExposures' /\ FirstExposuresAtOnce'
<1>1. ASSUME UNCHANGED <<exposuresCount, accepted>>, accumulator' \in {accumulator, {}},
             \A j \in Items : publish[j] \in {"add", "ingest"} =>
                             publish'[j] \in {"add", "ingest"} \/ accumulator' = {}
      PROVE  exposuresCount' <= AcceptedExposures' /\ FirstExposuresAtOnce'
  BY <1>1 DEF FirstInv, FirstExposuresAtOnce, AcceptedExposures, TypeOK
<1>2. ASSUME NEW i \in Items, Publisher(i)
      PROVE  exposuresCount' <= AcceptedExposures' /\ FirstExposuresAtOnce'
  <2>1. CASE Accept(i)
    BY <2>1, FirstAccepted
  <2>2. CASE Reject(i) \/ PublishAdd(i)
    <3>1. UNCHANGED <<exposuresCount, accepted, accumulator>>
      BY <2>2 DEF Reject, PublishAdd, buffer
    <3>2. \A j \in Items : publish[j] \in {"add", "ingest"} => publish'[j] \in {"add", "ingest"}
      BY <2>2 DEF Reject, PublishAdd, FirstInv, TypeOK
    <3> QED BY <1>1, <3>1, <3>2
  <2>3. CASE PublishIngest(i)
    <3>1. UNCHANGED <<exposuresCount, accepted>> /\ accumulator' = {}
      BY <2>3 DEF PublishIngest, Ingest
    <3> QED BY <1>1, <3>1
  <2> QED BY <1>2, <2>1, <2>2, <2>3 DEF Publisher
<1>3. ASSUME NEW e \in Epochs, TickIngest(e) \/ FinalIngest(e)
      PROVE  exposuresCount' <= AcceptedExposures' /\ FirstExposuresAtOnce'
  <2>1. UNCHANGED <<exposuresCount, accepted>> /\ accumulator' = {}
    BY <1>3 DEF TickIngest, FinalIngest, Ingest
  <2> QED BY <1>1, <2>1
<1>4. ASSUME NEW e \in Epochs,
             \/ Watch(e) \/ Tick(e) \/ TickAdd(e) \/ TickIdle(e) \/ CtxDone(e) \/ FinalIdle(e)
             \/ Shutdown(e) \/ Waiter(e)
      PROVE  UNCHANGED <<buffer, publish>>
  BY <1>4 DEF Watch, Tick, TickAdd, TickIdle, CtxDone, FinalIdle, Waiter, WaitCall, WaitResume,
              Shutdown, ShutdownAdd, Cancel, ReturnFlushed, ReturnTimedOut
<1>5. ASSUME Activate \/ Deactivate \/ SettleHollow \/ (\E batch \in flight : Settle(batch))
             \/ UNCHANGED vars
      PROVE  UNCHANGED <<buffer, publish>>
  BY <1>5 DEF Activate, Deactivate, SettleHollow, Settle, vars
<1>6. ASSUME UNCHANGED <<buffer, publish>>
      PROVE  exposuresCount' <= AcceptedExposures' /\ FirstExposuresAtOnce'
  BY <1>1, <1>6 DEF buffer
<1> QED BY <1>2, <1>3, <1>4, <1>5, <1>6 DEF Next, Worker

(* The first exposures do not wait for the timer: while no more exposures than *)
(* the threshold were accepted, each one in the accumulator has a publisher on *)
(* its way to flush it, whatever number each request carries                   *)
(* (group_strategy.go 34-36 and 101-123).                                      *)
THEOREM FirstExposuresAreSent == Spec => []FirstExposuresAtOnce
<1>1. Init => FirstInv
  <2>1. ASSUME Init PROVE exposuresCount <= AcceptedExposures
    BY <2>1, FS_EmptySet, SumOnSetType DEF Init, AcceptedExposures
  <2>2. Init => TypeOK /\ NewIsNotAccepted /\ FirstExposuresAtOnce
    BY TypeInit DEF Init, NewIsNotAccepted, FirstExposuresAtOnce
  <2> QED BY <2>1, <2>2 DEF FirstInv
<1>2. FirstInv /\ Conservation /\ [Next]_vars => FirstInv'
  <2>1. FirstInv /\ Conservation => ConservationInv
    BY DEF FirstInv, ConservationInv
  <2> QED BY <2>1, TypeStep, ConservationStep, FirstStep DEF FirstInv, ConservationInv
<1>3. FirstInv => FirstExposuresAtOnce
  BY DEF FirstInv
<1> QED BY <1>1, <1>2, <1>3, ItemsAreConserved, PTL DEF Spec

--------------------------------------------------------------------------------
(* How many elements of S the function f sends into V.                         *)
Count(S, f, V) == Cardinality({y \in S : f[y] \in V})

(* It changes with the function: by at most one when that changes at one place. *)
Shifts(S, f, g, V, x) ==
  /\ (f[x] \in V <=> g[x] \in V) => Count(S, g, V) = Count(S, f, V)
  /\ f[x] \notin V /\ g[x] \in V => Count(S, g, V) = Count(S, f, V) + 1
  /\ f[x] \in V /\ g[x] \notin V => Count(S, g, V) = Count(S, f, V) - 1

LEMMA CountChanges ==
  ASSUME NEW S, IsFiniteSet(S), NEW f, NEW g, NEW V, NEW x \in S,
         \A y \in S \ {x} : g[y] = f[y]
  PROVE  Shifts(S, f, g, V, x)
<1> DEFINE A == {y \in S : f[y] \in V}
           B == {y \in S : g[y] \in V}
<1>1. Count(S, f, V) = Cardinality(A) /\ Count(S, g, V) = Cardinality(B)
  BY DEF Count
<1>2. IsFiniteSet(A) /\ IsFiniteSet(B)
  BY FS_Subset
<1>3. /\ (f[x] \in V <=> g[x] \in V) => B = A
      /\ f[x] \notin V /\ g[x] \in V => B = A \cup {x} /\ x \notin A
      /\ f[x] \in V /\ g[x] \notin V => A = B \cup {x} /\ x \notin B
  OBVIOUS
<1> HIDE DEF A, B
<1>4. Cardinality(A) \in Nat /\ Cardinality(B) \in Nat
  BY <1>2, FS_CardinalityType
<1>5. f[x] \notin V /\ g[x] \in V => Cardinality(B) = Cardinality(A) + 1
  BY <1>2, <1>3, FS_AddElement
<1>6. f[x] \in V /\ g[x] \notin V => Cardinality(B) = Cardinality(A) - 1
  <2>1. f[x] \in V /\ g[x] \notin V => Cardinality(A) = Cardinality(B) + 1
    BY <1>2, <1>3, FS_AddElement
  <2> QED BY <1>4, <2>1
<1> QED BY <1>1, <1>3, <1>5, <1>6 DEF Shifts

--------------------------------------------------------------------------------
Owes == {"added", "waiting", "flushed", "timedOut"}

(* The terms of WaitGroupBalance.                                              *)
Ingesting == Count(Items, publish, {"ingest"})
Counted   == Count(Epochs, worker, {"counted"})
Exited    == Count(Epochs, worker, {"exited"})
Owing     == Count(Epochs, stop, Owes)
Batches   == Cardinality(flight) + hollow + leaked

Balanced == wg + Exited = Ingesting + Counted + Owing + Batches

(* An epoch that has not begun has neither a worker nor a shutdown, and an     *)
(* active one has no shutdown yet.                                             *)
Fresh ==
  /\ \A e \in Epochs : e > ctx => worker[e] = "none" /\ stop[e] = "none"
  /\ isActive => ctx \in Epochs /\ stop[ctx] = "none"

LEMMA FinitelyMany ==
  /\ IsFiniteSet(Items) /\ IsFiniteSet(Epochs)
  /\ \A T : T \subseteq SUBSET Items => IsFiniteSet(T)
<1>1. IsFiniteSet(Items) /\ IsFiniteSet(SUBSET Items)
  BY ItemsAssumption, FS_SUBSET DEF ItemsAssumption
<1>2. IsFiniteSet(Epochs)
  BY FS_Interval, ConfigAssumption DEF ConfigAssumption, Epochs
<1> QED BY <1>1, <1>2, FS_Subset

LEMMA CountsAreNumbers ==
  ASSUME TypeOK
  PROVE  /\ Ingesting \in Nat /\ Counted \in Nat /\ Exited \in Nat /\ Owing \in Nat
         /\ Batches \in Nat /\ Cardinality(flight) \in Nat /\ IsFiniteSet(flight)
<1>1. IsFiniteSet(flight)
  BY FinitelyMany DEF TypeOK
<1>2. \A T : (T \subseteq Items \/ T \subseteq Epochs) => Cardinality(T) \in Nat
  BY FinitelyMany, FS_Subset, FS_CardinalityType
<1>3. Cardinality(flight) \in Nat
  BY <1>1, FS_CardinalityType
<1> QED BY <1>1, <1>2, <1>3 DEF Ingesting, Counted, Exited, Owing, Count, Batches, TypeOK

(* One publisher, worker or shutdown moves on.                                 *)
Moves(f, g, x, v) == g = [f EXCEPT ![x] = v]

LEMMA PublisherMoves ==
  ASSUME TypeOK, NEW i \in Items, NEW v, Moves(publish, publish', i, v)
  PROVE  /\ publish[i] # "ingest" /\ v # "ingest" => Ingesting' = Ingesting
         /\ publish[i] # "ingest" /\ v = "ingest" => Ingesting' = Ingesting + 1
         /\ publish[i] = "ingest" /\ v # "ingest" => Ingesting' = Ingesting - 1
<1>1. PICK f, g : /\ f = publish /\ g = publish' /\ g[i] = v
                  /\ \A y \in Items \ {i} : g[y] = f[y]
  BY DEF TypeOK, Moves
<1>2. Shifts(Items, f, g, {"ingest"}, i)
  BY <1>1, CountChanges, FinitelyMany
<1> QED BY <1>1, <1>2 DEF Shifts, Ingesting

LEMMA WorkerMoves ==
  ASSUME TypeOK, NEW e \in Epochs, NEW v, Moves(worker, worker', e, v)
  PROVE  /\ worker[e] # "counted" /\ v # "counted" => Counted' = Counted
         /\ worker[e] # "counted" /\ v = "counted" => Counted' = Counted + 1
         /\ worker[e] = "counted" /\ v # "counted" => Counted' = Counted - 1
         /\ worker[e] # "exited" /\ v # "exited" => Exited' = Exited
         /\ worker[e] # "exited" /\ v = "exited" => Exited' = Exited + 1
<1>0. worker'[e] = v /\ \A y \in Epochs \ {e} : worker'[y] = worker[y]
  BY DEF TypeOK, Moves
<1>1. PICK f, g : /\ f = worker /\ g = worker' /\ g[e] = v
                  /\ \A y \in Epochs \ {e} : g[y] = f[y]
  BY <1>0, Zenon
<1>2. Shifts(Epochs, f, g, {"counted"}, e)
  BY <1>1, CountChanges, FinitelyMany
<1>3. Shifts(Epochs, f, g, {"exited"}, e)
  BY <1>1, CountChanges, FinitelyMany
<1> QED BY <1>1, <1>2, <1>3 DEF Shifts, Counted, Exited

LEMMA ShutdownMoves ==
  ASSUME TypeOK, NEW e \in Epochs, NEW v, Moves(stop, stop', e, v)
  PROVE  /\ (stop[e] \in Owes <=> v \in Owes) => Owing' = Owing
         /\ stop[e] \notin Owes /\ v \in Owes => Owing' = Owing + 1
<1>0. stop'[e] = v /\ \A y \in Epochs \ {e} : stop'[y] = stop[y]
  BY DEF TypeOK, Moves
<1>1. PICK f, g : /\ f = stop /\ g = stop' /\ g[e] = v
                  /\ \A y \in Epochs \ {e} : g[y] = f[y]
  BY <1>0, Zenon
<1>2. Shifts(Epochs, f, g, Owes, e)
  BY <1>1, CountChanges, FinitelyMany
<1> QED BY <1>1, <1>2 DEF Shifts, Owing

(* A flush owes one more callback, whether the batch goes to the retry policy, *)
(* is empty, or cannot be marshalled.                                          *)
LEMMA IngestOwes ==
  ASSUME TypeOK, Conservation, Ingest PROVE Batches' = Batches + 1
<1>1. IsFiniteSet(flight) /\ Cardinality(flight) \in Nat /\ hollow \in Nat /\ leaked \in Nat
  BY CountsAreNumbers DEF TypeOK
<1>2. CASE flight' = flight \cup ({accumulator} \ {{}}) /\ accumulator = {}
           /\ hollow' = hollow + 1 /\ leaked' = leaked
  <2>1. flight' = flight
    BY <1>2
  <2>2. Cardinality(flight') = Cardinality(flight) /\ hollow' = hollow + 1 /\ leaked' = leaked
    BY <1>2, <2>1
  <2> QED BY <1>1, <2>2 DEF Batches
<1>3. CASE flight' = flight \cup ({accumulator} \ {{}}) /\ accumulator # {}
           /\ hollow' = hollow /\ leaked' = leaked
  <2>1. flight' = flight \cup {accumulator} /\ accumulator \notin flight
    BY <1>3 DEF Conservation, Handed
  <2>2. Cardinality(flight') = Cardinality(flight) + 1
    BY <1>1, <2>1, FS_AddElement
  <2> QED BY <1>1, <1>3, <2>2 DEF Batches
<1>4. CASE flight' = flight /\ hollow' = hollow /\ leaked' = leaked + 1
  BY <1>1, <1>4 DEF Batches
<1> QED BY <1>2, <1>3, <1>4 DEF Ingest

--------------------------------------------------------------------------------
(* The balance.                                                                *)
BalanceInv == ConservationInv /\ Fresh /\ (crash = "no" => Balanced)

LEMMA FreshStep == ASSUME TypeOK, Fresh, [Next]_vars PROVE Fresh'
<1>1. ASSUME NEW e \in Epochs, Worker(e) PROVE Fresh'
  <2>1. /\ worker[e] # "none" /\ UNCHANGED <<isActive, ctx, stop>>
        /\ \A d \in Epochs \ {e} : worker'[d] = worker[d]
    BY <1>1 DEF Worker, Watch, Tick, TickAdd, TickIngest, TickIdle, CtxDone, FinalIngest, FinalIdle,
                config, TypeOK
  <2> QED BY <2>1 DEF Fresh
<1>2. ASSUME NEW e \in Epochs, Shutdown(e) PROVE Fresh'
  <2>1. /\ stop[e] # "none" /\ UNCHANGED <<isActive, ctx, worker>>
        /\ \A d \in Epochs \ {e} : stop'[d] = stop[d]
    BY <1>2 DEF Shutdown, ShutdownAdd, Cancel, ReturnFlushed, ReturnTimedOut, config, workers, TypeOK
  <2> QED BY <2>1 DEF Fresh
<1>3. CASE Activate
  <2>1. PICK n \in Epochs : n = ctx + 1 /\ ctx' = n
    BY <1>3, ConfigAssumption DEF Activate, TypeOK, Epochs, ConfigAssumption
  <2>2. /\ worker' = [worker EXCEPT ![n] = "loop"] /\ stop' = stop
        /\ n > ctx /\ \A e \in Epochs : e > n => e > ctx /\ e # n
    BY <1>3, <2>1 DEF Activate, TypeOK, Epochs
  <2> QED BY <2>1, <2>2 DEF Fresh, TypeOK
<1>4. CASE Deactivate
  <2>1. PICK n \in Epochs : n = ctx /\ ctx' = n
    BY <1>4 DEF Deactivate, Fresh
  <2>2. /\ stop' = [stop EXCEPT ![n] = "stopping"] /\ worker' = worker /\ isActive' = FALSE
        /\ \A e \in Epochs : e > n => e # n
    BY <1>4, <2>1 DEF Deactivate, workers, Epochs
  <2> QED BY <2>1, <2>2 DEF Fresh, TypeOK
<1>5. CASE UNCHANGED <<isActive, ctx, worker, stop>>
  BY <1>5 DEF Fresh
<1>6. ASSUME \/ \E i \in Items : Publisher(i)
             \/ \E e \in Epochs : Waiter(e)
             \/ SettleHollow \/ (\E batch \in flight : Settle(batch)) \/ UNCHANGED vars
      PROVE  UNCHANGED <<isActive, ctx, worker, stop>>
  BY <1>6 DEF Publisher, Accept, Reject, PublishAdd, PublishIngest, Waiter, WaitCall, WaitResume,
              SettleHollow, Settle, vars, config, workers
<1> QED BY <1>1, <1>2, <1>3, <1>4, <1>5, <1>6 DEF Next

(* A Done that does not panic takes one off the counter.                       *)
LEMMA DoneTakesOne ==
  ASSUME TypeOK, WgDone, crash' = "no" PROVE wg' = wg - 1
BY DEF WgDone, TypeOK

LEMMA Steady ==
  ASSUME Balanced, UNCHANGED <<wg, flight, hollow, leaked>>,
         Ingesting' = Ingesting, Counted' = Counted, Exited' = Exited, Owing' = Owing
  PROVE  Balanced'
BY DEF Balanced, Batches

LEMMA BalanceStep ==
  ASSUME BalanceInv, [Next]_vars, crash' = "no" PROVE Balanced'
<1>1. TypeOK /\ Conservation /\ Fresh
  BY DEF BalanceInv, ConservationInv
<1>0. /\ Ingesting \in Nat /\ Counted \in Nat /\ Exited \in Nat /\ Owing \in Nat
      /\ Batches \in Nat /\ wg \in Nat
  BY <1>1, CountsAreNumbers DEF TypeOK
<1>2. CASE UNCHANGED vars
  <2>1. Balanced /\ UNCHANGED <<wg, flight, hollow, leaked, publish, worker, stop>>
    BY <1>2 DEF BalanceInv, vars, group, handover, workers
  <2> QED BY <2>1, Steady DEF Ingesting, Counted, Exited, Owing
<1>3. SUFFICES ASSUME Next, Balanced PROVE Balanced'
  BY <1>2 DEF BalanceInv, Next
<1>4. ASSUME NEW i \in Items, Publisher(i) PROVE Balanced'
  <2>1. UNCHANGED <<worker, stop>>
    BY <1>4 DEF Publisher, Accept, Reject, PublishAdd, PublishIngest, workers
  <2>2. Counted' = Counted /\ Exited' = Exited /\ Owing' = Owing
    BY <2>1 DEF Counted, Exited, Owing
  <2>3. CASE Accept(i) \/ Reject(i)
    <3>1. PICK v : v # "ingest" /\ Moves(publish, publish', i, v)
      BY <2>3 DEF Accept, Reject, Moves
    <3>2. publish[i] # "ingest" /\ UNCHANGED <<wg, flight, hollow, leaked>>
      BY <2>3 DEF Accept, Reject, group, handover
    <3> QED BY <1>1, <1>3, <2>2, <3>1, <3>2, PublisherMoves, Steady
  <2>4. CASE PublishAdd(i)
    <3>1. Ingesting' = Ingesting + 1
      <4>1. Moves(publish, publish', i, "ingest") /\ publish[i] = "add"
        BY <2>4 DEF PublishAdd, Moves
      <4> QED BY <1>1, <4>1, PublisherMoves
    <3>2. wg' = wg + 1 /\ Batches' = Batches
      BY <2>4 DEF PublishAdd, WgAdd, handover, Batches
    <3> QED BY <1>0, <1>3, <2>2, <3>1, <3>2 DEF Balanced
  <2>5. CASE PublishIngest(i)
    <3>1. Ingesting' = Ingesting - 1
      <4>1. Moves(publish, publish', i, "done") /\ publish[i] = "ingest"
        BY <2>5 DEF PublishIngest, Moves
      <4> QED BY <1>1, <4>1, PublisherMoves
    <3>2. wg' = wg /\ Batches' = Batches + 1
      BY <1>1, <2>5, IngestOwes DEF PublishIngest, group
    <3> QED BY <1>0, <1>3, <2>2, <3>1, <3>2 DEF Balanced
  <2> QED BY <1>4, <2>3, <2>4, <2>5 DEF Publisher
<1>5. ASSUME NEW e \in Epochs, Worker(e) PROVE Balanced'
  <2>1. UNCHANGED <<publish, stop>>
    BY <1>5 DEF Worker, Watch, Tick, TickAdd, TickIngest, TickIdle, CtxDone, FinalIngest, FinalIdle
  <2>2. Ingesting' = Ingesting /\ Owing' = Owing
    BY <2>1 DEF Ingesting, Owing
  <2>3. CASE Watch(e) \/ Tick(e) \/ CtxDone(e)
    <3>1. PICK v : v \notin {"counted", "exited"} /\ Moves(worker, worker', e, v)
      BY <2>3 DEF Watch, Tick, CtxDone, Moves
    <3>2. worker[e] \notin {"counted", "exited"} /\ UNCHANGED <<wg, flight, hollow, leaked>>
      BY <2>3 DEF Watch, Tick, CtxDone, group, handover
    <3> QED BY <1>1, <1>3, <2>2, <3>1, <3>2, WorkerMoves, Steady
  <2>4. CASE TickAdd(e)
    <3>1. Counted' = Counted + 1 /\ Exited' = Exited
      <4>1. Moves(worker, worker', e, "counted") /\ worker[e] = "tick"
        BY <2>4 DEF TickAdd, Moves
      <4> QED BY <1>1, <4>1, WorkerMoves
    <3>2. wg' = wg + 1 /\ Batches' = Batches
      BY <2>4 DEF TickAdd, WgAdd, handover, Batches
    <3> QED BY <1>0, <1>3, <2>2, <3>1, <3>2 DEF Balanced
  <2>5. CASE TickIngest(e)
    <3>1. Counted' = Counted - 1 /\ Exited' = Exited
      <4>1. Moves(worker, worker', e, "loop") /\ worker[e] = "counted"
        BY <2>5 DEF TickIngest, Moves
      <4> QED BY <1>1, <4>1, WorkerMoves
    <3>2. wg' = wg /\ Batches' = Batches + 1
      BY <1>1, <2>5, IngestOwes DEF TickIngest, group
    <3> QED BY <1>0, <1>3, <2>2, <3>1, <3>2 DEF Balanced
  <2>6. CASE TickIdle(e)
    <3>1. Counted' = Counted - 1 /\ Exited' = Exited
      <4>1. Moves(worker, worker', e, "loop") /\ worker[e] = "counted"
        BY <2>6 DEF TickIdle, Moves
      <4> QED BY <1>1, <4>1, WorkerMoves
    <3>2. wg' = wg - 1 /\ Batches' = Batches
      BY <1>1, <2>6, DoneTakesOne DEF TickIdle, handover, Batches
    <3> QED BY <1>0, <1>3, <2>2, <3>1, <3>2 DEF Balanced
  <2>7. CASE FinalIngest(e)
    <3>1. Counted' = Counted /\ Exited' = Exited + 1
      <4>1. Moves(worker, worker', e, "exited") /\ worker[e] = "final"
        BY <2>7 DEF FinalIngest, Moves
      <4> QED BY <1>1, <4>1, WorkerMoves
    <3>2. wg' = wg /\ Batches' = Batches + 1
      BY <1>1, <2>7, IngestOwes DEF FinalIngest, group
    <3> QED BY <1>0, <1>3, <2>2, <3>1, <3>2 DEF Balanced
  <2>8. CASE FinalIdle(e)
    <3>1. Counted' = Counted /\ Exited' = Exited + 1
      <4>1. Moves(worker, worker', e, "exited") /\ worker[e] = "final"
        BY <2>8 DEF FinalIdle, Moves
      <4> QED BY <1>1, <4>1, WorkerMoves
    <3>2. wg' = wg - 1 /\ Batches' = Batches
      BY <1>1, <2>8, DoneTakesOne DEF FinalIdle, handover, Batches
    <3> QED BY <1>0, <1>3, <2>2, <3>1, <3>2 DEF Balanced
  <2> QED BY <1>5, <2>3, <2>4, <2>5, <2>6, <2>7, <2>8 DEF Worker
<1>6. ASSUME NEW e \in Epochs, Shutdown(e) PROVE Balanced'
  <2>1. UNCHANGED <<publish, worker, flight, hollow, leaked>>
    BY <1>6 DEF Shutdown, ShutdownAdd, Cancel, ReturnFlushed, ReturnTimedOut, workers, handover
  <2>2. Ingesting' = Ingesting /\ Counted' = Counted /\ Exited' = Exited /\ Batches' = Batches
    BY <2>1 DEF Ingesting, Counted, Exited, Batches
  <2>3. CASE ShutdownAdd(e)
    <3>1. Owing' = Owing + 1
      <4>1. Moves(stop, stop', e, "added") /\ stop[e] = "stopping"
        BY <2>3 DEF ShutdownAdd, Moves
      <4> QED BY <1>1, <4>1, ShutdownMoves DEF Owes
    <3>2. wg' = wg + 1
      BY <2>3 DEF ShutdownAdd, WgAdd
    <3> QED BY <1>0, <1>3, <2>2, <3>1, <3>2 DEF Balanced
  <2>4. CASE Cancel(e) \/ ReturnFlushed(e) \/ ReturnTimedOut(e)
    <3>1. PICK v \in Owes : Moves(stop, stop', e, v)
      BY <2>4 DEF Cancel, ReturnFlushed, ReturnTimedOut, Owes, Moves
    <3>2. stop[e] \in Owes /\ wg' = wg
      BY <2>4 DEF Cancel, ReturnFlushed, ReturnTimedOut, Owes, group
    <3> QED BY <1>1, <1>3, <2>1, <2>2, <3>1, <3>2, ShutdownMoves, Steady
  <2> QED BY <1>6, <2>3, <2>4 DEF Shutdown
<1>7. ASSUME NEW e \in Epochs, Waiter(e) PROVE Balanced'
  <2>1. UNCHANGED <<wg, flight, hollow, leaked, publish, worker, stop>>
    BY <1>7 DEF Waiter, WaitCall, WaitResume, workers, handover
  <2> QED BY <1>3, <2>1, Steady DEF Ingesting, Counted, Exited, Owing
<1>8. CASE Activate
  <2>1. PICK n \in Epochs : n = ctx + 1 /\ worker[n] = "none"
    BY <1>1, <1>8, ConfigAssumption DEF Activate, TypeOK, Epochs, ConfigAssumption, Fresh
  <2>2. Moves(worker, worker', n, "loop") /\ UNCHANGED <<publish, stop, wg, flight, hollow, leaked>>
    BY <1>8, <2>1 DEF Activate, group, handover, Moves
  <2>3. Counted' = Counted /\ Exited' = Exited
    BY <1>1, <2>1, <2>2, WorkerMoves
  <2> QED BY <1>3, <2>2, <2>3, Steady DEF Ingesting, Owing
<1>9. CASE Deactivate
  <2>1. PICK n \in Epochs : n = ctx /\ stop[n] = "none"
    BY <1>1, <1>9 DEF Deactivate, Fresh
  <2>2. Moves(stop, stop', n, "stopping") /\ UNCHANGED <<publish, worker, wg, flight, hollow, leaked>>
    BY <1>9, <2>1 DEF Deactivate, group, handover, workers, Moves
  <2>3. Owing' = Owing
    BY <1>1, <2>1, <2>2, ShutdownMoves DEF Owes
  <2> QED BY <1>3, <2>2, <2>3, Steady DEF Ingesting, Counted, Exited
<1>10. ASSUME SettleHollow \/ \E batch \in flight : Settle(batch) PROVE Balanced'
  <2>1. UNCHANGED <<publish, worker, stop>> /\ wg' = wg - 1
    BY <1>1, <1>10, DoneTakesOne DEF SettleHollow, Settle, workers
  <2>2. Ingesting' = Ingesting /\ Counted' = Counted /\ Exited' = Exited /\ Owing' = Owing
    BY <2>1 DEF Ingesting, Counted, Exited, Owing
  <2>3. Batches' = Batches - 1
    <3>1. CASE SettleHollow
      <4>1. hollow \in Nat /\ leaked \in Nat /\ Cardinality(flight) \in Nat
        BY <1>1, CountsAreNumbers DEF TypeOK
      <4> QED BY <3>1, <4>1 DEF SettleHollow, Batches
    <3>2. ASSUME NEW batch \in flight, Settle(batch) PROVE Batches' = Batches - 1
      <4>1. flight' = flight \ {batch} /\ hollow' = hollow /\ leaked' = leaked
        BY <3>2 DEF Settle
      <4>2. Cardinality(flight') = Cardinality(flight) - 1
        BY <1>1, <4>1, FS_RemoveElement, CountsAreNumbers
      <4>3. hollow \in Nat /\ leaked \in Nat /\ Cardinality(flight) \in Nat
        BY <1>1, CountsAreNumbers DEF TypeOK
      <4> QED BY <4>1, <4>2, <4>3 DEF Batches
    <3> QED BY <1>10, <3>1, <3>2
  <2> QED BY <1>0, <1>3, <2>1, <2>2, <2>3 DEF Balanced
<1> QED BY <1>3, <1>4, <1>5, <1>6, <1>7, <1>8, <1>9, <1>10 DEF Next

LEMMA CountNone ==
  ASSUME NEW S, NEW f, NEW V, \A y \in S : f[y] \notin V PROVE Count(S, f, V) = 0
<1>1. {y \in S : f[y] \in V} = {}
  OBVIOUS
<1> QED BY <1>1, FS_EmptySet DEF Count

LEMMA BalanceInit == ASSUME Init PROVE BalanceInv
<1>1. ConservationInv
  <2>1. Cardinality(accumulator) = 0
    BY FS_EmptySet DEF Init
  <2> QED BY <2>1, TypeInit DEF Init, ConservationInv, Conservation, NewIsNotAccepted, Handed
<1>2. Fresh
  BY DEF Init, Fresh
<1>3. Ingesting = 0 /\ Counted = 0 /\ Exited = 0 /\ Owing = 0
  <2>1. PICK p, w, t : p = publish /\ w = worker /\ t = stop
    OBVIOUS
  <2>2. /\ \A i \in Items : p[i] \notin {"ingest"}
        /\ \A e \in Epochs : w[e] \notin {"counted"} /\ w[e] \notin {"exited"} /\ t[e] \notin Owes
    BY <2>1 DEF Init, Owes
  <2> QED BY <2>1, <2>2, CountNone DEF Ingesting, Counted, Exited, Owing
<1>4. Batches = 0 /\ wg = 0
  BY FS_EmptySet DEF Init, Batches
<1> QED BY <1>1, <1>2, <1>3, <1>4 DEF BalanceInv, Balanced

LEMMA BalanceKept == ASSUME BalanceInv, [Next]_vars PROVE BalanceInv'
<1>1. ConservationInv'
  BY TypeStep, ConservationStep DEF BalanceInv, ConservationInv
<1>2. Fresh'
  BY FreshStep DEF BalanceInv, ConservationInv
<1> QED BY <1>1, <1>2, BalanceStep DEF BalanceInv

(* The counter of the wait group is what is owed, in any interleaving of       *)
(* publishers, workers, activations, shutdowns and callbacks of the retry      *)
(* policy (group_strategy.go 55-73, 83-98, 117-121, 156).                  *)
THEOREM WaitGroupIsBalanced == Spec => []WaitGroupBalance
<1>1. ASSUME BalanceInv PROVE WaitGroupBalance
  <2>1. /\ {y \in Items : publish[y] \in {"ingest"}} = {i \in Items : publish[i] = "ingest"}
        /\ {y \in Epochs : worker[y] \in {"counted"}} = {e \in Epochs : worker[e] = "counted"}
        /\ {y \in Epochs : worker[y] \in {"exited"}} = {e \in Epochs : worker[e] = "exited"}
    OBVIOUS
  <2>2. /\ Ingesting = Cardinality({i \in Items : publish[i] = "ingest"})
        /\ Counted = Cardinality({e \in Epochs : worker[e] = "counted"})
        /\ Exited = Cardinality({e \in Epochs : worker[e] = "exited"})
        /\ Owing = Cardinality({e \in Epochs : stop[e] \in {"added", "waiting", "flushed", "timedOut"}})
    BY <2>1 DEF Ingesting, Counted, Exited, Owing, Owes, Count
  <2>3. /\ Ingesting \in Nat /\ Counted \in Nat /\ Owing \in Nat
        /\ Cardinality(flight) \in Nat /\ hollow \in Nat /\ leaked \in Nat
    BY <1>1, CountsAreNumbers DEF BalanceInv, ConservationInv, TypeOK
  <2>4. crash = "no" => wg + Exited = Ingesting + Counted + Owing + Cardinality(flight) + hollow + leaked
    BY <1>1, <2>3 DEF BalanceInv, Balanced, Batches
  <2> QED BY <2>2, <2>4 DEF WaitGroupBalance
<1> QED BY <1>1, BalanceInit, BalanceKept, PTL DEF Spec

--------------------------------------------------------------------------------
(* Control calls that take turns: a worker makes its last Done only after the  *)
(* Add of the shutdown of its own activation, even one that timed out and was  *)
(* followed by another activation.                                             *)
Ended == {"waiting", "flushed", "timedOut"}

SerialInv ==
  /\ \A e \in Epochs : e < ctx => stop[e] \in {"flushed", "timedOut"}
  /\ ctx \in Epochs /\ ~isActive => stop[ctx] # "none"
  /\ \A e \in Epochs : e \in cancelled => stop[e] \in Ended
  /\ \A e \in Epochs : worker[e] = "select" => watch[e] \in Epochs /\ e <= watch[e] /\ watch[e] <= ctx
  /\ \A e \in Epochs : worker[e] \in {"final", "exited"} => stop[e] \in Ended

LEMMA SerialWorker ==
  ASSUME TypeOK, Fresh, SerialInv, NEW e \in Epochs, Worker(e) PROVE SerialInv'
<1>1. /\ UNCHANGED <<isActive, ctx, cancelled, stop>>
      /\ \A d \in Epochs \ {e} : worker'[d] = worker[d] /\ watch'[d] = watch[d]
  BY DEF Worker, Watch, Tick, TickAdd, TickIngest, TickIdle, CtxDone, FinalIngest, FinalIdle,
         config, TypeOK
<1>2. worker'[e] = "select" => watch'[e] \in Epochs /\ e <= watch'[e] /\ watch'[e] <= ctx
  <2>1. CASE Watch(e)
    <3>1. watch'[e] = ctx /\ worker[e] = "loop"
      BY <2>1 DEF Watch, TypeOK
    <3>2. e <= ctx /\ ctx \in Epochs
      BY <3>1 DEF Fresh, TypeOK, Epochs
    <3> QED BY <3>1, <3>2 DEF TypeOK, Epochs
  <2>2. CASE ~Watch(e)
    BY <2>2 DEF Worker, Tick, TickAdd, TickIngest, TickIdle, CtxDone, FinalIngest, FinalIdle, TypeOK
  <2> QED BY <2>1, <2>2
<1>3. worker'[e] \in {"final", "exited"} => stop[e] \in Ended
  <2>1. CASE CtxDone(e)
    <3>1. worker[e] = "select" /\ watch[e] \in cancelled
      BY <2>1 DEF CtxDone
    <3>2. watch[e] \in Epochs /\ e <= watch[e] /\ watch[e] <= ctx
      BY <3>1 DEF SerialInv
    <3>3. stop[watch[e]] \in Ended
      BY <3>1, <3>2 DEF SerialInv
    <3>4. e = watch[e] \/ e < ctx
      BY <3>2 DEF Epochs, TypeOK
    <3> QED BY <3>3, <3>4 DEF SerialInv, Ended
  <2>2. CASE FinalIngest(e) \/ FinalIdle(e)
    BY <2>2 DEF FinalIngest, FinalIdle, SerialInv
  <2>3. CASE Watch(e) \/ Tick(e) \/ TickAdd(e) \/ TickIngest(e) \/ TickIdle(e)
    BY <2>3 DEF Watch, Tick, TickAdd, TickIngest, TickIdle, TypeOK
  <2> QED BY <2>1, <2>2, <2>3 DEF Worker
<1>4. \A d \in Epochs : worker'[d] = "select" => watch'[d] \in Epochs /\ d <= watch'[d] /\ watch'[d] <= ctx
  BY <1>1, <1>2 DEF SerialInv
<1>5. \A d \in Epochs : worker'[d] \in {"final", "exited"} => stop[d] \in Ended
  BY <1>1, <1>3 DEF SerialInv
<1> QED BY <1>1, <1>4, <1>5 DEF SerialInv

LEMMA SerialShutdown ==
  ASSUME TypeOK, Fresh, SerialInv, NEW e \in Epochs, Shutdown(e) PROVE SerialInv'
<1>1. /\ UNCHANGED <<isActive, ctx, worker, watch>>
      /\ \A d \in Epochs \ {e} : stop'[d] = stop[d]
  BY DEF Shutdown, ShutdownAdd, Cancel, ReturnFlushed, ReturnTimedOut, config, workers, TypeOK
<1>2. CASE ShutdownAdd(e)
  <2>1. stop[e] = "stopping" /\ stop'[e] = "added" /\ cancelled' = cancelled
    BY <1>2 DEF ShutdownAdd, config, TypeOK
  <2> QED BY <1>1, <2>1 DEF SerialInv, Ended
<1>3. CASE Cancel(e)
  <2>1. stop[e] = "added" /\ stop'[e] = "waiting" /\ cancelled' = cancelled \cup {ctx}
    BY <1>3 DEF Cancel, TypeOK
  <2>2. e = ctx
    BY <2>1 DEF SerialInv, Fresh, TypeOK, Epochs
  <2> QED BY <1>1, <2>1, <2>2 DEF SerialInv, Ended
<1>4. CASE ReturnFlushed(e) \/ ReturnTimedOut(e)
  <2>1. stop[e] = "waiting" /\ stop'[e] \in {"flushed", "timedOut"} /\ cancelled' = cancelled
    BY <1>4 DEF ReturnFlushed, ReturnTimedOut, config, TypeOK
  <2> QED BY <1>1, <2>1 DEF SerialInv, Ended
<1> QED BY <1>2, <1>3, <1>4 DEF Shutdown

LEMMA SerialStep ==
  ASSUME ~Overlap, TypeOK, Fresh, SerialInv, [Next]_vars PROVE SerialInv'
<1>1. CASE Activate
  <2>1. PICK n \in Epochs : n = ctx + 1 /\ ctx' = n
    BY <1>1, ConfigAssumption DEF Activate, TypeOK, Epochs, ConfigAssumption
  <2>2. /\ ~isActive /\ isActive' /\ UNCHANGED <<stop, cancelled, watch>>
        /\ worker' = [worker EXCEPT ![n] = "loop"]
        /\ \A e \in Epochs : ~Stopping(e)
    BY <1>1, <2>1 DEF Activate, ControlBusy, workers
  <2>3. ASSUME NEW e \in Epochs, e < n PROVE stop[e] \in {"flushed", "timedOut"}
    <3>1. e < ctx \/ e = ctx
      BY <2>1, <2>3 DEF Epochs, TypeOK
    <3>2. stop[e] # "none"
      BY <2>2, <3>1 DEF SerialInv
    <3> QED BY <2>2, <3>2 DEF Stopping, TypeOK
  <2>4. n > ctx /\ \A e \in Epochs : worker'[e] # "loop" => worker'[e] = worker[e]
    BY <2>1, <2>2 DEF TypeOK
  <2>5. \A e \in Epochs : worker'[e] = "select" => watch[e] \in Epochs /\ e <= watch[e] /\ watch[e] <= n
    BY <2>1, <2>4 DEF SerialInv, TypeOK, Epochs
  <2>6. \A e \in Epochs : worker'[e] \in {"final", "exited"} => stop[e] \in Ended
    BY <2>4 DEF SerialInv
  <2> QED BY <2>1, <2>2, <2>3, <2>5, <2>6 DEF SerialInv
<1>2. CASE Deactivate
  <2>1. PICK n \in Epochs : n = ctx /\ ctx' = n /\ stop[n] = "none"
    BY <1>2 DEF Deactivate, Fresh
  <2>2. /\ stop'[n] = "stopping" /\ (\A e \in Epochs \ {n} : stop'[e] = stop[e])
        /\ UNCHANGED <<cancelled, worker, watch>> /\ isActive' = FALSE
    BY <1>2, <2>1 DEF Deactivate, workers, TypeOK
  <2>3. n \notin cancelled /\ worker[n] \notin {"final", "exited"} /\ \A e \in Epochs : e < n => e # n
    BY <2>1 DEF SerialInv, Ended, Epochs
  <2> QED BY <2>1, <2>2, <2>3 DEF SerialInv
<1>3. CASE UNCHANGED <<isActive, ctx, cancelled, stop, worker, watch>>
  BY <1>3 DEF SerialInv
<1>4. ASSUME \/ \E i \in Items : Publisher(i)
             \/ \E e \in Epochs : Waiter(e)
             \/ SettleHollow \/ (\E batch \in flight : Settle(batch)) \/ UNCHANGED vars
      PROVE  UNCHANGED <<isActive, ctx, cancelled, stop, worker, watch>>
  BY <1>4 DEF Publisher, Accept, Reject, PublishAdd, PublishIngest, Waiter, WaitCall, WaitResume,
              SettleHollow, Settle, vars, config, workers
<1> QED BY <1>1, <1>2, <1>3, <1>4, SerialWorker, SerialShutdown DEF Next

(* Hence every last Done that was made has an Add of a shutdown, and one that  *)
(* is about to be made has an Add left over.                                   *)
LEMMA ExitedAreOwed ==
  ASSUME TypeOK, SerialInv
  PROVE  /\ Exited <= Owing
         /\ \A e \in Epochs : worker[e] = "final" => Exited + 1 <= Owing
<1> DEFINE A == {y \in Epochs : worker[y] \in {"exited"}}
           B == {y \in Epochs : stop[y] \in Owes}
<1>1. Exited = Cardinality(A) /\ Owing = Cardinality(B)
  BY DEF Exited, Owing, Count
<1>2. A \subseteq B /\ A \subseteq Epochs /\ B \subseteq Epochs
  BY DEF SerialInv, Ended, Owes
<1>3. ASSUME NEW e \in Epochs, worker[e] = "final"
      PROVE  e \notin A /\ A \cup {e} \subseteq B
  BY <1>3 DEF SerialInv, Ended, Owes
<1> HIDE DEF A, B
<1>4. IsFiniteSet(A) /\ IsFiniteSet(B)
  BY <1>2, FinitelyMany, FS_Subset
<1>5. Cardinality(A) <= Cardinality(B)
  BY <1>2, <1>4, FS_Subset
<1>6. ASSUME NEW e \in Epochs, worker[e] = "final" PROVE Cardinality(A) + 1 <= Cardinality(B)
  <2>1. Cardinality(A \cup {e}) = Cardinality(A) + 1
    BY <1>3, <1>4, <1>6, FS_AddElement
  <2> QED BY <1>3, <1>4, <1>6, <2>1, FS_Subset
<1> QED BY <1>1, <1>5, <1>6

LEMMA DonesAreCovered ==
  ASSUME BalanceInv, SerialInv, crash = "no"
  PROVE  /\ \A e \in Epochs : TickIdle(e) \/ FinalIdle(e) => wg > 0
         /\ (\E batch \in flight : Settle(batch)) \/ SettleHollow => wg > 0
<1>1. TypeOK /\ Balanced
  BY DEF BalanceInv, ConservationInv
<1>2. /\ Ingesting \in Nat /\ Counted \in Nat /\ Exited \in Nat /\ Owing \in Nat
      /\ Batches \in Nat /\ wg \in Nat /\ Cardinality(flight) \in Nat
      /\ hollow \in Nat /\ leaked \in Nat
  BY <1>1, CountsAreNumbers DEF TypeOK
<1>3. Exited <= Owing
  BY <1>1, ExitedAreOwed
<1>4. ASSUME NEW e \in Epochs, TickIdle(e) PROVE wg > 0
  <2> DEFINE C == {y \in Epochs : worker[y] \in {"counted"}}
  <2>1. e \in C /\ Counted = Cardinality(C)
    BY <1>4 DEF TickIdle, Counted, Count
  <2>2. IsFiniteSet(C)
    BY FinitelyMany, FS_Subset
  <2> HIDE DEF C
  <2>3. Counted # 0
    BY <2>1, <2>2, FS_EmptySet
  <2> QED BY <1>1, <1>2, <1>3, <2>3 DEF Balanced
<1>5. ASSUME NEW e \in Epochs, FinalIdle(e) PROVE wg > 0
  <2>1. Exited + 1 <= Owing
    BY <1>1, <1>5, ExitedAreOwed DEF FinalIdle
  <2> QED BY <1>1, <1>2, <2>1 DEF Balanced
<1>6. ASSUME NEW batch \in flight PROVE wg > 0
  <2>1. Cardinality(flight) # 0
    BY <1>1, <1>6, CountsAreNumbers, FS_EmptySet
  <2>2. Batches > 0
    BY <1>2, <2>1 DEF Batches
  <2> QED BY <1>1, <1>2, <1>3, <2>2 DEF Balanced
<1>7. ASSUME SettleHollow PROVE wg > 0
  <2>1. Batches > 0
    BY <1>2, <1>7 DEF SettleHollow, Batches
  <2> QED BY <1>1, <1>2, <1>3, <2>1 DEF Balanced
<1> QED BY <1>4, <1>5, <1>6, <1>7

LEMMA CounterStep ==
  ASSUME BalanceInv, SerialInv, NoNegativeCounter, [Next]_vars PROVE NoNegativeCounter'
<1>1. CASE UNCHANGED vars
  BY <1>1 DEF NoNegativeCounter, vars, group
<1>2. SUFFICES ASSUME Next PROVE NoNegativeCounter'
  BY <1>1
<1>3. crash = "no"
  BY <1>2 DEF Next
<1>4. ASSUME wg > 0, WgDone PROVE crash' = "no"
  BY <1>3, <1>4 DEF WgDone
<1>5. ASSUME NEW i \in Items, Publisher(i) PROVE NoNegativeCounter'
  BY <1>3, <1>5 DEF Publisher, Accept, Reject, PublishAdd, PublishIngest, WgAdd, group, NoNegativeCounter
<1>6. ASSUME NEW e \in Epochs, Worker(e) PROVE NoNegativeCounter'
  <2>1. CASE TickIdle(e) \/ FinalIdle(e)
    BY <1>3, <1>4, <2>1, DonesAreCovered DEF TickIdle, FinalIdle, NoNegativeCounter
  <2>2. CASE ~(TickIdle(e) \/ FinalIdle(e))
    BY <1>3, <1>6, <2>2 DEF Worker, Watch, Tick, TickAdd, TickIngest, CtxDone, FinalIngest,
                            WgAdd, group, NoNegativeCounter
  <2> QED BY <2>1, <2>2
<1>7. ASSUME NEW e \in Epochs, Shutdown(e) \/ Waiter(e) PROVE NoNegativeCounter'
  BY <1>3, <1>7 DEF Shutdown, ShutdownAdd, Cancel, ReturnFlushed, ReturnTimedOut, Waiter, WaitCall,
                    WaitResume, WgAdd, group, NoNegativeCounter
<1>8. CASE Activate \/ Deactivate
  BY <1>3, <1>8 DEF Activate, Deactivate, group, NoNegativeCounter
<1>9. CASE SettleHollow \/ \E batch \in flight : Settle(batch)
  BY <1>3, <1>4, <1>9, DonesAreCovered DEF SettleHollow, Settle, NoNegativeCounter
<1> QED BY <1>2, <1>5, <1>6, <1>7, <1>8, <1>9 DEF Next

LEMMA SerialInit == ASSUME Init PROVE SerialInv /\ NoNegativeCounter
BY DEF Init, SerialInv, NoNegativeCounter, Epochs

(* Control calls that take turns never bring the counter of the wait group     *)
(* below zero: the Done of a worker's last flush has the Add that              *)
(* ShutdownWithTimeout made for it (group_strategy.go 65-73 and 156).          *)
THEOREM CounterIsNeverNegative ==
  ASSUME ~Overlap PROVE Spec => []NoNegativeCounter
<1> DEFINE Inv == BalanceInv /\ SerialInv /\ NoNegativeCounter
<1>1. Init => Inv
  BY BalanceInit, SerialInit
<1>2. Inv /\ [Next]_vars => Inv'
  <2>1. SUFFICES ASSUME Inv, [Next]_vars PROVE Inv'
    OBVIOUS
  <2>2. TypeOK /\ Fresh
    BY <2>1 DEF BalanceInv, ConservationInv
  <2> QED BY <2>1, <2>2, BalanceKept, SerialStep, CounterStep
<1>3. Inv => NoNegativeCounter
  OBVIOUS
<1> QED BY <1>1, <1>2, <1>3, PTL DEF Spec

--------------------------------------------------------------------------------
(* A Wait that returns finds the counter at zero: the worker of the activation *)
(* that was ended has made its last flush, and no batch is out.  Nothing is    *)
(* accepted until the next activation, so it stays that way.                   *)
CompleteInv ==
  \A e \in Epochs :
    /\ waiter[e] # "none" => stop[e] \in Ended
    /\ stop[e] = "flushed" => waiter[e] = "returned"
    /\ e = ctx => /\ worker[e] = "final" /\ ~seen[e] => accumulator = {}
                  /\ worker[e] = "exited" => accumulator = {}
                  /\ waiter[e] = "returned" => accumulator = {} /\ flight = {}

WakesOnly ==
  \A e \in Epochs : waiter'[e] = waiter[e] \/ (waiter[e] = "waiting" /\ waiter'[e] = "woken")

(* A step that is not an Accept leaves an empty accumulator empty, and hands   *)
(* nothing to the retry policy then.                                           *)
StaysEmpty ==
  /\ accumulator = {} => accumulator' = {}
  /\ accumulator = {} /\ flight = {} => flight' = {}

LEMMA IngestStaysEmpty == ASSUME Ingest PROVE StaysEmpty /\ accumulator' = {}
BY DEF Ingest, StaysEmpty

LEMMA WaitersWake ==
  ASSUME TypeOK, WgDone \/ waiter' = waiter PROVE WakesOnly
BY DEF TypeOK, WgDone, WakesOnly

LEMMA ReturnsAtRest ==
  ASSUME BalanceInv, SerialInv, crash = "no", wg = 0, NEW e \in Epochs, stop[e] \in Ended
  PROVE  worker[e] = "exited" /\ flight = {}
<1> DEFINE A == {y \in Epochs : worker[y] \in {"exited"}}
           B == {y \in Epochs : stop[y] \in Owes}
<1>1. TypeOK /\ Balanced
  BY DEF BalanceInv, ConservationInv
<1>2. /\ Ingesting \in Nat /\ Counted \in Nat /\ Exited \in Nat /\ Owing \in Nat
      /\ Batches \in Nat /\ Cardinality(flight) \in Nat /\ IsFiniteSet(flight)
      /\ hollow \in Nat /\ leaked \in Nat /\ Exited <= Owing
  BY <1>1, CountsAreNumbers, ExitedAreOwed DEF TypeOK
<1>3. Exited = Owing /\ Batches = 0
  BY <1>1, <1>2 DEF Balanced
<1>4. flight = {}
  <2>1. Cardinality(flight) = 0
    BY <1>2, <1>3 DEF Batches
  <2> QED BY <1>2, <2>1, FS_EmptySet
<1>5. Exited = Cardinality(A) /\ Owing = Cardinality(B)
  BY DEF Exited, Owing, Count
<1>6. A \subseteq B /\ B \subseteq Epochs /\ e \in B
  BY DEF SerialInv, Ended, Owes
<1>7. A = {y \in Epochs : worker[y] = "exited"}
  OBVIOUS
<1> HIDE DEF A, B
<1>8. IsFiniteSet(B)
  BY <1>6, FinitelyMany, FS_Subset
<1>9. A = B
  BY <1>3, <1>5, <1>6, <1>8, FS_Subset
<1> QED BY <1>4, <1>6, <1>7, <1>9

LEMMA CompleteWorker ==
  ASSUME BalanceInv, SerialInv, CompleteInv, NEW d \in Epochs, Worker(d) PROVE CompleteInv'
<1>1. TypeOK /\ callCount = Cardinality(accumulator) /\ IsFiniteSet(accumulator)
  BY FinitelyMany, FS_Subset DEF BalanceInv, ConservationInv, Conservation, TypeOK
<1>2. /\ UNCHANGED <<ctx, stop>> /\ (WgDone \/ waiter' = waiter)
      /\ \A e \in Epochs \ {d} : worker'[e] = worker[e] /\ seen'[e] = seen[e]
  BY <1>1 DEF Worker, Watch, Tick, TickAdd, TickIngest, TickIdle, CtxDone, FinalIngest, FinalIdle,
              config, group, WgAdd, TypeOK
<1>3. WakesOnly
  BY <1>1, <1>2, WaitersWake
<1>4. StaysEmpty
  <2>1. CASE TickIngest(d) \/ FinalIngest(d)
    BY <2>1, IngestStaysEmpty DEF TickIngest, FinalIngest
  <2>2. CASE ~(TickIngest(d) \/ FinalIngest(d))
    BY <2>2 DEF Worker, Watch, Tick, TickAdd, TickIdle, CtxDone, FinalIdle, buffer, handover, StaysEmpty
  <2> QED BY <2>1, <2>2
<1>5. d = ctx /\ worker'[d] = "final" /\ ~seen'[d] => accumulator' = {}
  <2>1. CASE CtxDone(d)
    <3>1. ~seen'[d] => callCount = 0
      <4>1. CASE callCount > 0
        <5>1. (callCount > 0) = TRUE
          BY <4>1
        <5>2. seen' = [seen EXCEPT ![d] = TRUE]
          BY <2>1, <5>1 DEF CtxDone
        <5>3. d \in DOMAIN seen
          BY <1>1 DEF TypeOK
        <5> QED BY <5>2, <5>3
      <4>2. CASE ~(callCount > 0)
        BY <1>1, <4>2 DEF TypeOK
      <4> QED BY <4>1, <4>2
    <3> QED BY <1>1, <2>1, <3>1, FS_EmptySet DEF CtxDone, buffer
  <2>2. CASE ~CtxDone(d)
    BY <1>1, <2>2 DEF Worker, Watch, Tick, TickAdd, TickIngest, TickIdle, FinalIngest, FinalIdle, TypeOK
  <2> QED BY <2>1, <2>2
<1>6. d = ctx /\ worker'[d] = "exited" => accumulator' = {}
  <2>1. CASE FinalIngest(d)
    BY <2>1, IngestStaysEmpty DEF FinalIngest
  <2>2. CASE FinalIdle(d)
    BY <2>2 DEF FinalIdle, CompleteInv, buffer
  <2>3. CASE ~FinalIngest(d) /\ ~FinalIdle(d)
    BY <1>1, <2>3 DEF Worker, Watch, Tick, TickAdd, TickIngest, TickIdle, CtxDone, TypeOK
  <2> QED BY <2>1, <2>2, <2>3
<1> QED BY <1>2, <1>3, <1>4, <1>5, <1>6 DEF CompleteInv, WakesOnly, StaysEmpty

LEMMA CompleteWaiter ==
  ASSUME BalanceInv, SerialInv, CompleteInv, crash = "no", NEW d \in Epochs, Waiter(d)
  PROVE  CompleteInv'
<1>1. /\ UNCHANGED <<ctx, stop, worker, seen, accumulator, flight>>
      /\ \A e \in Epochs \ {d} : waiter'[e] = waiter[e]
  BY DEF Waiter, WaitCall, WaitResume, config, buffer, workers, handover, BalanceInv,
         ConservationInv, TypeOK
<1>2. waiter[d] # "none" /\ waiter[d] # "returned" /\ (waiter'[d] = "returned" => wg = 0)
  BY DEF Waiter, WaitCall, WaitResume, BalanceInv, ConservationInv, TypeOK
<1>3. stop[d] \in Ended /\ stop[d] # "flushed"
  BY <1>2 DEF CompleteInv
<1>4. waiter'[d] = "returned" /\ d = ctx => accumulator = {} /\ flight = {}
  BY <1>2, <1>3, ReturnsAtRest DEF CompleteInv
<1> QED BY <1>1, <1>2, <1>3, <1>4 DEF CompleteInv

LEMMA CompleteStep ==
  ASSUME ~Overlap, BalanceInv, SerialInv, CompleteInv, [Next]_vars PROVE CompleteInv'
<1>1. TypeOK /\ Fresh
  BY DEF BalanceInv, ConservationInv
<1>2. CASE UNCHANGED vars
  BY <1>2 DEF CompleteInv, vars, config, buffer, group, workers, handover
<1>3. ASSUME NEW i \in Items, Publisher(i) PROVE CompleteInv'
  <2>1. UNCHANGED <<ctx, stop, worker, seen, waiter>>
    BY <1>3 DEF Publisher, Accept, Reject, PublishAdd, PublishIngest, WgAdd, config, group, workers
  <2>2. CASE Accept(i)
    <3>1. \A e \in Epochs : e = ctx => stop[e] = "none"
      BY <1>1, <2>2 DEF Accept, Fresh
    <3>2. \A e \in Epochs : e = ctx => waiter[e] = "none" /\ worker[e] \notin {"final", "exited"}
      BY <3>1 DEF CompleteInv, SerialInv, Ended
    <3> QED BY <2>1, <3>2 DEF CompleteInv
  <2>3. CASE ~Accept(i)
    <3>1. StaysEmpty
      BY <1>3, <2>3, IngestStaysEmpty
      DEF Publisher, Reject, PublishAdd, PublishIngest, buffer, handover, StaysEmpty
    <3> QED BY <2>1, <3>1 DEF CompleteInv, StaysEmpty
  <2> QED BY <2>2, <2>3
<1>4. ASSUME NEW e \in Epochs, Shutdown(e) PROVE CompleteInv'
  <2>1. /\ UNCHANGED <<ctx, worker, seen, accumulator, flight>>
        /\ \A d \in Epochs \ {e} : stop'[d] = stop[d] /\ waiter'[d] = waiter[d]
    BY <1>1, <1>4 DEF Shutdown, ShutdownAdd, Cancel, ReturnFlushed, ReturnTimedOut, WgAdd, config,
                buffer, group, workers, handover, TypeOK
  <2>2. CASE ShutdownAdd(e)
    <3>1. stop[e] = "stopping" /\ stop'[e] = "added" /\ waiter' = waiter
      BY <1>1, <2>2 DEF ShutdownAdd, WgAdd, TypeOK
    <3> QED BY <2>1, <3>1 DEF CompleteInv, Ended
  <2>3. CASE Cancel(e)
    <3>1. stop'[e] = "waiting" /\ waiter'[e] = "called"
      BY <1>1, <2>3 DEF Cancel, TypeOK
    <3> QED BY <2>1, <3>1 DEF CompleteInv, Ended
  <2>4. CASE ReturnFlushed(e)
    <3>1. stop'[e] = "flushed" /\ waiter[e] = "returned" /\ waiter' = waiter
      BY <1>1, <2>4 DEF ReturnFlushed, group, TypeOK
    <3> QED BY <2>1, <3>1 DEF CompleteInv, Ended
  <2>5. CASE ReturnTimedOut(e)
    <3>1. stop'[e] = "timedOut" /\ waiter' = waiter
      BY <1>1, <2>5 DEF ReturnTimedOut, group, TypeOK
    <3> QED BY <2>1, <3>1 DEF CompleteInv, Ended
  <2> QED BY <1>4, <2>2, <2>3, <2>4, <2>5 DEF Shutdown
<1>5. CASE Activate
  <2>1. PICK n \in Epochs : n = ctx + 1 /\ ctx' = n /\ n > ctx
    BY <1>1, <1>5, ConfigAssumption DEF Activate, TypeOK, Epochs, ConfigAssumption
  <2>2. UNCHANGED <<stop, waiter>> /\ worker'[n] = "loop" /\ stop[n] = "none"
    BY <1>1, <1>5, <2>1 DEF Activate, group, TypeOK, Fresh
  <2>3. waiter[n] = "none"
    BY <2>2 DEF CompleteInv, Ended
  <2> QED BY <2>1, <2>2, <2>3 DEF CompleteInv
<1>6. CASE Deactivate
  <2>1. PICK n \in Epochs : n = ctx /\ stop[n] = "none"
    BY <1>1, <1>6 DEF Deactivate, Fresh
  <2>2. /\ stop'[n] = "stopping" /\ (\A e \in Epochs \ {n} : stop'[e] = stop[e])
        /\ UNCHANGED <<ctx, waiter, worker, seen, accumulator, flight>>
    BY <1>1, <1>6, <2>1 DEF Deactivate, buffer, group, workers, handover, TypeOK
  <2>3. waiter[n] = "none"
    BY <2>1 DEF CompleteInv, Ended
  <2> QED BY <2>1, <2>2, <2>3 DEF CompleteInv
<1>7. CASE SettleHollow \/ \E batch \in flight : Settle(batch)
  <2>1. /\ UNCHANGED <<ctx, stop, worker, seen>> /\ StaysEmpty /\ WgDone
    BY <1>7 DEF SettleHollow, Settle, config, buffer, workers, StaysEmpty
  <2>2. WakesOnly
    BY <1>1, <2>1, WaitersWake
  <2> QED BY <2>1, <2>2 DEF CompleteInv, StaysEmpty, WakesOnly
<1>8. Next => crash = "no"
  BY DEF Next
<1> QED BY <1>2, <1>3, <1>4, <1>5, <1>6, <1>7, <1>8, CompleteWorker, CompleteWaiter DEF Next

(* When control calls take turns, a ShutdownWithTimeout that reports a clean   *)
(* end leaves nothing that was accepted in the accumulator or with the retry   *)
(* policy, earlier shutdowns that timed out included (group_strategy.go        *)
(* 147-176, types.go 22-23).                                                   *)
THEOREM ShutdownIsComplete ==
  ASSUME ~Overlap PROVE Spec => []ShutdownComplete
<1> DEFINE Inv == BalanceInv /\ SerialInv /\ CompleteInv
<1>1. Init => Inv
  <2>1. Init => CompleteInv
    BY DEF Init, CompleteInv
  <2> QED BY <2>1, BalanceInit, SerialInit
<1>2. Inv /\ [Next]_vars => Inv'
  <2>1. SUFFICES ASSUME Inv, [Next]_vars PROVE Inv'
    OBVIOUS
  <2>2. TypeOK /\ Fresh
    BY <2>1 DEF BalanceInv, ConservationInv
  <2> QED BY <2>1, <2>2, BalanceKept, SerialStep, CompleteStep
<1>3. Inv => ShutdownComplete
  <2>1. SUFFICES ASSUME Inv, NEW e \in Epochs, stop[e] = "flushed", ctx = e
                 PROVE  accepted \subseteq settled \cup lost
    BY DEF ShutdownComplete
  <2>2. accumulator = {} /\ flight = {}
    BY <2>1 DEF CompleteInv
  <2> QED BY <2>1, <2>2 DEF BalanceInv, ConservationInv, Conservation, Handed
<1> QED BY <1>1, <1>2, <1>3, PTL DEF Spec

--------------------------------------------------------------------------------
(* An item that was rejected is nowhere else, nor does it ever get anywhere.   *)
RejectedIsNotAccepted == \A i \in Items : publish[i] = "rejected" => i \notin accepted

LEMMA RejectedStep ==
  ASSUME TypeOK, NewIsNotAccepted, RejectedIsNotAccepted, [Next]_vars
  PROVE  RejectedIsNotAccepted'
<1>1. ASSUME NEW i \in Items, Publisher(i) PROVE RejectedIsNotAccepted'
  <2>1. CASE Accept(i)
    <3>1. publish'[i] # "rejected" /\ accepted' = accepted \cup {i}
          /\ \A j \in Items \ {i} : publish'[j] = publish[j]
      BY <2>1 DEF Accept, TypeOK
    <3> QED BY <3>1 DEF RejectedIsNotAccepted
  <2>2. CASE ~Accept(i)
    BY <1>1, <2>2 DEF Publisher, Reject, PublishAdd, PublishIngest, Ingest, buffer, TypeOK,
                      RejectedIsNotAccepted, NewIsNotAccepted
  <2> QED BY <2>1, <2>2
<1>2. ASSUME \/ \E e \in Epochs : Worker(e) \/ Shutdown(e) \/ Waiter(e)
             \/ Activate \/ Deactivate
             \/ SettleHollow \/ (\E batch \in flight : Settle(batch)) \/ UNCHANGED vars
      PROVE  UNCHANGED <<publish, accepted>>
  BY <1>2 DEF Worker, Watch, Tick, TickAdd, TickIngest, TickIdle, CtxDone, FinalIngest, FinalIdle,
       Shutdown, ShutdownAdd, Cancel, ReturnFlushed, ReturnTimedOut, Waiter, WaitCall, WaitResume,
       Activate, Deactivate, SettleHollow, Settle, Ingest, vars, buffer
<1> QED BY <1>1, <1>2 DEF Next, RejectedIsNotAccepted

(* Where an item is decides its phase.                                         *)
LEMMA PhaseIs ==
  ASSUME Conservation, RejectedIsNotAccepted, NEW i \in Items
  PROVE  /\ Phase(i) = "buffered" <=> i \in accumulator
         /\ Phase(i) = "handed" <=> i \in Handed
         /\ i \notin accepted => Phase(i) = (IF publish[i] = "rejected" THEN "rejected" ELSE "new")
<1>1. CASE i \in accumulator
  <2>1. i \notin Handed /\ i \notin settled /\ i \notin lost /\ i \in accepted
        /\ publish[i] # "rejected"
    BY <1>1 DEF Conservation, RejectedIsNotAccepted
  <2>2. Phase(i) = "buffered"
    BY <1>1, <2>1 DEF Phase
  <2> QED BY <1>1, <2>1, <2>2
<1>2. CASE i \in Handed
  <2>1. i \notin accumulator /\ i \notin settled /\ i \notin lost /\ i \in accepted
        /\ publish[i] # "rejected"
    BY <1>2 DEF Conservation, RejectedIsNotAccepted
  <2>2. Phase(i) = "handed"
    BY <1>2, <2>1 DEF Phase
  <2> QED BY <1>2, <2>1, <2>2
<1>3. CASE i \in settled
  <2>1. i \notin accumulator /\ i \notin Handed /\ i \notin lost /\ i \in accepted
        /\ publish[i] # "rejected"
    BY <1>3 DEF Conservation, RejectedIsNotAccepted
  <2>2. Phase(i) = "finished"
    BY <1>3, <2>1 DEF Phase
  <2> QED BY <2>1, <2>2
<1>4. CASE i \in lost
  <2>1. i \notin accumulator /\ i \notin Handed /\ i \notin settled /\ i \in accepted
        /\ publish[i] # "rejected"
    BY <1>4 DEF Conservation, RejectedIsNotAccepted
  <2>2. Phase(i) = "lost"
    BY <1>4, <2>1 DEF Phase
  <2> QED BY <2>1, <2>2
<1>5. CASE i \notin accumulator /\ i \notin Handed /\ i \notin settled /\ i \notin lost
  <2>1. Phase(i) = (IF publish[i] = "rejected" THEN "rejected" ELSE "new")
    BY <1>5 DEF Phase
  <2> QED BY <1>5, <2>1
<1> QED BY <1>1, <1>2, <1>3, <1>4, <1>5

LEMMA PhaseKept ==
  ASSUME NEW i \in Items,
         i \in accumulator' <=> i \in accumulator, i \in Handed' <=> i \in Handed,
         i \in settled' <=> i \in settled, i \in lost' <=> i \in lost,
         publish'[i] = "rejected" <=> publish[i] = "rejected"
  PROVE  Phase(i)' = Phase(i)
BY DEF Phase

(* The items of S move on to p, the others stay.                               *)
Moved(S, p) == \A i \in Items : Phase(i)' = IF i \in S THEN p ELSE Phase(i)

LEMMA MovedMoves ==
  ASSUME NEW S, NEW p, Moved(S, p) PROVE Contract!Move(S, p)
BY DEF Moved, Contract!Move

SamePhases == \A i \in Items : Phase(i)' = Phase(i)

LEMMA Stutters ==
  ASSUME SamePhases, isActive' = isActive, LatestClaim' = LatestClaim
  PROVE  UNCHANGED Contract!cvars
BY DEF SamePhases, Contract!cvars

LEMMA WhereItemsAre ==
  ASSUME Conservation, RejectedIsNotAccepted, accumulator \subseteq Items, Handed \subseteq Items
  PROVE  Contract!In("buffered") = accumulator /\ Contract!In("handed") = Handed
BY PhaseIs DEF Contract!In

(* A flush hands everything buffered over at once, or loses it at once.        *)
LEMMA IngestMaps ==
  ASSUME TypeOK, Conservation, RejectedIsNotAccepted, Ingest, isActive' = isActive, LatestClaim' = LatestClaim,
         \A i \in Items : publish'[i] = "rejected" <=> publish[i] = "rejected"
  PROVE  [Contract!Next]_(Contract!cvars)
<1>1. accumulator \subseteq Items /\ Handed \subseteq Items
  BY DEF TypeOK, Handed
<1>2. Contract!In("buffered") = accumulator
  BY <1>1, WhereItemsAre
<1>3. CASE accumulator = {}
  <2>1. accumulator' = {} /\ settled' = settled /\ Handed' = Handed /\ lost' = lost
    BY <1>3 DEF Ingest, Handed
  <2>2. SamePhases
    BY <1>3, <2>1, PhaseKept DEF SamePhases
  <2> QED BY <2>2, Stutters
<1>4. CASE accumulator # {} /\ accumulator \cap Poison = {}
  <2>1. /\ accumulator' = {} /\ settled' = settled /\ lost' = lost
        /\ Handed' = Handed \cup accumulator
    BY <1>4, HandedAdd DEF Ingest, Handed
  <2>2. ASSUME NEW i \in Items, i \in accumulator PROVE Phase(i)' = "handed"
    <3>1. i \notin accumulator' /\ i \in Handed' /\ i \notin settled' /\ i \notin lost'
          /\ publish'[i] # "rejected"
      BY <2>1, <2>2 DEF Conservation, RejectedIsNotAccepted
    <3> QED BY <3>1 DEF Phase
  <2>3. Moved(accumulator, "handed")
    BY <2>1, <2>2, PhaseKept DEF Moved
  <2>4. Contract!HandOver("handed")
    BY <1>2, <1>4, <2>3, MovedMoves DEF Contract!HandOver
  <2> QED BY <2>4 DEF Contract!Next
<1>5. CASE accumulator \cap Poison # {}
  <2>1. /\ accumulator' = {} /\ settled' = settled /\ lost' = lost \cup accumulator
        /\ Handed' = Handed
    BY <1>5 DEF Ingest, Handed
  <2>2. ASSUME NEW i \in Items, i \in accumulator PROVE Phase(i)' = "lost"
    <3>1. i \notin accumulator' /\ i \notin Handed' /\ i \notin settled' /\ i \in lost'
          /\ publish'[i] # "rejected"
      BY <2>1, <2>2 DEF Conservation, RejectedIsNotAccepted
    <3> QED BY <3>1 DEF Phase
  <2>3. Moved(accumulator, "lost")
    BY <2>1, <2>2, PhaseKept DEF Moved
  <2>4. Contract!HandOver("lost")
    BY <1>2, <1>5, <2>3, MovedMoves DEF Contract!HandOver
  <2> QED BY <2>4 DEF Contract!Next
<1> QED BY <1>3, <1>4, <1>5

--------------------------------------------------------------------------------
(* Steps of the strategy, one by one.                                          *)
ContractInv == BalanceInv /\ SerialInv /\ CompleteInv /\ RejectedIsNotAccepted

Maps == [Contract!Next]_(Contract!cvars)

LEMMA ContractFacts ==
  ASSUME ContractInv
  PROVE  /\ TypeOK /\ Conservation /\ NewIsNotAccepted /\ Fresh /\ SerialInv /\ CompleteInv
         /\ RejectedIsNotAccepted /\ accumulator \subseteq Items /\ Handed \subseteq Items
BY DEF ContractInv, BalanceInv, ConservationInv, TypeOK, Handed

LEMMA PublisherMaps ==
  ASSUME ContractInv, NEW i \in Items, Publisher(i) PROVE Maps
<1>1. /\ TypeOK /\ Conservation /\ NewIsNotAccepted /\ RejectedIsNotAccepted
  BY ContractFacts
<1>2. UNCHANGED <<isActive, ctx, stop>>
  BY DEF Publisher, Accept, Reject, PublishAdd, PublishIngest, config
<1>3. LatestClaim' = LatestClaim
  BY <1>2 DEF LatestClaim
<1>4. CASE Accept(i)
  <2>1. /\ accumulator' = accumulator \cup {i}
        /\ UNCHANGED <<Handed, settled, lost>>
        /\ publish[i] = "idle" /\ publish'[i] # "rejected" /\ isActive
        /\ \A j \in Items \ {i} : publish'[j] = publish[j]
    BY <1>1, <1>4 DEF Accept, TypeOK, handover, Handed
  <2>2. i \notin accepted /\ i \notin Handed /\ i \notin settled /\ i \notin lost
    BY <1>1, <2>1 DEF NewIsNotAccepted, Conservation
  <2>3. Phase(i) = "new"
    BY <1>1, <2>1, <2>2, PhaseIs
  <2>4. Phase(i)' = "buffered"
    <3>1. i \in accumulator' /\ i \notin Handed' /\ i \notin settled' /\ i \notin lost'
      BY <2>1, <2>2
    <3> QED BY <2>1, <3>1 DEF Phase
  <2>5. ASSUME NEW j \in Items, j # i PROVE Phase(j)' = Phase(j)
    BY <2>1, <2>5, PhaseKept
  <2>6. Moved({i}, "buffered")
    BY <2>4, <2>5 DEF Moved
  <2>7. Contract!TakeItem(i)
    BY <1>2, <1>3, <2>1, <2>3, <2>6, MovedMoves DEF Contract!TakeItem
  <2> QED BY <2>7 DEF Contract!Next, Maps
<1>5. CASE Reject(i)
  <2>1. /\ UNCHANGED <<accumulator, Handed, settled, lost>>
        /\ publish[i] = "idle" /\ publish'[i] = "rejected" /\ ~isActive
        /\ \A j \in Items \ {i} : publish'[j] = publish[j]
    BY <1>1, <1>5 DEF Reject, TypeOK, handover, buffer, Handed
  <2>2. /\ i \notin accepted /\ i \notin accumulator /\ i \notin Handed
        /\ i \notin settled /\ i \notin lost
    BY <1>1, <2>1 DEF NewIsNotAccepted, Conservation
  <2>3. Phase(i) = "new"
    BY <1>1, <2>1, <2>2, PhaseIs
  <2>4. Phase(i)' = "rejected"
    BY <2>1, <2>2 DEF Phase
  <2>5. ASSUME NEW j \in Items, j # i PROVE Phase(j)' = Phase(j)
    BY <2>1, <2>5, PhaseKept
  <2>6. Moved({i}, "rejected")
    BY <2>4, <2>5 DEF Moved
  <2>7. Contract!RefuseItem(i)
    BY <1>2, <1>3, <2>1, <2>3, <2>6, MovedMoves DEF Contract!RefuseItem
  <2> QED BY <2>7 DEF Contract!Next, Maps
<1>6. ASSUME PublishAdd(i) \/ PublishIngest(i)
      PROVE  \A j \in Items : publish'[j] = "rejected" <=> publish[j] = "rejected"
  BY <1>1, <1>6 DEF PublishAdd, PublishIngest, TypeOK
<1>7. CASE PublishAdd(i)
  <2>1. UNCHANGED <<accumulator, Handed, settled, lost>>
    BY <1>7 DEF PublishAdd, buffer, handover, Handed
  <2>2. SamePhases
    BY <1>6, <1>7, <2>1, PhaseKept DEF SamePhases
  <2> QED BY <1>2, <1>3, <2>2, Stutters DEF Maps
<1>8. CASE PublishIngest(i)
  BY <1>1, <1>2, <1>3, <1>6, <1>8, IngestMaps DEF PublishIngest, Maps
<1> QED BY <1>4, <1>5, <1>7, <1>8 DEF Publisher

LEMMA ActivateMaps ==
  ASSUME ~Overlap, ContractInv, Activate PROVE Maps
<1>1. TypeOK /\ Fresh
  BY ContractFacts
<1>2. /\ UNCHANGED <<accumulator, Handed, settled, lost, publish, stop>>
      /\ ~isActive /\ isActive' = TRUE
  BY DEF Activate, buffer, handover, Handed
<1>3. LatestClaim' = "none"
  <2>1. PICK n \in Epochs : n = ctx + 1 /\ ctx' = n /\ n > ctx
    BY <1>1, ConfigAssumption DEF Activate, TypeOK, Epochs, ConfigAssumption
  <2>2. stop'[n] = "none"
    BY <1>1, <1>2, <2>1 DEF Fresh
  <2> QED BY <2>1, <2>2 DEF LatestClaim
<1>4. SamePhases
  BY <1>2, PhaseKept DEF SamePhases
<1>5. Contract!Open
  BY <1>2, <1>3, <1>4 DEF Contract!Open, SamePhases
<1> QED BY <1>5 DEF Maps, Contract!Next

LEMMA DeactivateMaps ==
  ASSUME ContractInv, Deactivate PROVE Maps
<1>1. TypeOK /\ Fresh
  BY ContractFacts
<1>2. /\ UNCHANGED <<accumulator, Handed, settled, lost, publish>>
      /\ isActive /\ isActive' = FALSE
  BY DEF Deactivate, buffer, handover, Handed
<1>3. LatestClaim' = "none" /\ LatestClaim = "none"
  <2>1. PICK n \in Epochs : n = ctx /\ ctx' = n /\ stop[n] = "none"
    BY <1>1 DEF Deactivate, Fresh
  <2>2. stop'[n] = "stopping"
    BY <1>1, <2>1 DEF Deactivate, TypeOK
  <2> QED BY <2>1, <2>2 DEF LatestClaim
<1>4. SamePhases
  BY <1>2, PhaseKept DEF SamePhases
<1>5. Contract!Close
  BY <1>2, <1>3, <1>4 DEF Contract!Close, SamePhases
<1> QED BY <1>5 DEF Maps, Contract!Next

LEMMA ShutdownMaps ==
  ASSUME ContractInv, NEW e \in Epochs, Shutdown(e) PROVE Maps
<1>1. /\ TypeOK /\ Conservation /\ Fresh /\ SerialInv /\ CompleteInv /\ RejectedIsNotAccepted
      /\ accumulator \subseteq Items /\ Handed \subseteq Items
  BY ContractFacts
<1>2. UNCHANGED <<isActive, ctx, accumulator, Handed, settled, lost, publish, flight>>
  BY DEF Shutdown, ShutdownAdd, Cancel, ReturnFlushed, ReturnTimedOut, config, buffer, handover, Handed
<1>3. SamePhases
  BY <1>2, PhaseKept DEF SamePhases
<1>4. CASE ShutdownAdd(e) \/ Cancel(e)
  <2>1. /\ \A d \in Epochs \ {e} : stop'[d] = stop[d]
        /\ stop[e] \notin {"flushed", "timedOut"} /\ stop'[e] \notin {"flushed", "timedOut"}
    BY <1>1, <1>4 DEF ShutdownAdd, Cancel, TypeOK
  <2>2. ctx > 0 => ctx \in Epochs
    BY <1>1 DEF TypeOK, Epochs
  <2>3. LatestClaim' = LatestClaim
    BY <1>2, <2>1, <2>2 DEF LatestClaim
  <2> QED BY <1>2, <1>3, <2>3, Stutters DEF Maps
<1>5. ASSUME stop[e] = "waiting", NEW v \in {"flushed", "timedOut"}, stop'[e] = v,
             v = "flushed" => waiter[e] = "returned"
      PROVE  Maps
  <2>1. e = ctx /\ ctx > 0
    <3>1. ~(e < ctx)
      BY <1>1, <1>5 DEF SerialInv
    <3>2. ~(e > ctx)
      BY <1>1, <1>5 DEF Fresh
    <3> QED BY <1>1, <3>1, <3>2 DEF TypeOK, Epochs
  <2>2. LatestClaim = "none" /\ LatestClaim' = v
    BY <1>2, <1>5, <2>1 DEF LatestClaim
  <2>3. ~isActive
    BY <1>1, <1>5, <2>1 DEF Fresh
  <2>4. v = "flushed" => accumulator \cup Handed = {}
    BY <1>1, <1>5, <2>1 DEF CompleteInv, Handed
  <2>5. Contract!In("buffered") \cup Contract!In("handed") = accumulator \cup Handed
    BY <1>1, WhereItemsAre
  <2>6. Contract!Claim(v)
    BY <1>2, <1>3, <2>2, <2>3, <2>4, <2>5 DEF Contract!Claim, SamePhases
  <2> QED BY <1>5, <2>6 DEF Maps, Contract!Next
<1>6. CASE ReturnFlushed(e)
  <2>1. stop[e] = "waiting" /\ stop'[e] = "flushed" /\ waiter[e] = "returned"
    BY <1>1, <1>6 DEF ReturnFlushed, TypeOK
  <2> QED BY <1>5, <2>1
<1>7. CASE ReturnTimedOut(e)
  <2>1. stop[e] = "waiting" /\ stop'[e] = "timedOut"
    BY <1>1, <1>7 DEF ReturnTimedOut, TypeOK
  <2> QED BY <1>5, <2>1
<1> QED BY <1>4, <1>6, <1>7 DEF Shutdown

LEMMA SettleMaps ==
  ASSUME ContractInv, NEW batch \in flight, Settle(batch) PROVE Maps
<1>1. /\ TypeOK /\ Conservation /\ RejectedIsNotAccepted
      /\ accumulator \subseteq Items /\ Handed \subseteq Items
  BY ContractFacts
<1>2. /\ UNCHANGED <<isActive, ctx, stop, accumulator, accepted, lost, publish>>
      /\ settled' = settled \cup batch /\ flight' = flight \ {batch}
  BY DEF Settle, config, buffer
<1>3. LatestClaim' = LatestClaim
  BY <1>2 DEF LatestClaim
<1>4. Handed' = Handed \ batch /\ batch \subseteq Handed /\ batch # {}
  BY <1>1, <1>2, HandedRemove DEF Handed, Conservation, TypeOK
<1>5. ASSUME NEW i \in Items, i \in batch PROVE Phase(i)' = "finished"
  <2>1. /\ i \in settled' /\ i \notin Handed' /\ i \notin accumulator' /\ i \notin lost'
        /\ publish'[i] # "rejected"
    BY <1>1, <1>2, <1>4, <1>5 DEF Conservation, RejectedIsNotAccepted
  <2> QED BY <2>1 DEF Phase
<1>6. ASSUME NEW i \in Items, i \notin batch PROVE Phase(i)' = Phase(i)
  BY <1>2, <1>4, <1>6, PhaseKept
<1>7. Moved(batch, "finished")
  BY <1>5, <1>6 DEF Moved
<1>8. Contract!Finish(batch) /\ batch \in SUBSET Items
  BY <1>1, <1>2, <1>3, <1>4, <1>7, MovedMoves, WhereItemsAre DEF Contract!Finish
<1> QED BY <1>8 DEF Maps, Contract!Next

LEMMA QuietMaps ==
  ASSUME UNCHANGED <<isActive, ctx, stop, accumulator, flight, settled, lost, publish>>
  PROVE  Maps
<1>1. SamePhases
  BY PhaseKept DEF SamePhases, Handed
<1>2. LatestClaim' = LatestClaim
  BY DEF LatestClaim
<1> QED BY <1>1, <1>2, Stutters DEF Maps

LEMMA WorkerMaps ==
  ASSUME ContractInv, NEW e \in Epochs, Worker(e) PROVE Maps
<1>1. CASE TickIngest(e) \/ FinalIngest(e)
  <2>1. Ingest /\ UNCHANGED <<isActive, ctx, stop, publish>>
    BY <1>1 DEF TickIngest, FinalIngest, config
  <2>2. LatestClaim' = LatestClaim
    BY <2>1 DEF LatestClaim
  <2> QED BY <2>1, <2>2, ContractFacts, IngestMaps DEF Maps
<1>2. CASE ~(TickIngest(e) \/ FinalIngest(e))
  <2>1. UNCHANGED <<isActive, ctx, stop, accumulator, flight, settled, lost, publish>>
    BY <1>2 DEF Worker, Watch, Tick, TickAdd, TickIdle, CtxDone, FinalIdle, config, buffer, handover
  <2> QED BY <2>1, QuietMaps
<1> QED BY <1>1, <1>2

LEMMA StepMaps ==
  ASSUME ~Overlap, ContractInv, [Next]_vars PROVE Maps
<1>1. ASSUME SettleHollow \/ (\E e \in Epochs : Waiter(e)) \/ UNCHANGED vars PROVE Maps
  <2>1. UNCHANGED <<isActive, ctx, stop, accumulator, flight, settled, lost, publish>>
    BY <1>1 DEF SettleHollow, Waiter, WaitCall, WaitResume, vars, config, buffer, handover
  <2> QED BY <2>1, QuietMaps
<1> QED BY <1>1, PublisherMaps, ActivateMaps, DeactivateMaps, ShutdownMaps, SettleMaps, WorkerMaps DEF Next

LEMMA ContractStep ==
  ASSUME ~Overlap, ContractInv, [Next]_vars PROVE ContractInv'
<1>1. TypeOK /\ Fresh /\ NewIsNotAccepted
  BY ContractFacts
<1> QED BY <1>1, BalanceKept, SerialStep, CompleteStep, RejectedStep DEF ContractInv

LEMMA ContractInit == ASSUME Init PROVE ContractInv /\ Contract!Init
<1>1. CompleteInv /\ RejectedIsNotAccepted
  BY DEF Init, CompleteInv, RejectedIsNotAccepted
<1>2. ASSUME NEW i \in Items PROVE Phase(i) = "new"
  BY DEF Init, Phase, Handed
<1>3. LatestClaim = "none" /\ isActive = FALSE
  BY DEF Init, LatestClaim
<1> QED BY <1>1, <1>2, <1>3, BalanceInit, SerialInit DEF ContractInv, Contract!Init

(* When control calls take turns, the group strategy with its lock, workers    *)
(* and wait group implements what the ingester promises of published items     *)
(* (group_strategy.go 38-176, against types.go 22-23).                         *)
THEOREM StrategyImplementsContract ==
  ASSUME ~Overlap PROVE Spec => ImplementsContract
<1>1. Init => ContractInv /\ Contract!Init
  BY ContractInit
<1>2. ContractInv /\ [Next]_vars => ContractInv' /\ [Contract!Next]_(Contract!cvars)
  BY ContractStep, StepMaps DEF Maps
<1> QED BY <1>1, <1>2, PTL DEF Spec, ImplementsContract, Contract!Spec

================================================================================
