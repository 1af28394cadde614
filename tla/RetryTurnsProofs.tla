--------------------------- MODULE RetryTurnsProofs ----------------------------
(* Proofs about RetryPolicy when its goroutines take turns (MaxInFlight = 1):  *)
(* the memory counter, the bound of the queue, the fate of every request, and  *)
(* that the retry policy implements RequestDelivery.                           *)
EXTENDS RetryPolicyProofs

--------------------------------------------------------------------------------
(* SizeOf, by the shortest prefix that would be a counterexample.              *)
(* The sizes of the prefixes of a queue.                                       *)
IsPrefixSize(f, q) ==
  f = [k \in 0..Len(q) |-> IF k = 0 THEN 0 ELSE f[k - 1] + Size[q[k].req]]

(* An element has a size.                                                      *)
LEMMA ElementSize ==
  ASSUME NEW q \in Seq(Elements), NEW k \in 1..Len(q) PROVE Size[q[k].req] \in Nat \ {0}
<1>1. q[k] \in Elements
  OBVIOUS
<1>2. q[k].req \in Requests
  BY <1>1 DEF Elements
<1> QED BY <1>2, SizeAssumption DEF SizeAssumption

(* Every queue has prefix sizes, and only one function gives them.             *)
LEMMA PrefixSizeExists ==
  ASSUME NEW q \in Seq(Elements) PROVE \E f : IsPrefixSize(f, q)
<1> DEFINE Upto(f, n) == f = [k \in 0..n |-> IF k = 0 THEN 0 ELSE f[k - 1] + Size[q[k].req]]
           T == {n \in 0..Len(q) : ~\E f : Upto(f, n)}
<1>1. SUFFICES ASSUME T # {} PROVE FALSE
  <2>1. Len(q) \in 0..Len(q)
    OBVIOUS
  <2> QED BY <2>1 DEF IsPrefixSize
<1>2. PICK n \in T : \A m \in T : n <= m
  <2>1. T \in SUBSET Nat
    OBVIOUS
  <2> HIDE DEF T
  <2> QED BY <1>1, <2>1, Least
<1>3. CASE n = 0
  <2> DEFINE f == [k \in 0..0 |-> 0]
  <2>1. f = [k \in 0..0 |-> IF k = 0 THEN 0 ELSE f[k - 1] + Size[q[k].req]]
    OBVIOUS
  <2>2. Upto(f, 0)
    BY <2>1
  <2> QED BY <1>2, <1>3, <2>2
<1>4. CASE n # 0
  <2>1. n \in 1..Len(q) /\ Len(q) \in Nat
    BY <1>4
  <2>2. n - 1 \in 0..Len(q) /\ ~(n <= n - 1)
    BY <2>1
  <2>3. n - 1 \notin T
    <3> HIDE DEF T
    <3> QED BY <1>2, <2>2
  <2>4. PICK f : Upto(f, n - 1)
    BY <2>2, <2>3
  <2> DEFINE g == [k \in 0..n |-> IF k = n THEN f[n - 1] + Size[q[n].req] ELSE f[k]]
  <2>5. \A k \in 0..(n - 1) : f[k] = IF k = 0 THEN 0 ELSE f[k - 1] + Size[q[k].req]
    BY <2>4
  <2>6. \A k \in 0..n : g[k] = IF k = 0 THEN 0 ELSE g[k - 1] + Size[q[k].req]
    BY <1>4, <2>5
  <2>7. g = [k \in 0..n |-> IF k = 0 THEN 0 ELSE g[k - 1] + Size[q[k].req]]
    BY <2>6
  <2>8. Upto(g, n)
    BY <2>7
  <2> QED BY <1>2, <2>8
<1> QED BY <1>3, <1>4

LEMMA PrefixSizeType ==
  ASSUME NEW q \in Seq(Elements), NEW f, IsPrefixSize(f, q)
  PROVE  f \in [0..Len(q) -> Nat]
<1> DEFINE T == {k \in 0..Len(q) : f[k] \notin Nat}
<1>1. \A k \in 0..Len(q) : f[k] = IF k = 0 THEN 0 ELSE f[k - 1] + Size[q[k].req]
  BY DEF IsPrefixSize
<1>2. SUFFICES ASSUME T # {} PROVE FALSE
  BY DEF IsPrefixSize
<1>3. PICK n \in T : \A m \in T : n <= m
  <2>1. T \in SUBSET Nat
    OBVIOUS
  <2> HIDE DEF T
  <2> QED BY <1>2, <2>1, Least
<1>4. n # 0
  BY <1>1, <1>3
<1>5. n - 1 \in 0..Len(q) /\ f[n - 1] \in Nat
  BY <1>3, <1>4
<1> QED BY <1>1, <1>3, <1>4, <1>5, ElementSize

LEMMA PrefixSizeUnique ==
  ASSUME NEW q \in Seq(Elements), NEW f, NEW g, IsPrefixSize(f, q), IsPrefixSize(g, q)
  PROVE  f = g
<1> DEFINE T == {k \in 0..Len(q) : f[k] # g[k]}
<1>1. \A k \in 0..Len(q) : /\ f[k] = IF k = 0 THEN 0 ELSE f[k - 1] + Size[q[k].req]
                           /\ g[k] = IF k = 0 THEN 0 ELSE g[k - 1] + Size[q[k].req]
  BY DEF IsPrefixSize
<1>2. f \in [0..Len(q) -> Nat] /\ g \in [0..Len(q) -> Nat]
  BY PrefixSizeType
<1>3. SUFFICES ASSUME T # {} PROVE FALSE
  BY <1>2
<1>4. PICK n \in T : \A m \in T : n <= m
  <2>1. T \in SUBSET Nat
    OBVIOUS
  <2> HIDE DEF T
  <2> QED BY <1>3, <2>1, Least
<1>5. n # 0
  BY <1>1, <1>4
<1>6. n - 1 \in 0..Len(q) /\ f[n - 1] = g[n - 1]
  BY <1>4, <1>5
<1> QED BY <1>1, <1>4, <1>5, <1>6

(* The size of a queue is that of its longest prefix.                          *)
(* SizeOf is the last of them: it is a number, it grows by the element that is *)
(* appended and shrinks by the one that is cut off.                            *)
LEMMA SizeOfIs ==
  ASSUME NEW q \in Seq(Elements), NEW f, IsPrefixSize(f, q)
  PROVE  SizeOf(q) = f[Len(q)] /\ SizeOf(q) \in Nat
<1> DEFINE g == CHOOSE h : IsPrefixSize(h, q)
<1>1. SizeOf(q) = g[Len(q)]
  BY DEF SizeOf, IsPrefixSize
<1>2. IsPrefixSize(g, q)
  <2> HIDE DEF IsPrefixSize
  <2> QED OBVIOUS
<1> HIDE DEF g
<1>3. f = g
  BY <1>2, PrefixSizeUnique
<1>4. f[Len(q)] \in Nat
  BY PrefixSizeType
<1> QED BY <1>1, <1>3, <1>4

LEMMA SizeOfType == ASSUME NEW q \in Seq(Elements) PROVE SizeOf(q) \in Nat
BY PrefixSizeExists, SizeOfIs

LEMMA SizeOfEmpty == SizeOf(<<>>) = 0
<1>3. Len(<<>>) = 0 /\ <<>> \in Seq(Elements)
  OBVIOUS
<1>1. PICK f : IsPrefixSize(f, <<>>)
  BY <1>3, PrefixSizeExists
<1>2. f[0] = 0
  BY <1>1, <1>3 DEF IsPrefixSize
<1> QED BY <1>1, <1>2, <1>3, SizeOfIs

LEMMA SizeOfAppend ==
  ASSUME NEW q \in Seq(Elements), NEW e \in Elements
  PROVE  SizeOf(Append(q, e)) = SizeOf(q) + Size[e.req]
<1> DEFINE q2 == Append(q, e)
<1>1. q2 \in Seq(Elements) /\ Len(q2) = Len(q) + 1 /\ q2[Len(q) + 1] = e
      /\ \A k \in 1..Len(q) : q2[k] = q[k]
  OBVIOUS
<1>2. PICK f : IsPrefixSize(f, q2)
  BY <1>1, PrefixSizeExists
<1> DEFINE g == [k \in 0..Len(q) |-> f[k]]
<1> HIDE DEF q2
<1>3. \A k \in 0..(Len(q) + 1) : f[k] = IF k = 0 THEN 0 ELSE f[k - 1] + Size[q2[k].req]
  BY <1>1, <1>2 DEF IsPrefixSize
<1>4. \A k \in 0..Len(q) : g[k] = IF k = 0 THEN 0 ELSE g[k - 1] + Size[q[k].req]
  BY <1>1, <1>3
<1>5. IsPrefixSize(g, q)
  BY <1>4 DEF IsPrefixSize
<1>6. f[Len(q) + 1] = f[Len(q)] + Size[e.req] /\ g[Len(q)] = f[Len(q)]
  BY <1>1, <1>3
<1>7. SizeOf(q) = g[Len(q)] /\ SizeOf(q2) = f[Len(q) + 1]
  BY <1>1, <1>2, <1>5, SizeOfIs
<1> QED BY <1>6, <1>7 DEF q2

LEMMA SizeOfTail ==
  ASSUME NEW q \in Seq(Elements), q # <<>>
  PROVE  SizeOf(Tail(q)) = SizeOf(q) - Size[Head(q).req]
<1> DEFINE q2 == Tail(q)
<1>1. q2 \in Seq(Elements) /\ Len(q) \in Nat \ {0} /\ Len(q2) = Len(q) - 1 /\ Head(q) = q[1]
      /\ \A k \in 1..Len(q2) : q2[k] = q[k + 1]
  OBVIOUS
<1>2. PICK f : IsPrefixSize(f, q)
  BY PrefixSizeExists
<1> DEFINE g == [k \in 0..Len(q2) |-> f[k + 1] - f[1]]
<1> HIDE DEF q2
<1>3. \A k \in 0..Len(q) : f[k] = IF k = 0 THEN 0 ELSE f[k - 1] + Size[q[k].req]
  BY <1>2 DEF IsPrefixSize
<1>4. f \in [0..Len(q) -> Nat]
  BY <1>2, PrefixSizeType
<1>5. f[1] = Size[Head(q).req]
  BY <1>1, <1>3, <1>4, ElementSize
<1>6. ASSUME NEW k \in 0..Len(q2), k # 0 PROVE g[k] = g[k - 1] + Size[q2[k].req]
  <2>1. k + 1 \in 1..Len(q) /\ k \in 1..Len(q) /\ 1 \in 0..Len(q) /\ k - 1 \in 0..Len(q2)
    BY <1>1, <1>6
  <2>2. f[k + 1] = f[k] + Size[q[k + 1].req]
    BY <1>3, <2>1
  <2>3. q2[k] = q[k + 1]
    BY <1>1, <1>6
  <2>4. g[k] = f[k + 1] - f[1] /\ g[k - 1] = f[k] - f[1]
    BY <2>1
  <2>5. Size[q[k + 1].req] \in Nat /\ f[k] \in Nat /\ f[1] \in Nat
    BY <1>4, <2>1, ElementSize
  <2> QED BY <2>2, <2>3, <2>4, <2>5
<1>7. g[0] = 0
  BY <1>1, <1>4
<1>8. IsPrefixSize(g, q2)
  BY <1>6, <1>7 DEF IsPrefixSize
<1>9. SizeOf(q2) = g[Len(q2)] /\ SizeOf(q) = f[Len(q)]
  BY <1>1, <1>2, <1>8, SizeOfIs
<1>10. g[Len(q2)] = f[Len(q)] - f[1]
  BY <1>1
<1> QED BY <1>5, <1>9, <1>10 DEF q2

--------------------------------------------------------------------------------
(* Requests in a queue.                                                        *)
(* No request is in the queue twice.                                           *)
Distinct(q) == \A j, k \in DOMAIN q : q[j].req = q[k].req => j = k

(* The requests of a longer and of a shorter queue.                            *)
LEMMA InAppend ==
  ASSUME NEW q \in Seq(Elements), NEW e \in Elements
  PROVE  /\ \A r : In(Append(q, e), r) <=> In(q, r) \/ e.req = r
         /\ Distinct(q) /\ ~In(q, e.req) => Distinct(Append(q, e))
<1>1. /\ DOMAIN Append(q, e) = 1..(Len(q) + 1) /\ DOMAIN q = 1..Len(q) /\ Len(q) \in Nat
      /\ Append(q, e)[Len(q) + 1] = e /\ \A k \in 1..Len(q) : Append(q, e)[k] = q[k]
  OBVIOUS
<1>2. ASSUME NEW r PROVE In(Append(q, e), r) <=> In(q, r) \/ e.req = r
  BY <1>1 DEF In
<1>3. ASSUME Distinct(q), ~In(q, e.req) PROVE Distinct(Append(q, e))
  <2>1. ASSUME NEW j \in 1..(Len(q) + 1), NEW k \in 1..(Len(q) + 1),
               Append(q, e)[j].req = Append(q, e)[k].req
        PROVE  j = k
    <3>1. CASE j \in 1..Len(q) /\ k \in 1..Len(q)
      BY <1>1, <1>3, <2>1, <3>1 DEF Distinct
    <3>2. CASE j = Len(q) + 1 /\ k \in 1..Len(q)
      BY <1>1, <1>3, <2>1, <3>2 DEF In
    <3>3. CASE j \in 1..Len(q) /\ k = Len(q) + 1
      BY <1>1, <1>3, <2>1, <3>3 DEF In
    <3> QED BY <1>1, <3>1, <3>2, <3>3
  <2> QED BY <1>1, <2>1 DEF Distinct
<1> QED BY <1>2, <1>3

LEMMA InTail ==
  ASSUME NEW q \in Seq(Elements), q # <<>>, Distinct(q)
  PROVE  /\ \A r : In(Tail(q), r) <=> In(q, r) /\ r # Head(q).req
         /\ Distinct(Tail(q))
         /\ In(q, Head(q).req)
<1>1. /\ Len(q) \in Nat \ {0} /\ DOMAIN q = 1..Len(q) /\ DOMAIN Tail(q) = 1..(Len(q) - 1)
      /\ Head(q) = q[1] /\ \A k \in 1..(Len(q) - 1) : Tail(q)[k] = q[k + 1]
  OBVIOUS
<1>2. \A k \in 1..(Len(q) - 1) : k + 1 \in 1..Len(q)
  BY <1>1
<1>3. ASSUME NEW r PROVE In(Tail(q), r) <=> In(q, r) /\ r # Head(q).req
  <2>1. ASSUME In(Tail(q), r) PROVE In(q, r) /\ r # Head(q).req
    <3>1. PICK k \in 1..(Len(q) - 1) : q[k + 1].req = r
      BY <1>1, <2>1 DEF In
    <3>2. k + 1 \in DOMAIN q /\ 1 \in DOMAIN q /\ k + 1 # 1
      BY <1>1, <1>2
    <3> QED BY <1>1, <3>1, <3>2 DEF In, Distinct
  <2>2. ASSUME In(q, r), r # Head(q).req PROVE In(Tail(q), r)
    <3>1. PICK k \in 1..Len(q) : q[k].req = r
      BY <1>1, <2>2 DEF In
    <3>2. k - 1 \in 1..(Len(q) - 1) /\ k = (k - 1) + 1
      BY <1>1, <2>2, <3>1
    <3>3. Tail(q)[k - 1] = q[k]
      BY <1>1, <3>2
    <3> QED BY <1>1, <3>1, <3>2, <3>3 DEF In
  <2> QED BY <2>1, <2>2
<1>4. ASSUME NEW j \in 1..(Len(q) - 1), NEW k \in 1..(Len(q) - 1), Tail(q)[j].req = Tail(q)[k].req
      PROVE  j = k
  <2>1. j + 1 = k + 1
    BY <1>1, <1>2, <1>4 DEF Distinct
  <2> QED BY <2>1
<1>5. In(q, Head(q).req)
  BY <1>1 DEF In
<1> QED BY <1>1, <1>3, <1>4, <1>5 DEF Distinct

--------------------------------------------------------------------------------
(* What holds while the goroutines take turns.                                 *)
Turn == \A r, s \in Inside : r = s

Removed == {"shrink", "shrinkWrite", "notify"}
Stored  == {"grow", "growWrite"}

(* currentMemorySize is the size of the queue but for the element just         *)
(* appended or just cut off.                                                   *)
MemoryAt(r) ==
  /\ pc[r] \notin Stored \cup {"shrink", "shrinkWrite"} => mem = SizeOf(queue)
  /\ pc[r] \in Stored => mem + Size[r] = SizeOf(queue)
  /\ pc[r] \in {"shrink", "shrinkWrite"} => mem = SizeOf(queue) + Size[first[r].req]
  /\ pc[r] \in {"growWrite", "shrinkWrite"} => mreg[r] = mem

(* The goroutine works on the queue as it is.                                  *)
PlaceAt(r) ==
  /\ pc[r] \in {"append", "appendWrite"} => Room(r)
  /\ pc[r] \in {"appendWrite", "cutWrite"} => qreg[r] = queue
  /\ pc[r] \in Stored => first[r].req = r /\ In(queue, r)
  /\ \/ pc[r] \in {"cut", "cutWrite", "resend"}
     \/ pc[r] = "shift" /\ mode[r] = "drain"
     => queue # <<>> /\ first[r] = Head(queue)
  /\ pc[r] = "peek" => queue # <<>>
  /\ pc[r] = "shift" /\ mode[r] = "put" => ~Room(r)
  /\ pc[r] \in Owing \cup {"evict"} /\ mode[r] = "put" => Size[r] <= MaxMemory

(* The element it has taken off the queue has not been reported.               *)
HandAt(r) ==
  /\ pc[r] \in Removed =>
       LET x == first[r].req
       IN  /\ x # r /\ pc[x] = "done" /\ mode[x] = "put"
           /\ ~In(queue, x) /\ sent[x] = 0 /\ shifted[x] = 0
  /\ mode[r] = "drain" /\ pc[r] \in Owing => acked[first[r].req] > 0

AtEach == \A r \in Inside : MemoryAt(r) /\ PlaceAt(r) /\ HandAt(r)

(* A request in the queue is there once, it has been put there, and nobody has *)
(* been told of it.                                                            *)
Queued(x) == mode[x] = "put" /\ pc[x] \in Stored \cup {"done"} /\ sent[x] = 0 /\ shifted[x] = 0

QueuedOnce == Distinct(queue) /\ \A x \in Requests : In(queue, x) => Queued(x)

(* A request that is not yet in the queue has no outcome.                      *)
Early(r) == mode[r] = "put" /\ pc[r] \notin Stored \cup {"done"}

EarlyOnes == \A r \in Requests : Early(r) => acked[r] = 0 /\ sent[r] = 0 /\ shifted[r] = 0

(* One that is finished with has one, or is about to have one.                 *)
InHands(r) == \E s \in Requests : pc[s] \in Removed /\ mode[s] = "put" /\ first[s].req = r

Finished ==
  \A r \in Requests : pc[r] = "done" =>
    acked[r] > 0 \/ In(queue, r) \/ shifted[r] > 0 \/ Size[r] > MaxMemory \/ InHands(r)

(* The inductive invariant.                                                    *)
TurnInv ==
  /\ DirectInv /\ Draining /\ Turn /\ AtEach /\ QueuedOnce /\ EarlyOnes /\ Finished
  /\ MemoryIsQueueSize /\ QueueIsBounded /\ EmptyShiftNeedsFullBatch

(* When goroutines take turns the others are not inside ingest.                *)
LEMMA OthersOut ==
  ASSUME MaxInFlight = 1, TypeOK, Turn, NEW s \in Requests, Step(s), NEW t \in Requests \ {s}
  PROVE  pc[t] \in {"new", "done"}
<1>1. CASE Begin(s)
  <2>1. IsFiniteSet(Inside)
    BY RequestsAssumption, FS_Subset DEF RequestsAssumption, Inside
  <2>2. Cardinality(Inside) < 1 /\ Cardinality(Inside) \in Nat
    BY <1>1, <2>1, FS_CardinalityType DEF Begin
  <2>3. Inside = {}
    BY <2>1, <2>2, FS_EmptySet
  <2> QED BY <2>3 DEF Inside
<1>2. CASE Goroutine(s)
  <2>1. s \in Inside
    BY <1>2 DEF Goroutine, PostOk, PostFails, Put, Shift, Drain, FitsAtOnce, TooLarge,
     MustEvict, FitsAfterEviction, EvictFirst, AppendRead, AppendWrite, GrowRead, GrowWrite, ShiftRead,
     CutRead, CutWrite, ShrinkRead, ShrinkWrite, NotifySent, NotifyShifted, NotifyNil, EmptyQueue,
     DrainEmpty, DrainMore, Peek, ResendOk, ResendFails, At, Inside
  <2> QED BY <2>1 DEF Turn, Inside
<1> QED BY <1>1, <1>2 DEF Step

(* What TurnInv says of the goroutine s that takes a step.                     *)
TurnOf(s) ==
  /\ s \in Inside => MemoryAt(s) /\ PlaceAt(s) /\ HandAt(s)
  /\ s \notin Inside => mem = SizeOf(queue)

LEMMA TurnIs ==
  ASSUME MaxInFlight = 1, TurnInv, NEW s \in Requests, Step(s)
  PROVE  /\ TurnOf(s)
         /\ \A t \in Requests \ {s} : pc[t] \in {"new", "done"} /\ pc'[t] = pc[t] /\ mode'[t] = mode[t]
         /\ TypeInv /\ Modes /\ Draining
         /\ queue \in Seq(Elements) /\ first[s] \in Elements /\ first[s].req \in Requests
<1>1. TypeOK /\ TypeInv /\ Modes /\ Draining
  BY DEF TurnInv, DirectInv, TypeInv
<1>2. \A t \in Requests \ {s} : pc[t] \in {"new", "done"}
  BY <1>1, OthersOut DEF TurnInv
<1>3. s \notin Inside => Inside = {}
  BY <1>2 DEF Inside
<1>4. TurnOf(s)
  BY <1>3 DEF TurnOf, TurnInv, AtEach, MemoryIsQueueSize
<1>5. \A t \in Requests \ {s} : pc'[t] = pc[t] /\ mode'[t] = mode[t]
  BY <1>1, OthersStay
<1>6. queue \in Seq(Elements) /\ first[s] \in Elements /\ first[s].req \in Requests
  BY <1>1 DEF TypeOK, Elements
<1> QED BY <1>1, <1>2, <1>4, <1>5, <1>6

(* It is enough to show what TurnInv says of s after the step, and of requests.*)
LEMMA TurnMoves ==
  ASSUME MaxInFlight = 1, TurnInv, NEW s \in Requests, Step(s), crash = "no",
         TurnOf(s)', QueuedOnce', EarlyOnes', Finished', QueueIsBounded',
         crash' = "empty" => s \in Inside' /\ Size[s] = MaxMemory
  PROVE  TurnInv'
<1>1. DirectInv' /\ Draining'
  <2>1. [Next]_vars
    BY DEF Next, Step
  <2> QED BY <2>1, DirectStep, DrainingStep DEF TurnInv, DirectInv
<1>2. \A t \in Requests \ {s} : t \notin Inside'
  BY TurnIs DEF Inside
<1>3. Turn' /\ AtEach' /\ MemoryIsQueueSize' /\ EmptyShiftNeedsFullBatch'
  BY <1>2 DEF Turn, AtEach, TurnOf, MemoryIsQueueSize, EmptyShiftNeedsFullBatch, Inside
<1> QED BY <1>1, <1>3 DEF TurnInv

--------------------------------------------------------------------------------
(* How a step of s changes what TurnInv says of requests and of the queue.     *)
(* A step that leaves the queue and what was reported alone.                   *)
Quiet(s) ==
  /\ UNCHANGED <<queue, mode, acked, sent, shifted>>
  /\ pc[s] \in Stored => pc'[s] \in Stored \cup {"done"}
  /\ pc[s] \in Removed => pc'[s] \in Removed /\ first'[s] = first[s]
  /\ pc'[s] = "done" => acked[s] > 0 \/ In(queue, s) \/ Size[s] > MaxMemory

LEMMA QuietKeeps ==
  ASSUME MaxInFlight = 1, TurnInv, NEW s \in Requests, Step(s), Quiet(s), pc[s] # "done"
  PROVE  QueuedOnce' /\ EarlyOnes' /\ Finished' /\ QueueIsBounded'
<1>1. \A t \in Requests \ {s} : pc'[t] = pc[t] /\ mode'[t] = mode[t] /\ pc[t] \in {"new", "done"}
  BY TurnIs
<1>2. \A t \in Requests \ {s} : first'[t] = first[t]
  BY TurnIs, OthersStay DEF TypeInv
<1>3. QueuedOnce'
  BY <1>1 DEF TurnInv, QueuedOnce, Queued, Quiet
<1>4. EarlyOnes'
  BY <1>1 DEF TurnInv, EarlyOnes, Early, Quiet, Stored
<1>5. Finished'
  <2>1. \A r \in Requests : InHands(r) => InHands(r)'
    BY <1>1, <1>2 DEF InHands, Quiet
  <2>2. \A r \in Requests \ {s} : pc'[r] = "done" =>
          acked[r] > 0 \/ In(queue, r) \/ shifted[r] > 0 \/ Size[r] > MaxMemory \/ InHands(r)'
    BY <1>1, <2>1 DEF TurnInv, Finished
  <2> QED BY <2>2 DEF Finished, Quiet
<1>6. QueueIsBounded'
  BY DEF TurnInv, QueueIsBounded, Quiet
<1> QED BY <1>3, <1>4, <1>5, <1>6

(* Where a quiet step of s leads.                                              *)
LEMMA QuietStep ==
  ASSUME MaxInFlight = 1, TurnInv, NEW s \in Requests, Step(s),
         \/ Begin(s) \/ FitsAtOnce(s) \/ TooLarge(s) \/ MustEvict(s) \/ FitsAfterEviction(s)
         \/ EvictFirst(s) \/ AppendRead(s) \/ GrowRead(s) \/ GrowWrite(s)
         \/ ShiftRead(s) \/ CutRead(s) \/ ShrinkRead(s) \/ ShrinkWrite(s) \/ NotifyNil(s)
         \/ EmptyQueue(s) \/ DrainEmpty(s) \/ DrainMore(s) \/ Peek(s) \/ ResendFails(s)
  PROVE  QueuedOnce' /\ EarlyOnes' /\ Finished' /\ QueueIsBounded'
<1>1. /\ DOMAIN pc = Requests /\ DOMAIN first = Requests
      /\ (s \in Inside => PlaceAt(s)) /\ (pc[s] \in Putting => mode[s] = "put")
      /\ (mode[s] = "drain" => acked[s] > 0)
      /\ (pc[s] \in {"check", "resend"} => mode[s] = "drain")
  BY TurnIs DEF TypeInv, TypeOK, TurnOf, Modes, Draining, TurnInv, DirectInv, ToldOnce
<1>2. UNCHANGED <<queue, mode, acked, sent, shifted>> /\ pc[s] # "done"
  BY DEF Begin, FitsAtOnce, TooLarge, MustEvict, FitsAfterEviction, EvictFirst, AppendRead,
         GrowRead, GrowWrite, ShiftRead, CutRead, ShrinkRead, ShrinkWrite, NotifyNil, EmptyQueue,
         DrainEmpty, DrainMore, Peek, ResendFails, At, shared, locals, calls
<1>3. pc[s] \in Stored => pc'[s] \in Stored \cup {"done"}
  BY <1>1 DEF Begin, FitsAtOnce, TooLarge, MustEvict, FitsAfterEviction, EvictFirst, AppendRead,
         GrowRead, GrowWrite, ShiftRead, CutRead, ShrinkRead, ShrinkWrite, NotifyNil, EmptyQueue,
         DrainEmpty, DrainMore, Peek, ResendFails, At, Goto, Stored
<1>4. pc[s] \in Removed => pc'[s] \in Removed /\ first'[s] = first[s]
  BY <1>1 DEF Begin, FitsAtOnce, TooLarge, MustEvict, FitsAfterEviction, EvictFirst, AppendRead,
         GrowRead, GrowWrite, ShiftRead, CutRead, ShrinkRead, ShrinkWrite, NotifyNil, EmptyQueue,
         DrainEmpty, DrainMore, Peek, ResendFails, At, Goto, Removed, locals
<1>5. pc'[s] = "done" => acked[s] > 0 \/ In(queue, s) \/ Size[s] > MaxMemory
  BY <1>1 DEF Begin, FitsAtOnce, TooLarge, MustEvict, FitsAfterEviction, EvictFirst, AppendRead,
         GrowRead, GrowWrite, ShiftRead, CutRead, ShrinkRead, ShrinkWrite, NotifyNil, EmptyQueue,
         DrainEmpty, DrainMore, Peek, ResendFails, At, Goto, Inside, PlaceAt, Stored
<1> QED BY <1>2, <1>3, <1>4, <1>5, QuietKeeps DEF Quiet

(* The first POST ends.                                                        *)
LEMMA PostKeeps ==
  ASSUME MaxInFlight = 1, TurnInv, NEW s \in Requests, PostOk(s) \/ PostFails(s)
  PROVE  QueuedOnce' /\ EarlyOnes' /\ Finished' /\ QueueIsBounded'
<1>1. Step(s)
  BY DEF Step, Goroutine
<1>2. /\ \A t \in Requests \ {s} : pc[t] \in {"new", "done"} /\ pc'[t] = pc[t] /\ mode'[t] = mode[t]
      /\ Modes
  BY <1>1, TurnIs
<1>3. /\ pc[s] = "post" /\ pc'[s] \in {"check", "fit"}
      /\ queue' = queue /\ shifted' = shifted /\ first' = first
      /\ mode'[s] = "put" => acked' = acked /\ sent' = sent
      /\ \A t \in Requests \ {s} : acked'[t] = acked[t] /\ sent'[t] = sent[t]
  BY DEF TurnInv, DirectInv, TypeInv, TypeOK, PostOk, PostFails, At, Goto, shared, locals, calls
<1>4. mode[s] = "none"
  BY <1>2, <1>3 DEF Modes
<1>5. QueuedOnce'
  BY <1>2, <1>3, <1>4 DEF TurnInv, QueuedOnce, Queued
<1>6. EarlyOnes'
  <2>1. acked[s] = 0 /\ sent[s] = 0 /\ shifted[s] = 0
    BY <1>4 DEF TurnInv, DirectInv, ToldOnce
  <2>2. \A t \in Requests \ {s} : pc[t] = "new" => mode[t] = "none"
    BY <1>2 DEF Modes
  <2> QED BY <1>2, <1>3, <2>1, <2>2 DEF EarlyOnes, Early
<1>7. Finished'
  <2>1. \A r \in Requests : ~InHands(r)
    BY <1>2, <1>3 DEF InHands, Removed
  <2> QED BY <1>2, <1>3, <2>1 DEF TurnInv, Finished
<1>8. QueueIsBounded'
  BY <1>3 DEF TurnInv, QueueIsBounded
<1> QED BY <1>5, <1>6, <1>7, <1>8

(* A batch enters the queue: it was not there, and there is room for it.       *)
LEMMA AppendKeeps ==
  ASSUME MaxInFlight = 1, TurnInv, NEW s \in Requests, AppendWrite(s)
  PROVE  QueuedOnce' /\ EarlyOnes' /\ Finished' /\ QueueIsBounded'
<1>1. Step(s)
  BY DEF Step, Goroutine, Put
<1>2. /\ \A t \in Requests \ {s} : pc[t] \in {"new", "done"} /\ pc'[t] = pc[t] /\ mode'[t] = mode[t]
      /\ Modes /\ TurnOf(s) /\ queue \in Seq(Elements) /\ first[s] \in Elements
  BY <1>1, TurnIs
<1>3. /\ pc[s] = "appendWrite" /\ pc'[s] = "grow" /\ mode' = mode /\ first' = first
      /\ queue' = Append(qreg[s], first[s])
      /\ acked' = acked /\ sent' = sent /\ shifted' = shifted
  BY DEF TurnInv, DirectInv, TypeInv, TypeOK, AppendWrite, At, Goto, calls
<1>4. first[s].req = s /\ mode[s] = "put"
  BY <1>2, <1>3 DEF Modes, Putting
<1>5. qreg[s] = queue /\ Room(s) /\ mem = SizeOf(queue)
  BY <1>2, <1>3 DEF TurnOf, Inside, PlaceAt, MemoryAt, Stored
<1>6. acked[s] = 0 /\ sent[s] = 0 /\ shifted[s] = 0 /\ ~In(queue, s)
  BY <1>3, <1>4 DEF TurnInv, EarlyOnes, Early, QueuedOnce, Queued, Stored
<1>7. /\ \A r : In(queue', r) <=> In(queue, r) \/ r = s
      /\ Distinct(queue')
  BY <1>2, <1>3, <1>4, <1>5, <1>6, InAppend DEF TurnInv, QueuedOnce
<1>8. QueuedOnce'
  BY <1>2, <1>3, <1>4, <1>6, <1>7 DEF TurnInv, QueuedOnce, Queued, Stored
<1>9. EarlyOnes'
  BY <1>2, <1>3 DEF TurnInv, EarlyOnes, Early, Stored
<1>10. Finished'
  <2>1. \A r \in Requests : ~InHands(r)
    BY <1>2, <1>3 DEF InHands, Removed
  <2> QED BY <1>2, <1>3, <1>7, <2>1 DEF TurnInv, Finished
<1>11. QueueIsBounded'
  <2>1. SizeOf(queue') = SizeOf(queue) + Size[s]
    BY <1>2, <1>3, <1>4, <1>5, SizeOfAppend
  <2> QED BY <1>5, <2>1 DEF Room, QueueIsBounded
<1> QED BY <1>8, <1>9, <1>10, <1>11

(* The first element leaves the queue for the hands of the goroutine.          *)
LEMMA CutKeeps ==
  ASSUME MaxInFlight = 1, TurnInv, NEW s \in Requests, CutWrite(s)
  PROVE  QueuedOnce' /\ EarlyOnes' /\ Finished' /\ QueueIsBounded'
<1>1. Step(s)
  BY DEF Step, Goroutine, Shift
<1>2. /\ \A t \in Requests \ {s} : pc[t] \in {"new", "done"} /\ pc'[t] = pc[t] /\ mode'[t] = mode[t]
      /\ Modes /\ TurnOf(s) /\ queue \in Seq(Elements) /\ first[s] \in Elements
      /\ first[s].req \in Requests
  BY <1>1, TurnIs
<1>3. /\ pc[s] = "cutWrite" /\ pc'[s] = "shrink" /\ mode' = mode /\ first' = first
      /\ queue' = Tail(qreg[s])
      /\ acked' = acked /\ sent' = sent /\ shifted' = shifted
  BY DEF TurnInv, DirectInv, TypeInv, TypeOK, CutWrite, At, Goto, calls
<1>4. qreg[s] = queue /\ queue # <<>> /\ first[s] = Head(queue)
  BY <1>2, <1>3 DEF TurnOf, Inside, PlaceAt
<1>5. mode[s] \in {"put", "drain"} /\ (mode[s] = "drain" => acked[first[s].req] > 0)
  BY <1>2, <1>3 DEF TurnOf, Inside, HandAt, Owing, Modes, TurnInv, DirectInv, TypeInv, TypeOK
<1>6. /\ \A r : In(queue', r) <=> In(queue, r) /\ r # first[s].req
      /\ Distinct(queue')
  BY <1>2, <1>3, <1>4, InTail DEF TurnInv, QueuedOnce
<1>7. QueuedOnce'
  BY <1>2, <1>3, <1>6 DEF TurnInv, QueuedOnce, Queued, Stored
<1>8. EarlyOnes'
  BY <1>2, <1>3 DEF TurnInv, EarlyOnes, Early, Stored
<1>9. Finished'
  <2>1. \A r \in Requests : ~InHands(r)
    BY <1>2, <1>3 DEF InHands, Removed
  <2>2. mode[s] = "put" => InHands(first[s].req)'
    BY <1>3 DEF InHands, Removed
  <2>3. \A r \in Requests : pc'[r] = "done" => pc[r] = "done"
    BY <1>2, <1>3
  <2> QED BY <1>2, <1>3, <1>5, <1>6, <2>1, <2>2, <2>3 DEF TurnInv, Finished
<1>10. QueueIsBounded'
  <2>1. SizeOf(queue') = SizeOf(queue) - Size[first[s].req]
    BY <1>2, <1>3, <1>4, SizeOfTail
  <2>2. SizeOf(queue) \in Nat /\ Size[first[s].req] \in Nat /\ MaxMemory \in Nat
    BY <1>2, SizeOfType, SizeAssumption DEF SizeAssumption
  <2> QED BY <1>4, <2>1, <2>2 DEF TurnInv, QueueIsBounded
<1> QED BY <1>7, <1>8, <1>9, <1>10

(* The first element is acknowledged.                                          *)
LEMMA ResendKeeps ==
  ASSUME MaxInFlight = 1, TurnInv, NEW s \in Requests, ResendOk(s)
  PROVE  QueuedOnce' /\ EarlyOnes' /\ Finished' /\ QueueIsBounded'
<1>1. Step(s)
  BY DEF Step, Goroutine, Drain
<1>2. /\ \A t \in Requests \ {s} : pc[t] \in {"new", "done"} /\ pc'[t] = pc[t] /\ mode'[t] = mode[t]
      /\ Modes /\ TurnOf(s) /\ queue \in Seq(Elements) /\ first[s] \in Elements
      /\ first[s].req \in Requests
  BY <1>1, TurnIs
<1>3. /\ pc[s] = "resend" /\ pc'[s] = "shift" /\ mode' = mode /\ first' = first /\ queue' = queue
      /\ acked' = [acked EXCEPT ![first[s].req] = @ + 1] /\ sent' = sent /\ shifted' = shifted
      /\ acked \in [Requests -> Nat]
  BY DEF TurnInv, DirectInv, TypeInv, TypeOK, ResendOk, At, Goto, shared, locals
<1>4. queue # <<>> /\ first[s] = Head(queue) /\ mode[s] = "drain"
  BY <1>1, <1>2, <1>3, TurnIs DEF TurnOf, Inside, PlaceAt, Draining
<1>5. In(queue, first[s].req)
  BY <1>2, <1>4, InTail DEF TurnInv, QueuedOnce
<1>6. \A r \in Requests : IF r = first[s].req THEN acked'[r] = acked[r] + 1 ELSE acked'[r] = acked[r]
  BY <1>3
<1>7. QueuedOnce'
  BY <1>2, <1>3 DEF TurnInv, QueuedOnce, Queued, Stored
<1>8. EarlyOnes'
  BY <1>2, <1>3, <1>4, <1>5, <1>6 DEF TurnInv, EarlyOnes, Early, QueuedOnce, Queued, Stored
<1>9. Finished'
  <2>1. \A r \in Requests : ~InHands(r)
    BY <1>2, <1>3 DEF InHands, Removed
  <2>2. \A r \in Requests : acked[r] > 0 => acked'[r] > 0
    BY <1>3, <1>6
  <2> QED BY <1>2, <1>3, <2>1, <2>2 DEF TurnInv, Finished
<1>10. QueueIsBounded'
  BY <1>3 DEF TurnInv, QueueIsBounded
<1> QED BY <1>7, <1>8, <1>9, <1>10

(* The element in the hands of the goroutine is reported.                      *)
LEMMA NotifyKeeps ==
  ASSUME MaxInFlight = 1, TurnInv, NEW s \in Requests, NotifySent(s) \/ NotifyShifted(s)
  PROVE  QueuedOnce' /\ EarlyOnes' /\ Finished' /\ QueueIsBounded'
<1>1. Step(s)
  BY DEF Step, Goroutine, Shift
<1>2. /\ \A t \in Requests \ {s} : pc[t] \in {"new", "done"} /\ pc'[t] = pc[t] /\ mode'[t] = mode[t]
      /\ Modes /\ TurnOf(s) /\ first[s].req \in Requests
  BY <1>1, TurnIs
<1>3. /\ pc[s] = "notify" /\ pc'[s] \in {"check", "evict"}
      /\ mode' = mode /\ first' = first /\ queue' = queue
      /\ acked' = acked
      /\ \A r \in Requests \ {first[s].req} : sent'[r] = sent[r] /\ shifted'[r] = shifted[r]
      /\ mode[s] = "put" => shifted'[first[s].req] = shifted[first[s].req] + 1
      /\ mode[s] = "drain" => shifted' = shifted
  BY <1>2 DEF TurnInv, DirectInv, TypeInv, TypeOK, NotifySent, NotifyShifted, At, Goto, shared, locals
<1>4. /\ pc[first[s].req] = "done" /\ ~In(queue, first[s].req)
      /\ first[s].req # s /\ shifted[first[s].req] = 0
  BY <1>2, <1>3 DEF TurnOf, Inside, HandAt, Removed
<1>5. mode[s] \in {"put", "drain"}
  BY <1>2, <1>3 DEF Modes, TurnInv, DirectInv, TypeInv, TypeOK
<1>7. QueuedOnce'
  BY <1>2, <1>3, <1>4 DEF TurnInv, QueuedOnce, Queued, Stored
<1>8. EarlyOnes'
  BY <1>2, <1>3, <1>4 DEF TurnInv, EarlyOnes, Early, Stored
<1>9. Finished'
  <2>1. \A r \in Requests : InHands(r) => mode[s] = "put" /\ r = first[s].req
    BY <1>2, <1>3 DEF InHands, Removed
  <2>2. \A r \in Requests : InHands(r) => shifted'[r] > 0
    BY <1>3, <1>4, <2>1
  <2>3. \A r \in Requests : pc'[r] = "done" => pc[r] = "done"
    BY <1>2, <1>3
  <2>4. \A r \in Requests : shifted[r] > 0 => shifted'[r] > 0
    BY <1>3, <1>4, <1>5
  <2> QED BY <1>3, <2>2, <2>3, <2>4 DEF TurnInv, Finished
<1>10. QueueIsBounded'
  BY <1>3 DEF TurnInv, QueueIsBounded
<1> QED BY <1>7, <1>8, <1>9, <1>10

--------------------------------------------------------------------------------
(* How it changes what TurnInv says of s.                                      *)
(* The steps that leave the queue and its size alone.                          *)
Steady(s) ==
  \/ Begin(s) \/ PostOk(s) \/ PostFails(s) \/ FitsAtOnce(s) \/ TooLarge(s) \/ MustEvict(s)
  \/ FitsAfterEviction(s) \/ EvictFirst(s) \/ AppendRead(s) \/ GrowRead(s) \/ ShiftRead(s) \/ CutRead(s)
  \/ ShrinkRead(s) \/ NotifySent(s) \/ NotifyShifted(s) \/ NotifyNil(s) \/ EmptyQueue(s)
  \/ DrainEmpty(s) \/ DrainMore(s) \/ Peek(s) \/ ResendOk(s) \/ ResendFails(s)

(* What is true of the goroutine where such a step leads.                      *)
LEMMA SteadyPlaces ==
  ASSUME MaxInFlight = 1, TurnInv, NEW s \in Requests, Step(s), Steady(s)
  PROVE  TurnOf(s)'
<1>1. /\ pc \in [Requests -> Labels] /\ mode \in [Requests -> {"none", "put", "drain"}]
      /\ DOMAIN first = Requests /\ DOMAIN qreg = Requests /\ DOMAIN mreg = Requests
      /\ acked \in [Requests -> Nat] /\ DOMAIN sent = Requests /\ DOMAIN shifted = Requests
  BY DEF TurnInv, DirectInv, TypeInv, TypeOK
<1>2. /\ TurnOf(s) /\ queue \in Seq(Elements) /\ first[s] \in Elements /\ first[s].req \in Requests
      /\ mode[s] = "none" <=> pc[s] \in {"new", "post"}
      /\ pc[s] \in Putting => mode[s] = "put"
      /\ pc[s] \in {"append", "appendWrite"} => first[s].req = s
      /\ pc[s] \in {"check", "peek", "resend"} => mode[s] = "drain"
  BY TurnIs DEF Modes, Draining
<1>3. IF pc[s] \in {"new", "done"} THEN mem = SizeOf(queue) ELSE MemoryAt(s) /\ PlaceAt(s) /\ HandAt(s)
  BY <1>2 DEF TurnOf, Inside
<1> USE <1>1, <1>2, <1>3
    DEF Steady, Begin, PostOk, PostFails, FitsAtOnce, TooLarge, MustEvict, FitsAfterEviction, EvictFirst,
        AppendRead, GrowRead, ShiftRead, CutRead, ShrinkRead, NotifySent, NotifyShifted, NotifyNil,
        EmptyQueue, DrainEmpty, DrainMore, Peek, ResendOk, ResendFails, Stored, Removed, Putting, Owing,
        At, Goto, shared, locals, calls
<1>4. IF pc'[s] \in {"new", "done"} THEN mem' = SizeOf(queue') ELSE MemoryAt(s)'
  BY DEF MemoryAt
<1>5. pc'[s] \notin {"new", "done"} => PlaceAt(s)'
  BY DEF PlaceAt, Room, Element
<1>6. HandAt(s)'
  <2>1. /\ pc'[s] \in Removed => pc[s] \in Removed /\ first'[s] = first[s]
        /\ pc'[s] \in Removed => mode' = mode /\ queue' = queue /\ sent' = sent /\ shifted' = shifted
    OBVIOUS
  <2>2. \A x \in Requests \ {s} : pc'[x] = pc[x]
    BY TurnIs
  <2>3. mode'[s] = "drain" /\ pc'[s] \in Owing =>
          \/ pc[s] = "resend" /\ first' = first /\ acked' = [acked EXCEPT ![first[s].req] = @ + 1]
          \/ mode[s] = "drain" /\ pc[s] \in Owing /\ first'[s] = first[s] /\ acked' = acked
    BY DEF PlaceAt
  <2> QED BY <2>1, <2>2, <2>3 DEF HandAt
<1> HIDE DEF Steady
<1> QED BY <1>4, <1>5, <1>6 DEF TurnOf, Inside

(* And where a step that stores the queue or its size leads.                   *)
LEMMA StoringPlaces ==
  ASSUME MaxInFlight = 1, TurnInv, NEW s \in Requests,
         AppendWrite(s) \/ GrowWrite(s) \/ CutWrite(s) \/ ShrinkWrite(s)
  PROVE  TurnOf(s)'
<1>1. /\ pc \in [Requests -> Labels] /\ mode \in [Requests -> {"none", "put", "drain"}]
      /\ DOMAIN first = Requests /\ DOMAIN qreg = Requests /\ DOMAIN mreg = Requests
      /\ mem \in Int
  BY DEF TurnInv, DirectInv, TypeInv, TypeOK
<1>2. Step(s)
  BY DEF Step, Goroutine, Put, Shift
<1>3. /\ TurnOf(s) /\ queue \in Seq(Elements) /\ first[s] \in Elements /\ first[s].req \in Requests
      /\ pc[s] \in Putting => mode[s] = "put"
      /\ pc[s] \in {"append", "appendWrite"} => first[s].req = s
  BY <1>2, TurnIs DEF Modes
<1>4. pc[s] \in {"appendWrite", "growWrite", "cutWrite", "shrinkWrite"} =>
        MemoryAt(s) /\ PlaceAt(s) /\ HandAt(s)
  BY <1>3 DEF TurnOf, Inside
<1>5. \A x \in Requests : Size[x] \in Nat
  BY SizeAssumption DEF SizeAssumption
<1>6. SizeOf(queue) \in Nat
  BY <1>3, SizeOfType
<1>7. CASE AppendWrite(s)
  <2>1. /\ pc[s] = "appendWrite" /\ pc'[s] = "grow" /\ mode' = mode /\ first' = first /\ mem' = mem
        /\ queue' = Append(qreg[s], first[s])
    BY <1>1, <1>7 DEF AppendWrite, At, Goto
  <2>2. first[s].req = s /\ mode[s] = "put" /\ qreg[s] = queue /\ mem = SizeOf(queue)
    BY <1>3, <1>4, <2>1 DEF Putting, PlaceAt, MemoryAt, Stored
  <2>3. SizeOf(queue') = SizeOf(queue) + Size[s] /\ In(queue', s)
    BY <1>3, <2>1, <2>2, SizeOfAppend, InAppend
  <2>4. MemoryAt(s)'
    BY <2>1, <2>2, <2>3 DEF MemoryAt, Stored
  <2>5. PlaceAt(s)' /\ HandAt(s)'
    BY <2>1, <2>2, <2>3 DEF PlaceAt, HandAt, Stored, Removed, Owing
  <2> QED BY <2>1, <2>4, <2>5 DEF TurnOf, Inside
<1>8. CASE GrowWrite(s)
  <2>1. pc[s] = "growWrite" /\ pc'[s] = "done" /\ queue' = queue /\ mem' = mreg[s] + Size[first[s].req]
    BY <1>1, <1>8 DEF GrowWrite, At, Goto
  <2>2. mem' = SizeOf(queue)
    BY <1>4, <2>1 DEF MemoryAt, PlaceAt, Stored
  <2> QED BY <2>1, <2>2 DEF TurnOf, Inside
<1>9. CASE CutWrite(s)
  <2>1. /\ pc[s] = "cutWrite" /\ pc' = [pc EXCEPT ![s] = "shrink"] /\ mode' = mode /\ first' = first
        /\ queue' = Tail(qreg[s]) /\ mem' = mem /\ acked' = acked /\ sent' = sent /\ shifted' = shifted
    BY <1>9 DEF CutWrite, At, Goto, calls
  <2>2. qreg[s] = queue /\ queue # <<>> /\ first[s] = Head(queue) /\ mem = SizeOf(queue)
    BY <1>4, <2>1 DEF PlaceAt, MemoryAt, Stored
  <2>3. SizeOf(queue') = SizeOf(queue) - Size[first[s].req]
    BY <1>3, <2>1, <2>2, SizeOfTail
  <2>4. /\ In(queue, first[s].req) /\ ~In(queue', first[s].req)
    BY <1>3, <2>1, <2>2, InTail DEF TurnInv, QueuedOnce
  <2>5. Queued(first[s].req) /\ first[s].req # s
    BY <1>3, <2>1, <2>4 DEF TurnInv, QueuedOnce, Queued, Stored
  <2>6. pc[first[s].req] = "done"
    BY <1>2, <1>3, <2>5, TurnIs DEF Queued, Stored
  <2>7. MemoryAt(s)'
    BY <1>1, <1>3, <1>5, <1>6, <2>1, <2>2, <2>3 DEF MemoryAt, Stored
  <2>8. PlaceAt(s)'
    BY <1>1, <1>4, <2>1 DEF PlaceAt, Stored, Owing
  <2>9. HandAt(s)'
    <3>1. HandAt(s)
      BY <1>4, <2>1
    <3> QED BY <1>1, <2>1, <2>4, <2>5, <2>6, <3>1 DEF HandAt, Queued, Removed, Owing
  <2> QED BY <1>1, <2>1, <2>7, <2>8, <2>9 DEF TurnOf, Inside
<1>10. CASE ShrinkWrite(s)
  <2>1. /\ pc[s] = "shrinkWrite" /\ pc' = [pc EXCEPT ![s] = "notify"] /\ mode' = mode /\ first' = first
        /\ queue' = queue /\ mem' = mreg[s] - Size[first[s].req]
        /\ acked' = acked /\ sent' = sent /\ shifted' = shifted
    BY <1>10 DEF ShrinkWrite, At, Goto, calls
  <2>2. mem' = SizeOf(queue')
    BY <1>3, <1>4, <1>5, <1>6, <2>1 DEF MemoryAt
  <2>3. MemoryAt(s)'
    BY <1>1, <2>1, <2>2 DEF MemoryAt, Stored
  <2>4. PlaceAt(s)'
    BY <1>1, <1>4, <2>1 DEF PlaceAt, Stored, Owing
  <2>5. HandAt(s)'
    BY <1>1, <1>4, <2>1 DEF HandAt, Removed, Owing
  <2> QED BY <1>1, <2>1, <2>3, <2>4, <2>5 DEF TurnOf, Inside
<1> QED BY <1>7, <1>8, <1>9, <1>10

(* shift finds the queue empty only for a batch as large as the buffer.        *)
LEMMA EmptyShift ==
  ASSUME MaxInFlight = 1, TurnInv, NEW s \in Requests, Step(s), crash = "no", crash' = "empty"
  PROVE  s \in Inside' /\ Size[s] = MaxMemory
<1>1. pc[s] \in {"shift", "cut", "peek"} /\ queue = <<>> /\ pc' = pc
  BY DEF Step, Goroutine, Begin, PostOk, PostFails, Put, Shift, Drain, FitsAtOnce, TooLarge,
     MustEvict, FitsAfterEviction, EvictFirst, AppendRead, AppendWrite, GrowRead, GrowWrite, ShiftRead,
     CutRead, CutWrite, ShrinkRead, ShrinkWrite, NotifySent, NotifyShifted, NotifyNil, EmptyQueue,
     DrainEmpty, DrainMore, Peek, ResendOk, ResendFails, At, shared, locals, calls
<1>2. s \in Inside /\ TurnOf(s) /\ Modes /\ mode[s] \in {"none", "put", "drain"}
  BY <1>1, TurnIs DEF Inside, TypeInv, TypeOK
<1>3. pc[s] = "shift" /\ mode[s] = "put"
  BY <1>1, <1>2 DEF TurnOf, PlaceAt, Modes
<1>4. mem = 0
  BY <1>1, <1>2, <1>3, SizeOfEmpty DEF TurnOf, MemoryAt, Stored
<1>5. ~Room(s) /\ Size[s] <= MaxMemory
  BY <1>2, <1>3 DEF TurnOf, PlaceAt, Owing
<1>6. Size[s] \in Nat /\ MaxMemory \in Nat
  BY SizeAssumption DEF SizeAssumption
<1> QED BY <1>1, <1>2, <1>4, <1>5, <1>6 DEF Room, Inside

(* TurnInv is inductive.                                                       *)
LEMMA TurnInit == ASSUME Init PROVE TurnInv
<1>1. DirectInv /\ Draining
  BY DirectInit DEF Init, Draining
<1>2. Turn /\ AtEach /\ EarlyOnes /\ Finished
  BY DEF Init, Turn, AtEach, EarlyOnes, Early, Finished, Inside
<1>3. QueuedOnce
  BY DEF Init, QueuedOnce, Distinct, In
<1>4. MemoryIsQueueSize /\ QueueIsBounded /\ EmptyShiftNeedsFullBatch
  BY SizeOfEmpty DEF Init, MemoryIsQueueSize, QueueIsBounded, EmptyShiftNeedsFullBatch
<1> QED BY <1>1, <1>2, <1>3, <1>4 DEF TurnInv

LEMMA TurnStep == ASSUME MaxInFlight = 1, TurnInv, [Next]_vars PROVE TurnInv'
<1>1. CASE UNCHANGED vars
  BY <1>1 DEF TurnInv, DirectInv, TypeInv, TypeOK, CutsSome, Modes, Unseen, ToldOnce, Draining, Turn,
              AtEach, MemoryAt, PlaceAt, HandAt, Room, QueuedOnce, Queued, EarlyOnes, Early, Finished,
              InHands, MemoryIsQueueSize, QueueIsBounded, EmptyShiftNeedsFullBatch, Inside,
              vars, shared, locals, calls
<1>2. ASSUME NEW s \in Requests, Step(s), crash = "no" PROVE TurnInv'
  <2>1. TurnOf(s)'
    BY <1>2, SteadyPlaces, StoringPlaces DEF Steady, Step, Goroutine, Put, Shift, Drain
  <2>2. QueuedOnce' /\ EarlyOnes' /\ Finished' /\ QueueIsBounded'
    BY <1>2, QuietStep, PostKeeps, AppendKeeps, CutKeeps, ResendKeeps, NotifyKeeps
       DEF Step, Goroutine, Put, Shift, Drain
  <2> QED BY <1>2, <2>1, <2>2, EmptyShift, TurnMoves
<1> QED BY <1>1, <1>2 DEF Next, Step

LEMMA TurnsKeepTurnInv == ASSUME MaxInFlight = 1 PROVE Spec => []TurnInv
<1>1. TurnInv /\ [Next]_vars => TurnInv'
  BY TurnStep
<1> QED BY <1>1, TurnInit, PTL DEF Spec

(* When goroutines take turns and none is inside ingest, currentMemorySize is the *)
(* size of the queue: the += and -= of putToQueue, addToQueue and shift cancel *)
(* out over every sequence of puts, evictions and drains (retry_policy.go 33-70). *)
THEOREM MemoryAgrees == ASSUME MaxInFlight = 1 PROVE Spec => []MemoryIsQueueSize
<1>1. TurnInv => MemoryIsQueueSize
  BY DEF TurnInv
<1> QED BY <1>1, TurnsKeepTurnInv, PTL

(* When goroutines take turns the queue never holds maxMemorySizeInBytes or more, *)
(* in the middle of an eviction too (retry_policy.go 33-70).                   *)
THEOREM QueueStaysBounded == ASSUME MaxInFlight = 1 PROVE Spec => []QueueIsBounded
<1>1. TurnInv => QueueIsBounded
  BY DEF TurnInv
<1> QED BY <1>1, TurnsKeepTurnInv, PTL

(* When goroutines take turns, shift is called on an empty queue for one kind of *)
(* batch only, the one exactly as large as the buffer (retry_policy.go 37, 43  *)
(* and the caution of line 56).                                                *)
THEOREM EmptyShiftIsFullBatch == ASSUME MaxInFlight = 1 PROVE Spec => []EmptyShiftNeedsFullBatch
<1>1. TurnInv => EmptyShiftNeedsFullBatch
  BY DEF TurnInv
<1> QED BY <1>1, TurnsKeepTurnInv, PTL

(* When goroutines take turns, a request ingest has finished with is acknowledged, *)
(* waits in the queue, was reported as shifted out, or was larger than the whole *)
(* buffer (retry_policy.go 21-95).                                             *)
THEOREM NothingIsForgotten == ASSUME MaxInFlight = 1 PROVE Spec => []NothingForgotten
<1>1. TurnInv => NothingForgotten
  BY DEF TurnInv, NothingForgotten, Finished, InHands, Removed, Inside, InQueue, In, At
<1> QED BY <1>1, TurnsKeepTurnInv, PTL

--------------------------------------------------------------------------------
(* The refinement.                                                             *)
(* The five variables of RequestDelivery, under names of their own.            *)
Started  == {r \in Requests : pc[r] # "new"}
AckedOnes == {r \in Requests : acked[r] > 0}
Tolds    == [r \in Requests |-> Told(r)]
Reqs(q)  == [k \in DOMAIN q |-> q[k].req]

(* The requests of a queue, its end, its head and its tail.                    *)
LEMMA ReqsAre ==
  ASSUME NEW q \in Seq(Elements)
  PROVE  /\ Reqs(q) \in Seq(Requests)
         /\ \A e \in Elements : Reqs(Append(q, e)) = Append(Reqs(q), e.req)
         /\ q # <<>> => /\ Reqs(q) # <<>> /\ Head(Reqs(q)) = Head(q).req
                        /\ Tail(Reqs(q)) = Reqs(Tail(q))
         /\ q = <<>> => Reqs(q) = <<>>
         /\ \A r : In(q, r) <=> \E k \in DOMAIN Reqs(q) : Reqs(q)[k] = r
<1>0. Len(q) \in Nat /\ DOMAIN q = 1..Len(q) /\ \A k \in 1..Len(q) : q[k] \in Elements
  OBVIOUS
<1>1. /\ Len(q) \in Nat /\ DOMAIN q = 1..Len(q)
      /\ \A k \in 1..Len(q) : q[k] \in Elements /\ q[k].req \in Requests
  BY <1>0 DEF Elements
<1>2. Reqs(q) \in Seq(Requests) /\ Len(Reqs(q)) = Len(q) /\ \A k \in 1..Len(q) : Reqs(q)[k] = q[k].req
  BY <1>1 DEF Reqs
<1>3. ASSUME NEW e \in Elements PROVE Reqs(Append(q, e)) = Append(Reqs(q), e.req)
  <2>1. /\ Len(Append(q, e)) = Len(q) + 1 /\ DOMAIN Append(q, e) = 1..(Len(q) + 1)
        /\ Append(q, e)[Len(q) + 1] = e /\ \A k \in 1..Len(q) : Append(q, e)[k] = q[k]
    BY <1>1
  <2>2. e.req \in Requests
    BY DEF Elements
  <2>3. Append(Reqs(q), e.req) \in Seq(Requests) /\ Len(Append(Reqs(q), e.req)) = Len(q) + 1
        /\ Append(Reqs(q), e.req)[Len(q) + 1] = e.req
        /\ \A k \in 1..Len(q) : Append(Reqs(q), e.req)[k] = q[k].req
    BY <1>1, <1>2, <2>2
  <2>4. DOMAIN Append(Reqs(q), e.req) = 1..(Len(q) + 1)
        /\ Append(Reqs(q), e.req) = [k \in 1..(Len(q) + 1) |-> Append(Reqs(q), e.req)[k]]
    BY <2>3
  <2>5. Reqs(Append(q, e)) = [k \in 1..(Len(q) + 1) |-> Append(q, e)[k].req]
    BY <2>1 DEF Reqs
  <2>6. \A k \in 1..(Len(q) + 1) : Append(q, e)[k].req = Append(Reqs(q), e.req)[k]
    BY <1>1, <2>1, <2>3
  <2> QED BY <2>4, <2>5, <2>6
<1>4. ASSUME q # <<>>
      PROVE  Reqs(q) # <<>> /\ Head(Reqs(q)) = Head(q).req /\ Tail(Reqs(q)) = Reqs(Tail(q))
  <2>1. Len(q) \in Nat \ {0} /\ Head(q) = q[1] /\ DOMAIN Tail(q) = 1..(Len(q) - 1)
        /\ \A k \in 1..(Len(q) - 1) : Tail(q)[k] = q[k + 1]
    BY <1>1, <1>4
  <2>2. Reqs(q) # <<>> /\ Head(Reqs(q)) = Head(q).req
    BY <1>1, <1>2, <2>1
  <2>3. Tail(Reqs(q)) = [k \in 1..(Len(q) - 1) |-> Reqs(q)[k + 1]]
    <3> DEFINE rs == Reqs(q)
    <3>1. rs \in Seq(Requests) /\ rs # <<>> /\ Len(rs) = Len(q)
      BY <1>2, <2>2
    <3> HIDE DEF rs
    <3>2. /\ Tail(rs) \in Seq(Requests) /\ Len(Tail(rs)) = Len(rs) - 1
          /\ \A k \in 1..(Len(rs) - 1) : Tail(rs)[k] = rs[k + 1]
      BY <3>1
    <3>3. \A u \in Seq(Requests) : u = [k \in 1..Len(u) |-> u[k]]
      OBVIOUS
    <3> QED BY <3>1, <3>2, <3>3 DEF rs
  <2>4. Reqs(Tail(q)) = [k \in 1..(Len(q) - 1) |-> Tail(q)[k].req]
    BY <2>1 DEF Reqs
  <2>5. \A k \in 1..(Len(q) - 1) : Reqs(q)[k + 1] = Tail(q)[k].req
    BY <1>1, <1>2, <2>1
  <2> QED BY <2>2, <2>3, <2>4, <2>5
<1>5. q = <<>> => Reqs(q) = <<>>
  BY <1>2
<1>6. \A r : In(q, r) <=> \E k \in DOMAIN Reqs(q) : Reqs(q)[k] = r
  BY <1>1, <1>2 DEF In
<1> QED BY <1>2, <1>3, <1>4, <1>5, <1>6

(* What s, the only goroutine inside, shows of itself.                         *)
LeavingAt(s) == mode[s] = "drain" /\ pc[s] \in {"shift", "cut", "cutWrite"}
Hands(s) == IF mode[s] = "put" /\ pc[s] \in Removed THEN {first[s].req} ELSE {}

(* They make out what RequestDelivery sees.                                    *)
LEMMA ViewIs ==
  ASSUME MaxInFlight = 1, TurnInv, NEW s \in Requests, Step(s)
  PROVE  /\ Waiting = IF LeavingAt(s) THEN Tail(Reqs(queue)) ELSE Reqs(queue)
         /\ Waiting' = IF LeavingAt(s)' THEN Tail(Reqs(queue')) ELSE Reqs(queue')
         /\ Evicted = {r \in Requests : shifted[r] > 0} \cup Hands(s)
         /\ Evicted' = {r \in Requests : shifted'[r] > 0} \cup Hands(s)'
<1>1. \A t \in Requests \ {s} : /\ pc[t] \in {"new", "done"}
                                /\ pc'[t] \in {"new", "done"}
  BY TurnIs
<1>2. Leaving <=> LeavingAt(s)
  BY <1>1 DEF Leaving, LeavingAt
<1>3. Leaving' <=> LeavingAt(s)'
  BY <1>1 DEF Leaving, LeavingAt
<1>4. {first[r].req : r \in {t \in Requests :
        mode[t] = "put" /\ pc[t] \in {"shrink", "shrinkWrite", "notify"}}}
        = Hands(s)
  BY <1>1 DEF Hands, Removed
<1>5. {first'[r].req : r \in {t \in Requests :
        mode'[t] = "put" /\ pc'[t] \in {"shrink", "shrinkWrite", "notify"}}}
        = Hands(s)'
  BY <1>1 DEF Hands, Removed
<1> QED BY <1>2, <1>3, <1>4, <1>5 DEF Waiting, Evicted, Reqs

Maps == [Delivery!Next]_(Delivery!dvars)

(* A step that shows nothing.                                                  *)
LEMMA QuietMaps ==
  ASSUME MaxInFlight = 1, TurnInv, NEW s \in Requests, Step(s),
         Started' = Started, UNCHANGED <<queue, acked, sent, shifted>>,
         LeavingAt(s)' <=> LeavingAt(s), Hands(s)' = Hands(s)
  PROVE  Maps
<1>1. Waiting' = Waiting /\ Evicted' = Evicted
  BY ViewIs
<1>2. {r \in Requests : acked[r] > 0}' = {r \in Requests : acked[r] > 0}
  OBVIOUS
<1>3. [r \in Requests |-> Told(r)]' = [r \in Requests |-> Told(r)]
  BY DEF Told
<1>4. UNCHANGED Delivery!dvars
  BY <1>1, <1>2, <1>3 DEF Delivery!dvars, Started
<1> QED BY <1>4 DEF Maps

(* Most steps show nothing.                                                    *)
LEMMA HiddenMaps ==
  ASSUME MaxInFlight = 1, TurnInv, NEW s \in Requests, Step(s),
         \/ PostFails(s) \/ FitsAtOnce(s) \/ TooLarge(s) \/ MustEvict(s) \/ FitsAfterEviction(s)
         \/ EvictFirst(s) \/ AppendRead(s) \/ GrowRead(s) \/ GrowWrite(s)
         \/ ShiftRead(s) \/ CutRead(s) \/ ShrinkRead(s) \/ ShrinkWrite(s) \/ NotifyNil(s)
         \/ EmptyQueue(s) \/ DrainEmpty(s) \/ DrainMore(s) \/ Peek(s) \/ ResendFails(s)
  PROVE  Maps
<1>1. /\ DOMAIN pc = Requests /\ DOMAIN mode = Requests
      /\ (pc[s] \in Putting => mode[s] = "put")
      /\ (pc[s] \in {"check", "peek", "resend"} => mode[s] = "drain")
      /\ mode[s] = "none" <=> pc[s] \in {"new", "post"}
  BY TurnIs DEF TypeInv, TypeOK, Modes, Draining
<1> USE <1>1 DEF PostFails, FitsAtOnce, TooLarge, MustEvict, FitsAfterEviction, EvictFirst, AppendRead,
         GrowRead, GrowWrite, ShiftRead, CutRead, ShrinkRead, ShrinkWrite, NotifyNil, EmptyQueue,
         DrainEmpty, DrainMore, Peek, ResendFails, At, Goto, shared, locals, calls
<1>2. UNCHANGED <<queue, acked, sent, shifted>>
  OBVIOUS
<1>3. pc[s] # "new" /\ pc'[s] # "new" 
  OBVIOUS
<1>4. \/ mode'[s] = mode[s]
      \/ pc[s] = "post" /\ pc'[s] = "fit" /\ mode[s] = "none" /\ mode'[s] = "put"
  OBVIOUS
<1>5. \/ pc[s] \in {"shift", "cut", "cutWrite"} <=> pc'[s] \in {"shift", "cut", "cutWrite"}
      \/ pc[s] = "evict" /\ pc'[s] = "shift" /\ mode[s] = "put"
  BY DEF Putting
<1>6. pc[s] \in Removed <=> pc'[s] \in Removed
  BY DEF Removed
<1>7. pc[s] \in Removed => first'[s] = first[s]
  BY DEF Removed
<1> HIDE DEF PostFails, FitsAtOnce, TooLarge, MustEvict, FitsAfterEviction, EvictFirst, AppendRead,
         GrowRead, GrowWrite, ShiftRead, CutRead, ShrinkRead, ShrinkWrite, NotifyNil, EmptyQueue,
         DrainEmpty, DrainMore, Peek, ResendFails, At, Goto, shared, locals, calls
<1>8. Started' = Started
  BY <1>3, TurnIs DEF Started
<1>9. LeavingAt(s)' <=> LeavingAt(s)
  BY <1>4, <1>5 DEF LeavingAt
<1>10. Hands(s)' = Hands(s)
  BY <1>4, <1>6, <1>7 DEF Hands, Removed
<1> QED BY <1>2, <1>8, <1>9, <1>10, QuietMaps

(* The others are steps of RequestDelivery: Start,                             *)
LEMMA BeginMaps ==
  ASSUME MaxInFlight = 1, TurnInv, NEW s \in Requests, Begin(s) PROVE Maps
<1>1. Step(s)
  BY DEF Step
<1>2. /\ pc \in [Requests -> Labels] /\ pc[s] = "new" /\ pc' = [pc EXCEPT ![s] = "post"]
      /\ UNCHANGED <<queue, mode, first, acked, sent, shifted>>
  BY DEF Begin, At, Goto, shared, locals, calls, TurnInv, DirectInv, TypeInv, TypeOK
<1>3. Waiting' = Waiting /\ Evicted' = Evicted
  BY <1>1, <1>2, ViewIs DEF LeavingAt, Hands, Removed
<1>4. /\ s \notin {r \in Requests : pc[r] # "new"}
      /\ {r \in Requests : pc'[r] # "new"} = {r \in Requests : pc[r] # "new"} \cup {s}
  BY <1>2
<1>5. [r \in Requests |-> Told(r)]' = [r \in Requests |-> Told(r)]
  BY <1>2 DEF Told
<1>6. {r \in Requests : acked[r] > 0}' = {r \in Requests : acked[r] > 0}
  BY <1>2
<1>7. Delivery!Start(s)
  BY <1>3, <1>4, <1>5, <1>6 DEF Delivery!Start
<1> QED BY <1>7 DEF Maps, Delivery!Next

(* Who is neither in the queue nor in hands can be delivered or remembered.    *)
LEMMA FreshIs ==
  ASSUME MaxInFlight = 1, TurnInv, NEW s \in Requests, Step(s),
         pc[s] \in {"post", "appendWrite"}, acked[s] = 0, shifted[s] = 0, ~In(queue, s)
  PROVE  /\ s \in Started \ (AckedOnes \cup Evicted) /\ ~Delivery!IsWaiting(s)
         /\ Waiting = Reqs(queue) /\ Hands(s) = {}
<1>1. Waiting = Reqs(queue) /\ Hands(s) = {} /\ ~LeavingAt(s)
  BY ViewIs DEF LeavingAt, Hands, Removed
<1>2. queue \in Seq(Elements)
  BY TurnIs
<1>3. ~Delivery!IsWaiting(s)
  BY <1>1, <1>2, ReqsAre DEF Delivery!IsWaiting
<1>4. s \notin Evicted
  BY <1>1, ViewIs
<1> QED BY <1>1, <1>3, <1>4 DEF Started, AckedOnes

(* One request has been told something.                                        *)
LEMMA ToldChanges ==
  ASSUME NEW x \in Requests, NEW w, Told(x)' = w,
         \A r \in Requests \ {x} : sent'[r] = sent[r] /\ shifted'[r] = shifted[r]
  PROVE  [r \in Requests |-> Told(r)]' = [[r \in Requests |-> Told(r)] EXCEPT ![x] = w]
<1>1. \A r \in Requests \ {x} : Told(r)' = Told(r)
  BY DEF Told
<1> QED BY <1>1

(* Deliver,                                                                    *)
LEMMA PostMaps ==
  ASSUME MaxInFlight = 1, TurnInv, NEW s \in Requests, PostOk(s) PROVE Maps
<1>1. Step(s)
  BY DEF Step, Goroutine
<1>2. /\ acked \in [Requests -> Nat] /\ sent \in [Requests -> Nat]
      /\ pc[s] = "post" /\ pc'[s] = "check" 
      /\ acked' = [acked EXCEPT ![s] = @ + 1] /\ sent' = [sent EXCEPT ![s] = @ + 1]
      /\ UNCHANGED <<queue, shifted>>
  BY DEF PostOk, At, Goto, shared, TurnInv, DirectInv, TypeInv, TypeOK
<1>3. mode[s] = "none"
  BY <1>1, <1>2, TurnIs DEF Modes
<1>4. acked[s] = 0 /\ sent[s] = 0 /\ shifted[s] = 0 /\ ~In(queue, s)
  BY <1>3 DEF TurnInv, DirectInv, ToldOnce, Unseen
<1>5. /\ s \in Started \ (AckedOnes \cup Evicted) /\ ~Delivery!IsWaiting(s)
      /\ Waiting = Reqs(queue) /\ Hands(s) = {}
  BY <1>1, <1>2, <1>4, FreshIs
<1>6. Waiting' = Waiting /\ Evicted' = Evicted
  BY <1>1, <1>2, <1>5, ViewIs DEF LeavingAt, Hands, Removed
<1>7. {r \in Requests : pc'[r] # "new"} = {r \in Requests : pc[r] # "new"}
  BY <1>1, <1>2, TurnIs
<1>8. {r \in Requests : acked'[r] > 0} = {r \in Requests : acked[r] > 0} \cup {s}
  BY <1>2, <1>4
<1>9. [r \in Requests |-> Told(r)]' = [[r \in Requests |-> Told(r)] EXCEPT ![s] = "sent"]
  <2>1. Told(s)' = "sent"
    BY <1>2, <1>4 DEF Told
  <2>2. \A r \in Requests \ {s} : sent'[r] = sent[r] /\ shifted'[r] = shifted[r]
    BY <1>2
  <2> QED BY <2>1, <2>2, ToldChanges
<1>10. Delivery!Deliver(s)
  BY <1>5, <1>6, <1>7, <1>8, <1>9 DEF Delivery!Deliver, Started, AckedOnes
<1> QED BY <1>10 DEF Maps, Delivery!Next

(* Remember,                                                                   *)
LEMMA AppendMaps ==
  ASSUME MaxInFlight = 1, TurnInv, NEW s \in Requests, AppendWrite(s) PROVE Maps
<1>1. Step(s)
  BY DEF Step, Goroutine, Put
<1>2. /\ pc[s] = "appendWrite" /\ pc' = [pc EXCEPT ![s] = "grow"] /\ pc \in [Requests -> Labels]
      /\ queue' = Append(qreg[s], first[s]) /\ UNCHANGED <<mode, first, acked, sent, shifted>>
  BY DEF AppendWrite, At, Goto, calls, TurnInv, DirectInv, TypeInv, TypeOK
<1>3. /\ TurnOf(s) /\ Modes /\ queue \in Seq(Elements) /\ first[s] \in Elements
  BY <1>1, TurnIs
<1>4. mode[s] = "put" /\ first[s].req = s /\ qreg[s] = queue
  BY <1>2, <1>3 DEF Modes, Putting, TurnOf, Inside, PlaceAt
<1>5. acked[s] = 0 /\ shifted[s] = 0 /\ ~In(queue, s)
  BY <1>2, <1>4 DEF TurnInv, EarlyOnes, Early, QueuedOnce, Queued, Stored
<1>6. /\ s \in Started \ (AckedOnes \cup Evicted) /\ ~Delivery!IsWaiting(s)
      /\ Waiting = Reqs(queue) /\ Hands(s) = {}
  BY <1>1, <1>2, <1>5, FreshIs
<1>7. Waiting' = Append(Waiting, s)
  BY <1>1, <1>2, <1>3, <1>4, <1>6, ViewIs, ReqsAre DEF LeavingAt
<1>8. Evicted' = Evicted
  BY <1>1, <1>2, <1>6, ViewIs DEF Hands, Removed
<1>9. {r \in Requests : pc'[r] # "new"} = {r \in Requests : pc[r] # "new"}
  BY <1>1, <1>2, TurnIs
<1>10. [r \in Requests |-> Told(r)]' = [r \in Requests |-> Told(r)]
  BY <1>2 DEF Told
<1>11. {r \in Requests : acked[r] > 0}' = {r \in Requests : acked[r] > 0}
  BY <1>2
<1>12. Delivery!Remember(s)
  BY <1>6, <1>7, <1>8, <1>9, <1>10, <1>11 DEF Delivery!Remember, Started, AckedOnes
<1> QED BY <1>12 DEF Maps, Delivery!Next

(* MakeRoom, unless the element has left with its acknowledgement,             *)
LEMMA CutMaps ==
  ASSUME MaxInFlight = 1, TurnInv, NEW s \in Requests, CutWrite(s) PROVE Maps
<1>1. Step(s)
  BY DEF Step, Goroutine, Shift
<1>2. /\ pc[s] = "cutWrite" /\ pc' = [pc EXCEPT ![s] = "shrink"] /\ pc \in [Requests -> Labels]
      /\ queue' = Tail(qreg[s]) /\ UNCHANGED <<mode, first, acked, sent, shifted>>
  BY DEF CutWrite, At, Goto, calls, TurnInv, DirectInv, TypeInv, TypeOK
<1>3. /\ TurnOf(s) /\ Modes /\ queue \in Seq(Elements) /\ mode[s] \in {"none", "put", "drain"}
  BY <1>1, TurnIs DEF TypeInv, TypeOK
<1>4. mode[s] \in {"put", "drain"} /\ qreg[s] = queue /\ queue # <<>> /\ first[s] = Head(queue)
  BY <1>2, <1>3 DEF Modes, TurnOf, Inside, PlaceAt
<1>5. {r \in Requests : pc'[r] # "new"} = {r \in Requests : pc[r] # "new"}
  BY <1>1, <1>2, TurnIs
<1>6. [r \in Requests |-> Told(r)]' = [r \in Requests |-> Told(r)]
  BY <1>2 DEF Told
<1>7. {r \in Requests : acked[r] > 0}' = {r \in Requests : acked[r] > 0}
  BY <1>2
<1>8. /\ Reqs(queue) # <<>> /\ Head(Reqs(queue)) = first[s].req /\ Reqs(queue') = Tail(Reqs(queue))
  BY <1>2, <1>3, <1>4, ReqsAre
<1>9. CASE mode[s] = "put"
  <2>1. Waiting = Reqs(queue) /\ Waiting' = Tail(Waiting)
    BY <1>1, <1>2, <1>8, <1>9, ViewIs DEF LeavingAt
  <2>2. Evicted' = Evicted \cup {Head(Waiting)}
    BY <1>1, <1>2, <1>8, <1>9, <2>1, ViewIs DEF Hands, Removed
  <2>3. Delivery!MakeRoom
    BY <1>5, <1>6, <1>7, <1>8, <2>1, <2>2 DEF Delivery!MakeRoom
  <2> QED BY <2>3 DEF Maps, Delivery!Next
<1>10. CASE mode[s] = "drain"
  <2>1. Waiting' = Waiting
    BY <1>1, <1>2, <1>8, <1>10, ViewIs DEF LeavingAt
  <2>2. Evicted' = Evicted
    BY <1>1, <1>2, <1>10, ViewIs DEF Hands
  <2>3. UNCHANGED Delivery!dvars
    BY <1>5, <1>6, <1>7, <2>1, <2>2 DEF Delivery!dvars
  <2> QED BY <2>3 DEF Maps
<1> QED BY <1>4, <1>9, <1>10

(* Redeliver,                                                                  *)
LEMMA ResendMaps ==
  ASSUME MaxInFlight = 1, TurnInv, NEW s \in Requests, ResendOk(s) PROVE Maps
<1>1. Step(s)
  BY DEF Step, Goroutine, Drain
<1>2. /\ pc[s] = "resend" /\ pc' = [pc EXCEPT ![s] = "shift"] /\ pc \in [Requests -> Labels]
      /\ acked \in [Requests -> Nat] /\ acked' = [acked EXCEPT ![first[s].req] = @ + 1]
      /\ UNCHANGED <<queue, mode, first, sent, shifted>>
  BY DEF ResendOk, At, Goto, shared, locals, TurnInv, DirectInv, TypeInv, TypeOK
<1>3. /\ TurnOf(s) /\ queue \in Seq(Elements) /\ mode[s] = "drain" /\ first[s].req \in Requests
  BY <1>1, <1>2, TurnIs DEF Draining
<1>4. queue # <<>> /\ first[s] = Head(queue)
  BY <1>2, <1>3 DEF TurnOf, Inside, PlaceAt
<1>5. {r \in Requests : pc'[r] # "new"} = {r \in Requests : pc[r] # "new"}
  BY <1>1, <1>2, TurnIs
<1>6. [r \in Requests |-> Told(r)]' = [r \in Requests |-> Told(r)]
  BY <1>2 DEF Told
<1>7. {r \in Requests : acked'[r] > 0} = {r \in Requests : acked[r] > 0} \cup {first[s].req}
  <2>1. \A r \in Requests : IF r = first[s].req THEN acked'[r] = acked[r] + 1 ELSE acked'[r] = acked[r]
    BY <1>2
  <2>2. acked[first[s].req] + 1 > 0
    BY <1>2, <1>3
  <2> QED BY <1>3, <2>1, <2>2
<1>8. Reqs(queue) # <<>> /\ Head(Reqs(queue)) = first[s].req
  BY <1>3, <1>4, ReqsAre
<1>9. Waiting = Reqs(queue) /\ Waiting' = Tail(Waiting)
  BY <1>1, <1>2, <1>3, ViewIs DEF LeavingAt
<1>10. Evicted' = Evicted
  BY <1>1, <1>2, <1>3, ViewIs DEF Hands
<1>11. Delivery!Redeliver
  BY <1>5, <1>6, <1>7, <1>8, <1>9, <1>10 DEF Delivery!Redeliver
<1> QED BY <1>11 DEF Maps, Delivery!Next

(* and Tell.                                                                   *)
LEMMA NotifyMaps ==
  ASSUME MaxInFlight = 1, TurnInv, NEW s \in Requests, NotifySent(s) \/ NotifyShifted(s) PROVE Maps
<1>1. Step(s)
  BY DEF Step, Goroutine, Shift
<1> DEFINE x == first[s].req
<1>2. /\ pc[s] = "notify" /\ pc'[s] \in {"check", "evict"}
      /\ sent \in [Requests -> Nat] /\ shifted \in [Requests -> Nat]
      /\ UNCHANGED <<queue, mode, first, acked>>
      /\ \/ mode[s] = "drain" /\ sent' = [sent EXCEPT ![x] = @ + 1] /\ shifted' = shifted
         \/ mode[s] = "put" /\ shifted' = [shifted EXCEPT ![x] = @ + 1] /\ sent' = sent
  BY DEF NotifySent, NotifyShifted, At, Goto, shared, locals, TurnInv, DirectInv, TypeInv, TypeOK
<1>3. TurnOf(s) /\ x \in Requests
  BY <1>1, TurnIs
<1>4. /\ sent[x] = 0 /\ shifted[x] = 0 /\ (mode[s] = "drain" => acked[x] > 0)
  BY <1>2, <1>3 DEF TurnOf, Inside, HandAt, Removed, Owing
<1>5. {r \in Requests : pc'[r] # "new"} = {r \in Requests : pc[r] # "new"}
  BY <1>1, <1>2, TurnIs
<1>6. {r \in Requests : acked[r] > 0}' = {r \in Requests : acked[r] > 0}
  BY <1>2
<1>7. Waiting' = Waiting
  BY <1>1, <1>2, ViewIs DEF LeavingAt
<1>8. Hands(s) = (IF mode[s] = "put" THEN {x} ELSE {}) /\ Hands(s)' = {}
  BY <1>2 DEF Hands, Removed
<1>9. Evicted' = Evicted
  <2>1. CASE mode[s] = "drain"
    BY <1>1, <1>2, <1>8, <2>1, ViewIs
  <2>2. CASE mode[s] = "put"
    <3>1. {r \in Requests : shifted'[r] > 0} = {r \in Requests : shifted[r] > 0} \cup {x}
      BY <1>2, <1>3, <1>4, <2>2
    <3> QED BY <1>1, <1>8, <2>2, <3>1, ViewIs
  <2> QED BY <1>2, <2>1, <2>2
<1>10. Told(x) = "nothing"
  BY <1>4 DEF Told
<1>11. CASE mode[s] = "drain"
  <2>1. [r \in Requests |-> Told(r)]' = [[r \in Requests |-> Told(r)] EXCEPT ![x] = "sent"]
    <3>1. Told(x)' = "sent"
      BY <1>2, <1>3, <1>4, <1>11 DEF Told
    <3> QED BY <1>2, <1>3, <3>1, ToldChanges
  <2>2. Delivery!Tell(x)
    BY <1>3, <1>4, <1>5, <1>6, <1>7, <1>9, <1>10, <1>11, <2>1 DEF Delivery!Tell
  <2> QED BY <1>3, <2>2 DEF Maps, Delivery!Next
<1>12. CASE mode[s] = "put"
  <2>1. [r \in Requests |-> Told(r)]' = [[r \in Requests |-> Told(r)] EXCEPT ![x] = "shifted"]
    <3>1. Told(x)' = "shifted"
      BY <1>2, <1>3, <1>4, <1>12 DEF Told
    <3> QED BY <1>2, <1>3, <3>1, ToldChanges
  <2>2. x \in Evicted
    BY <1>1, <1>8, <1>12, ViewIs
  <2>3. Delivery!Tell(x)
    BY <1>3, <1>5, <1>6, <1>7, <1>9, <1>10, <2>1, <2>2 DEF Delivery!Tell
  <2> QED BY <1>3, <2>3 DEF Maps, Delivery!Next
<1> QED BY <1>2, <1>11, <1>12

(* Every step is a step of RequestDelivery, or shows nothing.                  *)
LEMMA StepMaps == ASSUME MaxInFlight = 1, TurnInv, [Next]_vars PROVE Maps
<1>1. CASE UNCHANGED vars
  <2>1. UNCHANGED <<queue, pc, mode, first, acked, sent, shifted>>
    BY <1>1 DEF vars, shared, locals, calls
  <2>2. UNCHANGED Delivery!dvars
    BY <2>1 DEF Delivery!dvars, Waiting, Leaving, Evicted, Told
  <2> QED BY <2>2 DEF Maps
<1>2. ASSUME NEW s \in Requests, Step(s) PROVE Maps
  BY <1>2, HiddenMaps, BeginMaps, PostMaps, AppendMaps, CutMaps, ResendMaps, NotifyMaps
     DEF Step, Goroutine, Put, Shift, Drain
<1> QED BY <1>1, <1>2 DEF Next, Step

(* When goroutines take turns, the retry policy with its queue, its memory counter *)
(* and its callbacks implements what it promises of requests: the queue is served *)
(* and shed strictly from the front, who is told "sent" was acknowledged, and  *)
(* nobody is told twice (retry_policy.go 21-95, against its comments 16-20 and *)
(* types.go 66-69).                                                            *)
THEOREM TurnsImplementDelivery == ASSUME MaxInFlight = 1 PROVE Spec => ImplementsDelivery
<1>1. Init => TurnInv /\ Delivery!Init
  <2>1. ASSUME Init PROVE Delivery!Init
    <3>1. Waiting = <<>>
      BY <2>1, ReqsAre DEF Init, Waiting, Leaving, Reqs
    <3>2. \A r \in Requests : pc[r] = "new" /\ mode[r] = "none" /\ sent[r] = 0 /\ shifted[r] = 0
      BY <2>1 DEF Init
    <3>4. Evicted = {}
      BY <3>2 DEF Evicted
    <3>5. \A r \in Requests : Told(r) = "nothing"
      BY <3>2 DEF Told
    <3>3. {r \in Requests : pc[r] # "new"} = {} /\ {r \in Requests : acked[r] > 0} = {}
      BY <2>1 DEF Init
    <3> QED BY <3>1, <3>3, <3>4, <3>5 DEF Delivery!Init
  <2> QED BY <2>1, TurnInit
<1>2. TurnInv /\ [Next]_vars => TurnInv' /\ [Delivery!Next]_(Delivery!dvars)
  BY TurnStep, StepMaps DEF Maps
<1> QED BY <1>1, <1>2, PTL DEF Spec, ImplementsDelivery, Delivery!Spec

================================================================================
