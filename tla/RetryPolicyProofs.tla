--------------------------- MODULE RetryPolicyProofs ---------------------------
(* Proofs about RetryPolicy, for any number of goroutines inside ingest.       *)
EXTENDS RetryPolicy, SumProofs

--------------------------------------------------------------------------------
(* What a step of goroutine r does to each variable.                           *)
Step(r) == Begin(r) \/ Goroutine(r)

Putting == {"fit", "evict", "append", "appendWrite"}
Holding == {"resend", "cut", "cutWrite", "shrink", "shrinkWrite", "notify"}

PlaceEffect(r) ==
  /\ pc' = pc \/ \E l \in Labels : pc' = [pc EXCEPT ![r] = l]
  /\ crash' \in {crash, "nil", "empty"}

ModeEffect(r) ==
  \/ mode' = mode
  \/ At(r, "post") /\ mode' = [mode EXCEPT ![r] = "put"]
  \/ At(r, "post") /\ mode' = [mode EXCEPT ![r] = "drain"]

QueueEffect(r) ==
  \/ queue' = queue
  \/ At(r, "appendWrite") /\ queue' = Append(qreg[r], first[r])
  \/ At(r, "cutWrite") /\ queue' = Tail(qreg[r])

QregEffect(r) ==
  \/ qreg' = qreg
  \/ qreg' = [qreg EXCEPT ![r] = queue]
  \/ qreg' = [qreg EXCEPT ![r] = <<>>]

FirstEffect(r) ==
  \/ first' = first
  \/ \E b \in BOOLEAN : first' = [first EXCEPT ![r] = Element(r, b)]
  \/ queue # <<>> /\ first' = [first EXCEPT ![r] = Head(queue)]

MemEffect(r) ==
  /\ mem' = mem \/ mem' = mreg[r] + Size[first[r].req] \/ mem' = mreg[r] - Size[first[r].req]
  /\ mreg' = mreg \/ mreg' = [mreg EXCEPT ![r] = mem] \/ mreg' = [mreg EXCEPT ![r] = 0]

CallEffect(r) ==
  /\ \/ acked' = acked
     \/ At(r, "post") /\ acked' = [acked EXCEPT ![r] = @ + 1]
     \/ At(r, "resend") /\ acked' = [acked EXCEPT ![first[r].req] = @ + 1]
  /\ \/ sent' = sent
     \/ At(r, "post") /\ sent' = [sent EXCEPT ![r] = @ + 1]
     \/ At(r, "notify") /\ sent' = [sent EXCEPT ![first[r].req] = @ + 1]
  /\ \/ shifted' = shifted
     \/ At(r, "notify") /\ shifted' = [shifted EXCEPT ![first[r].req] = @ + 1]

LEMMA StepEffect ==
  ASSUME NEW r \in Requests, Step(r)
  PROVE  /\ PlaceEffect(r) /\ ModeEffect(r) /\ QueueEffect(r) /\ QregEffect(r)
         /\ FirstEffect(r) /\ MemEffect(r) /\ CallEffect(r)
<1> USE DEF Step, Goroutine, Begin, PostOk, PostFails, Put, Shift, Drain, FitsAtOnce, TooLarge,
     MustEvict, FitsAfterEviction, EvictFirst, AppendRead, AppendWrite, GrowRead, GrowWrite, ShiftRead,
     CutRead, CutWrite, ShrinkRead, ShrinkWrite, NotifySent, NotifyShifted, NotifyNil, EmptyQueue,
     DrainEmpty, DrainMore, Peek, ResendOk, ResendFails
<1>1. pc' = pc \/ \E l \in Labels : pc' = [pc EXCEPT ![r] = l]
  BY DEF Goto, Labels
<1>2. crash' \in {crash, "nil", "empty"}
  OBVIOUS
<1>3. ModeEffect(r)
  BY DEF ModeEffect, locals
<1>4. QueueEffect(r)
  BY DEF QueueEffect, shared
<1>5. QregEffect(r)
  BY DEF QregEffect, locals
<1>6. FirstEffect(r)
  BY DEF FirstEffect, locals
<1>7. mem' = mem \/ mem' = mreg[r] + Size[first[r].req] \/ mem' = mreg[r] - Size[first[r].req]
  BY DEF shared
<1>8. mreg' = mreg \/ mreg' = [mreg EXCEPT ![r] = mem] \/ mreg' = [mreg EXCEPT ![r] = 0]
  BY DEF locals
<1>9. \/ acked' = acked
      \/ At(r, "post") /\ acked' = [acked EXCEPT ![r] = @ + 1]
      \/ At(r, "resend") /\ acked' = [acked EXCEPT ![first[r].req] = @ + 1]
  BY DEF calls
<1>10. \/ sent' = sent
       \/ At(r, "post") /\ sent' = [sent EXCEPT ![r] = @ + 1]
       \/ At(r, "notify") /\ sent' = [sent EXCEPT ![first[r].req] = @ + 1]
  BY DEF calls
<1>11. \/ shifted' = shifted
       \/ At(r, "notify") /\ shifted' = [shifted EXCEPT ![first[r].req] = @ + 1]
  BY DEF calls
<1> QED BY <1>1, <1>2, <1>3, <1>4, <1>5, <1>6, <1>7, <1>8, <1>9, <1>10, <1>11
        DEF PlaceEffect, MemEffect, CallEffect

(* It leaves the other goroutines where they are.                              *)
LEMMA OthersStay ==
  ASSUME TypeOK, NEW r \in Requests, Step(r), NEW t \in Requests \ {r}
  PROVE  pc'[t] = pc[t] /\ mode'[t] = mode[t] /\ first'[t] = first[t] /\ qreg'[t] = qreg[t]
<1>1. /\ DOMAIN pc = Requests /\ DOMAIN mode = Requests /\ DOMAIN first = Requests
      /\ DOMAIN qreg = Requests /\ t # r
  BY DEF TypeOK
<1>2. PlaceEffect(r) /\ ModeEffect(r) /\ FirstEffect(r) /\ QregEffect(r)
  BY StepEffect
<1>3. pc'[t] = pc[t]
  BY <1>1, <1>2 DEF PlaceEffect
<1>4. mode'[t] = mode[t]
  BY <1>1, <1>2 DEF ModeEffect
<1>5. first'[t] = first[t]
  BY <1>1, <1>2 DEF FirstEffect
<1>6. qreg'[t] = qreg[t]
  BY <1>1, <1>2 DEF QregEffect
<1> QED BY <1>3, <1>4, <1>5, <1>6

(* Where a step leads, and what the goroutine has in hand there.               *)
Arrives(r) ==
  /\ pc'[r] \in {"new", "post"} => pc[r] \in {"new", "post"} /\ mode' = mode
  /\ pc[r] = "new" => mode' = mode /\ pc'[r] = "post"
  /\ pc[r] = "post" => mode'[r] # "none" /\ (mode'[r] = "drain" => pc'[r] \notin Putting)
  /\ pc'[r] \in Putting => pc[r] = "post" \/ mode[r] = "put" \/ pc[r] \in Putting
  /\ pc'[r] \in {"append", "appendWrite"} =>
       first'[r].req = r \/ (pc[r] = "append" /\ first' = first)
  /\ pc'[r] \in Holding =>
       (pc[r] \in Holding /\ first' = first) \/ (queue # <<>> /\ first'[r] = Head(queue))
  /\ pc'[r] = "cutWrite" =>
       (pc[r] = "cutWrite" /\ qreg' = qreg) \/ (queue # <<>> /\ qreg'[r] = queue)

LEMMA StepArrives ==
  ASSUME TypeOK, NEW r \in Requests, Step(r) PROVE Arrives(r)
<1>1. /\ DOMAIN pc = Requests /\ DOMAIN mode = Requests /\ DOMAIN first = Requests
      /\ DOMAIN qreg = Requests
  BY DEF TypeOK
<1> USE <1>1 DEF Step, Goroutine, Begin, PostOk, PostFails, Put, Shift, Drain, FitsAtOnce, TooLarge,
     MustEvict, FitsAfterEviction, EvictFirst, AppendRead, AppendWrite, GrowRead, GrowWrite, ShiftRead,
     CutRead, CutWrite, ShrinkRead, ShrinkWrite, NotifySent, NotifyShifted, NotifyNil, EmptyQueue,
     DrainEmpty, DrainMore, Peek, ResendOk, ResendFails, Goto, At, locals
<1>2. /\ pc'[r] \in {"new", "post"} => pc[r] \in {"new", "post"} /\ mode' = mode
      /\ pc[r] = "new" => mode' = mode /\ pc'[r] = "post"
  OBVIOUS
<1>3. pc[r] = "post" => mode'[r] # "none" /\ (mode'[r] = "drain" => pc'[r] \notin Putting)
  BY DEF Putting
<1>4. pc'[r] \in Putting => pc[r] = "post" \/ mode[r] = "put" \/ pc[r] \in Putting
  BY DEF Putting
<1>5. pc'[r] \in {"append", "appendWrite"} =>
        first'[r].req = r \/ (pc[r] = "append" /\ first' = first)
  BY DEF Element
<1>6. pc'[r] \in Holding =>
        (pc[r] \in Holding /\ first' = first) \/ (queue # <<>> /\ first'[r] = Head(queue))
  BY DEF Holding
<1>7. pc'[r] = "cutWrite" =>
        (pc[r] = "cutWrite" /\ qreg' = qreg) \/ (queue # <<>> /\ qreg'[r] = queue)
  OBVIOUS
<1> QED BY <1>2, <1>3, <1>4, <1>5, <1>6, <1>7 DEF Arrives

--------------------------------------------------------------------------------
(* Types.  The slice a goroutine is about to cut is not empty.                 *)
CutsSome == \A r \in Requests : pc[r] = "cutWrite" => qreg[r] # <<>>

TypeInv == TypeOK /\ CutsSome

LEMMA TypeInit == ASSUME Init PROVE TypeInv
<1>1. /\ queue \in Seq(Elements) /\ mem \in Int
      /\ qreg \in [Requests -> Seq(Elements)] /\ mreg \in [Requests -> Int]
  BY DEF Init
<1>2. pc \in [Requests -> Labels] /\ mode \in [Requests -> {"none", "put", "drain"}]
  BY DEF Init, Labels
<1>3. first \in [Requests -> Elements]
  BY DEF Init, Element, Elements
<1>4. /\ acked \in [Requests -> Nat] /\ sent \in [Requests -> Nat] /\ shifted \in [Requests -> Nat]
      /\ crash \in {"no", "nil", "empty"} /\ CutsSome
  BY DEF Init, CutsSome
<1> QED BY <1>1, <1>2, <1>3, <1>4, Zenon DEF TypeOK, TypeInv

LEMMA TypeStep == ASSUME TypeInv, NEW r \in Requests, Step(r) PROVE TypeInv'
<1> USE DEF TypeInv
<1>0. Arrives(r)
  BY StepArrives
<1>1. pc' \in [Requests -> Labels] /\ crash' \in {"no", "nil", "empty"}
  BY StepEffect DEF TypeOK, PlaceEffect
<1>2. mode' \in [Requests -> {"none", "put", "drain"}]
  BY StepEffect DEF TypeOK, ModeEffect
<1>3. queue' \in Seq(Elements)
  <2>1. queue \in Seq(Elements) /\ qreg[r] \in Seq(Elements) /\ first[r] \in Elements
    BY DEF TypeOK
  <2>2. pc[r] = "cutWrite" => qreg[r] # <<>>
    BY DEF CutsSome
  <2> HIDE DEF TypeInv
  <2>3. Append(qreg[r], first[r]) \in Seq(Elements)
    BY <2>1
  <2>4. pc[r] = "cutWrite" => Tail(qreg[r]) \in Seq(Elements)
    BY <2>1, <2>2
  <2>5. QueueEffect(r)
    BY StepEffect
  <2> QED BY <2>1, <2>3, <2>4, <2>5 DEF QueueEffect, At
<1>4. qreg' \in [Requests -> Seq(Elements)]
  <2>1. QregEffect(r) /\ queue \in Seq(Elements) /\ <<>> \in Seq(Elements)
    BY StepEffect DEF TypeOK
  <2>2. qreg \in [Requests -> Seq(Elements)]
    BY DEF TypeOK
  <2>3. \A x \in Seq(Elements) : [qreg EXCEPT ![r] = x] \in [Requests -> Seq(Elements)]
    BY <2>2
  <2> HIDE DEF TypeInv
  <2> QED BY <2>1, <2>2, <2>3, Zenon DEF QregEffect
<1>5. first' \in [Requests -> Elements]
  <2>1. queue # <<>> => Head(queue) \in Elements
    BY DEF TypeOK
  <2>2. \A b \in BOOLEAN : Element(r, b) \in Elements
    BY DEF Element, Elements
  <2>3. first \in [Requests -> Elements]
    BY DEF TypeOK
  <2> HIDE DEF TypeInv
  <2>4. FirstEffect(r)
    BY StepEffect
  <2>5. \A x \in Elements : [first EXCEPT ![r] = x] \in [Requests -> Elements]
    BY <2>3
  <2> QED BY <2>1, <2>2, <2>3, <2>4, <2>5, Zenon DEF FirstEffect
<1>6. mem' \in Int /\ mreg' \in [Requests -> Int]
  <2>1. Size[first[r].req] \in Int /\ mreg[r] \in Int /\ mem \in Int
    BY SizeAssumption DEF TypeOK, Elements, SizeAssumption
  <2>2. MemEffect(r) /\ mreg \in [Requests -> Int]
    BY StepEffect DEF TypeOK
  <2> HIDE DEF TypeInv
  <2>3. mem' \in Int
    BY <2>1, <2>2 DEF MemEffect
  <2>4. mreg' \in [Requests -> Int]
    BY <2>1, <2>2 DEF MemEffect
  <2> QED BY <2>3, <2>4
<1>7. acked' \in [Requests -> Nat] /\ sent' \in [Requests -> Nat] /\ shifted' \in [Requests -> Nat]
  <2>1. first[r].req \in Requests /\ CallEffect(r)
    BY StepEffect DEF TypeOK, Elements
  <2>2. \A x \in Requests, f \in [Requests -> Nat] : [f EXCEPT ![x] = @ + 1] \in [Requests -> Nat]
    OBVIOUS
  <2>3. acked \in [Requests -> Nat] /\ sent \in [Requests -> Nat] /\ shifted \in [Requests -> Nat]
    BY DEF TypeOK
  <2> HIDE DEF TypeInv
  <2>4. acked' \in [Requests -> Nat]
    BY <2>1, <2>2, <2>3 DEF CallEffect
  <2>5. sent' \in [Requests -> Nat]
    BY <2>1, <2>2, <2>3 DEF CallEffect
  <2>6. shifted' \in [Requests -> Nat]
    BY <2>1, <2>2, <2>3 DEF CallEffect
  <2> QED BY <2>4, <2>5, <2>6
<1>8. CutsSome'
  <2>1. \A s \in Requests \ {r} : pc'[s] = pc[s] /\ qreg'[s] = qreg[s]
    BY OthersStay
  <2>2. pc'[r] = "cutWrite" => qreg'[r] # <<>>
    BY <1>0 DEF Arrives, CutsSome
  <2> QED BY <2>1, <2>2 DEF CutsSome
<1> QED BY <1>1, <1>2, <1>3, <1>4, <1>5, <1>6, <1>7, <1>8, Zenon DEF TypeOK

(* The variables keep their types whatever the goroutines of any number of     *)
(* requests do to the shared queue (retry_policy.go 21-95).                    *)
THEOREM TypeCorrect == Spec => []TypeOK
<1>1. TypeInv /\ UNCHANGED vars => TypeInv'
  BY DEF TypeInv, TypeOK, CutsSome, vars, shared, locals, calls
<1>2. TypeInv /\ [Next]_vars => TypeInv'
  BY <1>1, TypeStep DEF Next, Step
<1>3. TypeInv => TypeOK
  BY DEF TypeInv
<1> QED BY <1>2, <1>3, TypeInit, PTL DEF Spec

--------------------------------------------------------------------------------
(* Requests in a queue.                                                        *)
In(q, r) == \E k \in DOMAIN q : q[k].req = r

LEMMA NotInAppend ==
  ASSUME NEW q \in Seq(Elements), NEW e \in Elements, NEW r, ~In(q, r), e.req # r
  PROVE  ~In(Append(q, e), r)
BY DEF In

LEMMA NotInHead ==
  ASSUME NEW q \in Seq(Elements), q # <<>>, NEW r, ~In(q, r)
  PROVE  Head(q).req # r
BY DEF In

LEMMA NotInTail ==
  ASSUME NEW q \in Seq(Elements), q # <<>>, NEW r, ~In(q, r)
  PROVE  ~In(Tail(q), r)
<1>1. \A k \in DOMAIN Tail(q) : k + 1 \in DOMAIN q /\ Tail(q)[k] = q[k + 1]
  OBVIOUS
<1> QED BY <1>1 DEF In

(* A request whose first POST has not failed is nowhere in the shared queue,   *)
(* in no copy of it and in nobody's hands: no other goroutine can report it.   *)
Modes ==
  \A s \in Requests :
    /\ mode[s] = "none" <=> pc[s] \in {"new", "post"}
    /\ pc[s] \in Putting => mode[s] = "put"
    /\ pc[s] \in {"append", "appendWrite"} => first[s].req = s

Unseen(r) ==
  /\ ~In(queue, r)
  /\ \A s \in Requests : ~In(qreg[s], r) /\ (pc[s] \in Holding => first[s].req # r)

ToldOnce(r) ==
  /\ mode[r] = "none" => acked[r] = 0 /\ sent[r] = 0 /\ shifted[r] = 0
  /\ mode[r] = "drain" => acked[r] = 1 /\ sent[r] = 1 /\ shifted[r] = 0

DirectInv ==
  TypeInv /\ Modes /\ \A r \in Requests : mode[r] # "put" => Unseen(r) /\ ToldOnce(r)

LEMMA ModesStep ==
  ASSUME TypeInv, Modes, NEW s \in Requests, Step(s) PROVE Modes'
<1>1. Arrives(s) /\ ModeEffect(s)
  BY StepArrives, StepEffect DEF TypeInv
<1>2. \A t \in Requests \ {s} : pc'[t] = pc[t] /\ mode'[t] = mode[t] /\ first'[t] = first[t]
  BY OthersStay DEF TypeInv
<1>3. mode'[s] \in {"none", "put", "drain"} /\ (pc[s] = "post" \/ mode'[s] = mode[s])
  BY <1>1, TypeStep DEF ModeEffect, TypeInv, TypeOK, At
<1>4. mode'[s] = "none" <=> pc'[s] \in {"new", "post"}
  BY <1>1, <1>3 DEF Modes, Arrives
<1>5. pc'[s] \in Putting => mode'[s] = "put"
  BY <1>1, <1>3 DEF Modes, Arrives
<1>6. pc'[s] \in {"append", "appendWrite"} => first'[s].req = s
  BY <1>1 DEF Modes, Arrives
<1> QED BY <1>2, <1>4, <1>5, <1>6 DEF Modes

(* Nothing becomes spared that was not.                                        *)
LEMMA SparedBefore ==
  ASSUME TypeInv, Modes, NEW s \in Requests, Step(s), NEW r \in Requests, mode'[r] # "put"
  PROVE  mode[r] # "put" /\ (mode'[r] = mode[r] \/ (r = s /\ pc[s] = "post"))
<1>1. ModeEffect(s) /\ DOMAIN mode = Requests
  BY StepEffect DEF TypeInv, TypeOK
<1>2. pc[s] = "post" => mode[s] = "none"
  BY DEF Modes
<1> QED BY <1>1, <1>2 DEF ModeEffect, At

LEMMA UnseenStep ==
  ASSUME TypeInv, Modes, NEW s \in Requests, Step(s),
         NEW r \in Requests, mode[r] # "put", Unseen(r)
  PROVE  Unseen(r)'
<1>1. /\ queue \in Seq(Elements) /\ qreg[s] \in Seq(Elements) /\ first[s] \in Elements
      /\ Arrives(s) /\ QueueEffect(s) /\ QregEffect(s) /\ DOMAIN qreg = Requests
  BY StepEffect, StepArrives DEF TypeInv, TypeOK
<1>2. ~In(queue', r)
  <2>1. CASE queue' = queue
    BY <2>1 DEF Unseen
  <2>2. CASE At(s, "appendWrite") /\ queue' = Append(qreg[s], first[s])
    <3>1. first[s].req # r
      BY <2>2 DEF At, Modes, Putting
    <3>2. ~In(qreg[s], r)
      BY DEF Unseen
    <3> QED BY <1>1, <2>2, <3>1, <3>2, NotInAppend
  <2>3. CASE At(s, "cutWrite") /\ queue' = Tail(qreg[s])
    <3>1. ~In(qreg[s], r) /\ qreg[s] # <<>>
      BY <2>3 DEF Unseen, TypeInv, CutsSome, At
    <3> QED BY <1>1, <2>3, <3>1, NotInTail
  <2> QED BY <1>1, <2>1, <2>2, <2>3 DEF QueueEffect
<1>3. \A t \in Requests : ~In(qreg'[t], r)
  <2>1. ~In(<<>>, r) /\ ~In(queue, r) /\ \A t \in Requests : ~In(qreg[t], r)
    BY DEF Unseen, In
  <2>2. \A t \in Requests : qreg'[t] \in {qreg[t], queue, <<>>}
    BY <1>1 DEF QregEffect
  <2> QED BY <2>1, <2>2
<1>4. \A t \in Requests : pc'[t] \in Holding => first'[t].req # r
  <2>1. queue # <<>> => Head(queue).req # r
    BY <1>1, NotInHead DEF Unseen
  <2>2. pc'[s] \in Holding => first'[s].req # r
    BY <1>1, <2>1 DEF Arrives, Unseen
  <2>3. \A t \in Requests \ {s} : pc'[t] = pc[t] /\ first'[t] = first[t]
    BY OthersStay DEF TypeInv
  <2> QED BY <2>2, <2>3 DEF Unseen
<1> QED BY <1>2, <1>3, <1>4 DEF Unseen

(* The first POST of a request is reported as it ends.                         *)
LEMMA FirstPost ==
  ASSUME TypeOK, NEW s \in Requests, Step(s), pc[s] = "post", mode'[s] = "drain"
  PROVE  /\ acked' = [acked EXCEPT ![s] = @ + 1] /\ sent' = [sent EXCEPT ![s] = @ + 1]
         /\ shifted' = shifted
BY DEF Step, Goroutine, Begin, PostOk, PostFails, Put, Shift, Drain, FitsAtOnce, TooLarge,
     MustEvict, FitsAfterEviction, EvictFirst, AppendRead, AppendWrite, GrowRead, GrowWrite, ShiftRead,
     CutRead, CutWrite, ShrinkRead, ShrinkWrite, NotifySent, NotifyShifted, NotifyNil, EmptyQueue,
     DrainEmpty, DrainMore, Peek, ResendOk, ResendFails, At, TypeOK, calls

LEMMA ToldStep ==
  ASSUME TypeInv, Modes, NEW s \in Requests, Step(s),
         NEW r \in Requests, mode'[r] # "put", Unseen(r), ToldOnce(r)
  PROVE  ToldOnce(r)'
<1>1. CASE r = s /\ pc[s] = "post"
  <2>1. mode'[r] = "drain" /\ mode[r] = "none"
    BY <1>1, StepArrives, TypeStep DEF Arrives, Modes, TypeInv, TypeOK
  <2>2. /\ acked' = [acked EXCEPT ![r] = @ + 1] /\ sent' = [sent EXCEPT ![r] = @ + 1]
        /\ shifted' = shifted
    BY <1>1, <2>1, FirstPost DEF TypeInv
  <2> QED BY <2>1, <2>2 DEF ToldOnce, TypeInv, TypeOK
<1>2. CASE ~(r = s /\ pc[s] = "post")
  <2>1. mode'[r] = mode[r]
    BY <1>2, SparedBefore
  <2>2. pc[s] \in {"resend", "notify"} => first[s].req # r
    BY DEF Unseen, Holding
  <2>3. CallEffect(s) /\ DOMAIN acked = Requests /\ DOMAIN sent = Requests /\ DOMAIN shifted = Requests
    BY StepEffect DEF TypeInv, TypeOK
  <2>4. acked'[r] = acked[r]
    BY <1>2, <2>2, <2>3 DEF CallEffect, At
  <2>5. sent'[r] = sent[r]
    BY <1>2, <2>2, <2>3 DEF CallEffect, At
  <2>6. shifted'[r] = shifted[r]
    BY <1>2, <2>2, <2>3 DEF CallEffect, At
  <2> QED BY <2>1, <2>4, <2>5, <2>6 DEF ToldOnce
<1> QED BY <1>1, <1>2

LEMMA DirectInit == ASSUME Init PROVE DirectInv
<1>1. Modes
  BY DEF Init, Modes, Putting
<1>2. ASSUME NEW r \in Requests PROVE Unseen(r) /\ ToldOnce(r)
  BY DEF Init, Unseen, ToldOnce, In, Holding
<1> QED BY <1>1, <1>2, TypeInit DEF DirectInv

LEMMA DirectStep == ASSUME DirectInv, [Next]_vars PROVE DirectInv'
<1>1. CASE UNCHANGED vars
  BY <1>1 DEF DirectInv, TypeInv, TypeOK, CutsSome, Modes, Unseen, ToldOnce,
              vars, shared, locals, calls
<1>2. ASSUME NEW s \in Requests, Step(s) PROVE DirectInv'
  <2>1. TypeInv' /\ Modes'
    BY <1>2, TypeStep, ModesStep DEF DirectInv
  <2>2. ASSUME NEW r \in Requests, mode'[r] # "put" PROVE Unseen(r)' /\ ToldOnce(r)'
    BY <1>2, <2>2, SparedBefore, UnseenStep, ToldStep DEF DirectInv
  <2> QED BY <2>1, <2>2 DEF DirectInv
<1> QED BY <1>1, <1>2 DEF Next, Step

(* A request acknowledged at its first POST is reported once, as sent, and     *)
(* never enters the queue, however many goroutines read and write the queue    *)
(* and its size without a lock (retry_policy.go 21-95).                        *)
THEOREM DirectIsReportedOnce == Spec => []DirectIsToldOnce
<1>1. DirectInv => DirectIsToldOnce
  BY DEF DirectInv, DirectIsToldOnce, Unseen, ToldOnce, In, InQueue
<1> QED BY <1>1, DirectInit, DirectStep, PTL DEF Spec

--------------------------------------------------------------------------------
(* Successes.                                                                  *)
(* A goroutine whose resend was answered OK owes its element a callback.       *)
Owing == {"shift", "cut", "cutWrite", "shrink", "shrinkWrite", "notify"}

Confirmed == {r \in Requests : mode[r] = "drain" /\ pc[r] \in Owing}

(* releaseWait is called after a POST that was answered OK.                    *)
Draining == \A r \in Requests : pc[r] \in {"check", "peek", "resend"} => mode[r] = "drain"

(* Every success is reported, or owed.                                         *)
SuccessInv ==
  /\ TypeInv /\ Modes /\ Draining
  /\ SumFunction(acked) = SumFunction(sent) + Cardinality(Confirmed)

(* Only a goroutine that drains is at the drain loop.                          *)
LEMMA DrainingStep ==
  ASSUME TypeInv, Modes, Draining, NEW s \in Requests, Step(s) PROVE Draining'
<1>1. \A t \in Requests \ {s} : pc'[t] = pc[t] /\ mode'[t] = mode[t]
  BY OthersStay DEF TypeInv
<1>2. pc'[s] \in {"check", "peek", "resend"} => mode'[s] = "drain"
  BY DEF TypeInv, TypeOK, Draining, Step, Goroutine, Begin, PostOk, PostFails, Put, Shift, Drain,
     FitsAtOnce, TooLarge, MustEvict, FitsAfterEviction, EvictFirst, AppendRead,
     AppendWrite, GrowRead, GrowWrite, ShiftRead, CutRead, CutWrite, ShrinkRead, ShrinkWrite,
     NotifySent, NotifyShifted, NotifyNil, EmptyQueue, DrainEmpty, DrainMore, Peek, ResendOk,
     ResendFails, Goto, At, locals
<1> QED BY <1>1, <1>2 DEF Draining

(* How many successes a step adds to either side.                              *)
Adds(f, g) == \E x \in Requests : g = [f EXCEPT ![x] = @ + 1]

(* A success enters acked and sent at once at the first POST; for a resend it  *)
(* waits in Confirmed in between.                                              *)
LEMMA SuccessMoves ==
  ASSUME TypeInv, Modes, Draining, NEW s \in Requests, Step(s)
  PROVE  \/ acked' = acked /\ sent' = sent /\ Confirmed' = Confirmed
         \/ Adds(acked, acked') /\ Adds(sent, sent') /\ Confirmed' = Confirmed
         \/ Adds(acked, acked') /\ sent' = sent /\ s \notin Confirmed /\ Confirmed' = Confirmed \cup {s}
         \/ acked' = acked /\ Adds(sent, sent') /\ s \in Confirmed /\ Confirmed' = Confirmed \ {s}
<1>1. \A t \in Requests \ {s} : pc'[t] = pc[t] /\ mode'[t] = mode[t]
  BY OthersStay DEF TypeInv
<1> DEFINE in    == mode[s] = "drain" /\ pc[s] \in Owing
           after == mode'[s] = "drain" /\ pc'[s] \in Owing
<1>2. /\ (in <=> after) => Confirmed' = Confirmed
      /\ ~in /\ after => s \notin Confirmed /\ Confirmed' = Confirmed \cup {s}
      /\ in /\ ~after => s \in Confirmed /\ Confirmed' = Confirmed \ {s}
  BY <1>1 DEF Confirmed
<1>3. /\ DOMAIN pc = Requests /\ DOMAIN mode = Requests /\ first[s].req \in Requests
      /\ (pc[s] \in Putting => mode[s] = "put")
      /\ (pc[s] \in {"check", "peek", "resend"} => mode[s] = "drain")
  BY DEF TypeInv, TypeOK, Modes, Elements, Draining
<1>4. CASE PostOk(s)
  BY <1>2, <1>3, <1>4 DEF PostOk, At, Goto, Owing, Adds
<1>5. CASE ResendOk(s)
  BY <1>2, <1>3, <1>5 DEF ResendOk, At, Goto, Owing, Adds, locals
<1>6. CASE NotifySent(s)
  BY <1>2, <1>3, <1>6 DEF NotifySent, At, Goto, Owing, Adds, locals
<1>7. CASE PostFails(s)
  BY <1>2, <1>3, <1>7 DEF PostFails, At, Goto, Owing, calls
<1>8. CASE Begin(s) \/ Put(s) \/ DrainEmpty(s) \/ DrainMore(s) \/ Peek(s) \/ ResendFails(s)
  <2>1. acked' = acked /\ sent' = sent /\ mode' = mode
    BY <1>8 DEF Begin, Put, FitsAtOnce, TooLarge, MustEvict, FitsAfterEviction, EvictFirst,
         AppendRead, AppendWrite, GrowRead, GrowWrite, DrainEmpty, DrainMore, Peek, ResendFails,
         calls, locals
  <2>2. (mode[s] = "put" \/ pc[s] \notin Owing) /\ (mode[s] = "put" \/ pc'[s] \notin Owing)
    BY <1>3, <1>8 DEF Begin, Put, FitsAtOnce, TooLarge, MustEvict, FitsAfterEviction, EvictFirst,
         AppendRead, AppendWrite, GrowRead, GrowWrite, DrainEmpty, DrainMore, Peek, ResendFails,
         Putting, At, Goto, Owing
  <2> QED BY <1>2, <2>1, <2>2
<1>9. CASE \/ ShiftRead(s) \/ CutRead(s) \/ CutWrite(s) \/ ShrinkRead(s) \/ ShrinkWrite(s)
           \/ NotifyNil(s) \/ EmptyQueue(s) \/ NotifyShifted(s)
  <2>1. acked' = acked /\ sent' = sent /\ mode' = mode
    BY <1>9 DEF ShiftRead, CutRead, CutWrite, ShrinkRead, ShrinkWrite, NotifyNil, EmptyQueue,
                NotifyShifted, calls, locals
  <2>2. mode[s] = "put" \/ (pc[s] \in Owing <=> pc'[s] \in Owing)
    BY <1>3, <1>9 DEF ShiftRead, CutRead, CutWrite, ShrinkRead, ShrinkWrite, NotifyNil, EmptyQueue,
                NotifyShifted, At, Goto, Owing
  <2> QED BY <1>2, <2>1, <2>2
<1> QED BY <1>4, <1>5, <1>6, <1>7, <1>8, <1>9 DEF Step, Goroutine, Shift, Drain

LEMMA TotalAdds ==
  ASSUME NEW f \in [Requests -> Nat], NEW g, Adds(f, g)
  PROVE  SumFunction(g) = SumFunction(f) + 1
BY RequestsAssumption, SumGrows DEF Adds, RequestsAssumption

LEMMA TotalType == ASSUME NEW f \in [Requests -> Nat] PROVE SumFunction(f) \in Nat
<1>1. DOMAIN f = Requests /\ \A r \in Requests : f[r] \in Nat
  OBVIOUS
<1> QED BY <1>1, RequestsAssumption, SumOnSetType DEF RequestsAssumption, SumFunction

LEMMA SuccessStep == ASSUME SuccessInv, NEW s \in Requests, Step(s) PROVE SuccessInv'
<1>1. TypeInv' /\ Modes' /\ Draining'
  BY TypeStep, ModesStep, DrainingStep DEF SuccessInv
<1>2. acked \in [Requests -> Nat] /\ sent \in [Requests -> Nat]
  BY DEF SuccessInv, TypeInv, TypeOK
<1>3. IsFiniteSet(Confirmed)
  BY RequestsAssumption, FS_Subset DEF RequestsAssumption, Confirmed
<1>4. Cardinality(Confirmed) \in Nat
  BY <1>3, FS_CardinalityType
<1>5. /\ s \notin Confirmed => Cardinality(Confirmed \cup {s}) = Cardinality(Confirmed) + 1
      /\ s \in Confirmed => Cardinality(Confirmed \ {s}) = Cardinality(Confirmed) - 1
  BY <1>3, FS_AddElement, FS_RemoveElement
<1>6. /\ Adds(acked, acked') => SumFunction(acked') = SumFunction(acked) + 1
      /\ Adds(sent, sent') => SumFunction(sent') = SumFunction(sent) + 1
  BY <1>2, TotalAdds
<1>7. SumFunction(acked) \in Nat /\ SumFunction(sent) \in Nat
  BY <1>2, RequestsAssumption, TotalType DEF RequestsAssumption
<1>8. SumFunction(acked') = SumFunction(sent') + Cardinality(Confirmed')
  <2>1. SumFunction(acked) = SumFunction(sent) + Cardinality(Confirmed)
    BY DEF SuccessInv
  <2>2. \/ acked' = acked /\ sent' = sent /\ Confirmed' = Confirmed
        \/ Adds(acked, acked') /\ Adds(sent, sent') /\ Confirmed' = Confirmed
        \/ Adds(acked, acked') /\ sent' = sent /\ s \notin Confirmed /\ Confirmed' = Confirmed \cup {s}
        \/ acked' = acked /\ Adds(sent, sent') /\ s \in Confirmed /\ Confirmed' = Confirmed \ {s}
    BY SuccessMoves DEF SuccessInv
  <2>3. CASE acked' = acked /\ sent' = sent /\ Confirmed' = Confirmed
    BY <2>1, <2>3
  <2>4. CASE Adds(acked, acked') /\ Adds(sent, sent') /\ Confirmed' = Confirmed
    BY <1>4, <1>6, <1>7, <2>1, <2>4
  <2>5. CASE /\ Adds(acked, acked') /\ sent' = sent
             /\ s \notin Confirmed /\ Confirmed' = Confirmed \cup {s}
    BY <1>4, <1>5, <1>6, <1>7, <2>1, <2>5
  <2>6. CASE /\ acked' = acked /\ Adds(sent, sent')
             /\ s \in Confirmed /\ Confirmed' = Confirmed \ {s}
    BY <1>4, <1>5, <1>6, <1>7, <2>1, <2>6
  <2> QED BY <2>2, <2>3, <2>4, <2>5, <2>6
<1> QED BY <1>1, <1>8 DEF SuccessInv

LEMMA SuccessInit == ASSUME Init PROVE SuccessInv
<1>1. TypeInv /\ Modes
  BY DirectInit DEF DirectInv
<1>2. Draining /\ Confirmed = {} /\ acked = sent
  BY DEF Init, Draining, Confirmed, Owing
<1>3. SumFunction(sent) \in Nat
  BY <1>1, RequestsAssumption, TotalType DEF RequestsAssumption, TypeInv, TypeOK
<1> QED BY <1>1, <1>2, <1>3, FS_EmptySet DEF SuccessInv

(* Whatever the goroutines do to the shared queue, no more callbacks report    *)
(* success than POSTs were answered OK: every callback(nil) is owed to a POST  *)
(* of its own (retry_policy.go 28 and 76-95).                                  *)
THEOREM SuccessesAreOwed == Spec => []SuccessesAreAcknowledged
<1>1. SuccessInv => SuccessesAreAcknowledged
  <2>1. SuccessInv => IsFiniteSet(Confirmed)
    BY RequestsAssumption, FS_Subset DEF RequestsAssumption, Confirmed
  <2>2. SuccessInv => Cardinality(Confirmed) \in Nat
    BY <2>1, FS_CardinalityType
  <2>3. SuccessInv => SumFunction(acked) \in Nat /\ SumFunction(sent) \in Nat
    BY RequestsAssumption, TotalType DEF RequestsAssumption, SuccessInv, TypeInv, TypeOK
  <2> QED BY <2>2, <2>3 DEF SuccessInv, SuccessesAreAcknowledged
<1>2. SuccessInv /\ UNCHANGED vars => SuccessInv'
  BY DEF SuccessInv, TypeInv, TypeOK, CutsSome, Modes, Draining, Confirmed, vars, shared, locals, calls
<1>3. SuccessInv /\ [Next]_vars => SuccessInv'
  BY <1>2, SuccessStep DEF Next, Step
<1> QED BY <1>1, <1>3, SuccessInit, PTL DEF Spec

================================================================================
