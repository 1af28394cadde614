----------------------------- MODULE FlaggerProofs -----------------------------
(* Proofs about Flagger for every set of goroutines and entities, every number *)
(* of attempts, initialisations and pushed configurations.                     *)
EXTENDS Flagger, TLAPS

--------------------------------------------------------------------------------
(* Type correctness.                                                           *)

(* An initialisation makes at least one attempt to fetch.                      *)
LEMMA AttemptsPositive == Attempts \in Nat /\ Attempts > 0
  BY NumbersAssumption DEF NumbersAssumption, Attempts

(* The call of a caller that is idle.                                          *)
LEMMA NoCallType == NoCall \in Calls
  BY AttemptsPositive, NumbersAssumption DEF NumbersAssumption, NoCall, Calls, Ingesters

(* A caller on its way through Init has the number of an initialisation.       *)
Numbered ==
  \A c \in Callers :
    \/ pc[c] \in {"tearDown", "stop"} /\ call[c].op # "shutdown"
    \/ pc[c] \in {"initLock", "fetch", "activate"}
    => call[c].number \in Inits

(* The initial state is well typed.                                            *)
LEMMA TypeInit == ASSUME Init PROVE TypeOK
<1>1. LockTypes /\ FieldTypes /\ CoreTypes
  BY DEF Init, LockTypes, FieldTypes, CoreTypes
<1>2. RecorderTypes /\ OtherTypes
  <2>1. url \in Ingesters /\ begun \in 0..MaxInits
    BY NumbersAssumption DEF Init, Ingesters, NumbersAssumption
  <2>2. isActive \in BOOLEAN /\ leaked \in BOOLEAN /\ overlapped \in BOOLEAN /\ late \in BOOLEAN
    BY DEF Init
  <2> QED BY <2>1, <2>2, Zenon DEF Init, RecorderTypes, OtherTypes
<1>3. ClientTypes
  BY NumbersAssumption DEF Init, ClientTypes, NumbersAssumption
<1>4. CallTypes
  <2>1. call \in [Callers -> Calls]
    BY NoCallType, Zenon DEF Init
  <2>2. pc \in [Callers -> Places]
    BY DEF Init, Places
  <2> QED BY <2>1, <2>2 DEF CallTypes
<1> QED BY <1>1, <1>2, <1>3, <1>4 DEF TypeOK

(* Variables that a step leaves alone keep their types.                        *)
LEMMA MuxKept == ASSUME LockTypes, UNCHANGED mux PROVE LockTypes'
  BY DEF LockTypes, mux
LEMMA FieldsKept == ASSUME FieldTypes, UNCHANGED fields PROVE FieldTypes'
  BY DEF FieldTypes, fields
LEMMA CoreKept == ASSUME CoreTypes, UNCHANGED core PROVE CoreTypes'
  BY DEF CoreTypes, core
LEMMA RecorderKept == ASSUME RecorderTypes, UNCHANGED recorder PROVE RecorderTypes'
  BY DEF RecorderTypes, recorder
LEMMA ClientsKept == ASSUME ClientTypes, UNCHANGED clients PROVE ClientTypes'
  BY DEF ClientTypes, clients
LEMMA CallsKept == ASSUME CallTypes, UNCHANGED calls PROVE CallTypes'
  BY DEF CallTypes, calls

(* A caller that moves on, or returns, keeps the types of pc and call.         *)
LEMMA GotoType == ASSUME CallTypes, NEW c \in Callers, NEW l \in Places, Goto(c, l)
                  PROVE  CallTypes'
  BY DEF CallTypes, Goto
LEMMA AnswerType == ASSUME CallTypes, NEW c \in Callers, NEW l \in Places, Answer(c, l)
                    PROVE  CallTypes'
  BY NoCallType, Zenon DEF CallTypes, Answer
LEMMA ReturnType == ASSUME CallTypes, NEW c \in Callers, Return(c) PROVE CallTypes'
<1>1. "idle" \in Places
  BY DEF Places
<1> QED BY <1>1, AnswerType DEF Return
LEMMA BeginType ==
  ASSUME CallTypes, NEW c \in Callers, NEW first \in Places, NEW with \in Calls,
         Begin(c, first, with)
  PROVE  CallTypes'
  BY DEF CallTypes, Begin
LEMMA FailInitType == ASSUME CallTypes, NEW c \in Callers, FailInit(c) PROVE CallTypes'
<1>1. "notInitialized" \in Places
  BY DEF Places, Outcomes
<1> QED BY <1>1, AnswerType, ReturnType DEF FailInit
LEMMA FinishType == ASSUME CallTypes, NEW c \in Callers, NEW l \in Places, Finish(c, l)
                    PROVE  CallTypes'
  BY AnswerType DEF Finish

(* The calls.                                                                  *)
LEMMA CallTypesStep ==
  ASSUME TypeOK,
         NEW c \in Callers,
         \/ CallShutdown(c) \/ CallInit(c)
         \/ \E who \in Entities \cup {Nil} : CallSetEntity(c, who)
         \/ \E o \in Uses, who \in Entities \cup {Nil} : CallUse(c, o, who)
  PROVE  TypeOK'
<1>1. Control \subseteq Places /\ "checkInitialized" \in Places
  BY DEF Places
<1>2. CASE CallShutdown(c)
  <2>1. [NoCall EXCEPT !.op = "shutdown"] \in Calls
    BY NoCallType DEF Calls, NoCall
  <2>2. "tearDown" \in Places
    BY <1>1 DEF Control
  <2>3. CallTypes'
    BY <1>2, <2>1, <2>2, BeginType DEF CallShutdown, TypeOK
  <2>4. OtherTypes'
    BY <1>2, Zenon DEF CallShutdown, BeginControl, OtherTypes, TypeOK
  <2> QED BY <1>2, <2>3, <2>4, MuxKept, FieldsKept, CoreKept, RecorderKept, ClientsKept
          DEF CallShutdown, TypeOK
<1>3. CASE CallInit(c)
  <2>1. begun' \in 0..MaxInits
    BY <1>3, NumbersAssumption DEF CallInit, BeginInit, TypeOK, OtherTypes, NumbersAssumption
  <2>2. [NoCall EXCEPT !.op = "init", !.number = begun'] \in Calls
    BY <2>1, NoCallType DEF Calls, NoCall, Ingesters
  <2>3. "tearDown" \in Places
    BY <1>1 DEF Control
  <2>4. CallTypes'
    BY <1>3, <2>2, <2>3, BeginType DEF CallInit, TypeOK
  <2>5. OtherTypes'
    BY <1>3, <2>1, Zenon DEF CallInit, BeginInit, BeginControl, OtherTypes, TypeOK
  <2> QED BY <1>3, <2>4, <2>5, MuxKept, FieldsKept, CoreKept, RecorderKept, ClientsKept
          DEF CallInit, TypeOK
<1>4. ASSUME NEW who \in Entities \cup {Nil}, CallSetEntity(c, who) PROVE TypeOK'
  <2>1. [NoCall EXCEPT !.op = "setEntity", !.arg = who] \in Calls
    BY NoCallType DEF Calls, NoCall
  <2>2. "setEntity" \in Places
    BY <1>1 DEF Control
  <2>3. CallTypes'
    BY <1>4, <2>1, <2>2, BeginType DEF CallSetEntity, TypeOK
  <2>4. OtherTypes'
    BY <1>4, Zenon DEF CallSetEntity, BeginControl, OtherTypes, TypeOK
  <2> QED BY <1>4, <2>3, <2>4, MuxKept, FieldsKept, CoreKept, RecorderKept, ClientsKept
          DEF CallSetEntity, TypeOK
<1>5. ASSUME NEW o \in Uses, NEW who \in Entities \cup {Nil}, CallUse(c, o, who) PROVE TypeOK'
  <2>1. [NoCall EXCEPT !.op = o, !.arg = who] \in Calls
    BY NoCallType DEF Calls, NoCall
  <2>2. CallTypes'
    BY <1>1, <1>5, <2>1, BeginType DEF CallUse, TypeOK
  <2>3. OtherTypes'
    BY <1>5 DEF CallUse, history, OtherTypes, TypeOK
  <2> QED BY <1>5, <2>2, <2>3, MuxKept, FieldsKept, CoreKept, RecorderKept, ClientsKept
          DEF CallUse, TypeOK
<1> QED BY <1>2, <1>3, <1>4, <1>5

(* Shutdown, Init and SetEntity.                                               *)
LEMMA ControlTypesStep ==
  ASSUME TypeOK, Numbered,
         NEW c \in Callers,
         Shutdown(c) \/ InitLock(c) \/ Fetch(c) \/ Connect(c) \/ SetEntity(c)
  PROVE  TypeOK'
<1>1. /\ {"stop", "initLock", "fetch", "activate", "use"} \subseteq Places
      /\ call[c].number \in Ingesters /\ call[c].arg \in Entities \cup {Nil}
      /\ call[c] \in Calls
  BY DEF Places, Control, TypeOK, CallTypes, Calls
<1>2. CASE TearDown(c)
  <2>1. LockTypes' /\ CoreTypes'
    BY <1>2 DEF TearDown, LockTypes, CoreTypes, TypeOK
  <2>2. FieldTypes'
    BY <1>2 DEF TearDown, FieldTypes, TypeOK
  <2>3. ClientTypes'
    BY <1>2 DEF TearDown, ClientTypes, FieldTypes, TypeOK
  <2>4. CallTypes'
    BY <1>1, <1>2, GotoType DEF TearDown, TypeOK
  <2>5. OtherTypes'
    BY <1>2, Zenon DEF TearDown, OtherTypes, TypeOK
  <2> QED BY <1>2, <2>1, <2>2, <2>3, <2>4, <2>5, RecorderKept DEF TearDown, TypeOK
<1>3. CASE StopIngester(c)
  <2>1. LockTypes'
    BY <1>3 DEF StopIngester, LockTypes, TypeOK
  <2>2. RecorderTypes'
    BY <1>3, Zenon DEF StopIngester, RecorderTypes, TypeOK
  <2>3. CallTypes'
    BY <1>1, <1>3, GotoType, ReturnType DEF StopIngester, TypeOK
  <2>4. OtherTypes'
    BY <1>3 DEF StopIngester, OtherTypes, TypeOK, history
  <2> QED BY <1>3, <2>1, <2>2, <2>3, <2>4, FieldsKept, CoreKept, ClientsKept DEF StopIngester, TypeOK
<1>4. CASE InitLock(c)
  <2>1. LockTypes'
    BY <1>4 DEF InitLock, LockTypes, TypeOK
  <2>2. FieldTypes'
    BY <1>1, <1>4, Zenon DEF InitLock, FieldTypes, TypeOK
  <2>3. RecorderTypes'
    <3>1. 0 \in Ingesters
      BY NumbersAssumption DEF Ingesters, NumbersAssumption
    <3> QED BY <1>4, <3>1, Zenon DEF InitLock, RecorderTypes, TypeOK
  <2>4. CallTypes'
    BY <1>1, <1>4, GotoType DEF InitLock, TypeOK
  <2>5. OtherTypes'
    BY <1>4 DEF InitLock, OtherTypes, TypeOK, history
  <2> QED BY <1>4, <2>1, <2>2, <2>3, <2>4, <2>5, CoreKept, ClientsKept DEF InitLock, TypeOK
<1>5. CASE FetchFails(c)
  <2>1. LockTypes'
    BY <1>5 DEF FetchFails, LockTypes, TypeOK
  <2>2. CallTypes'
    <3>1. CASE call[c].attempt + 1 < Attempts
      <4>1. call[c].attempt + 1 \in 0..(Attempts - 1)
        BY <1>1, <3>1, AttemptsPositive DEF Calls
      <4>2. [call[c] EXCEPT !.attempt = @ + 1] \in Calls
        BY <1>1, <4>1 DEF Calls
      <4> QED BY <1>5, <3>1, <4>2 DEF FetchFails, CallTypes, TypeOK
    <3>2. CASE ~(call[c].attempt + 1 < Attempts)
      BY <1>5, <3>2, FailInitType DEF FetchFails, TypeOK
    <3> QED BY <3>1, <3>2
  <2>3. OtherTypes'
    BY <1>5 DEF FetchFails, OtherTypes, TypeOK, history
  <2> QED BY <1>5, <2>1, <2>2, <2>3, FieldsKept, CoreKept, RecorderKept, ClientsKept
          DEF FetchFails, TypeOK
<1>6. CASE FetchSucceeds(c)
  <2>1. FieldTypes'
    BY <1>6, Zenon DEF FetchSucceeds, FieldTypes, TypeOK
  <2>2. CoreTypes'
    <3>1. 0 \in 0..MaxPushes
      BY NumbersAssumption DEF NumbersAssumption
    <3>2. [init |-> call[c].number, number |-> 0] \in Configurations
      BY <1>6, <3>1 DEF FetchSucceeds, Numbered, Configurations
    <3> QED BY <1>6, <3>2, Zenon DEF FetchSucceeds, CoreTypes, TypeOK
  <2>3. CallTypes'
    BY <1>1, <1>6, GotoType DEF FetchSucceeds, TypeOK
  <2>4. OtherTypes'
    BY <1>6 DEF FetchSucceeds, OtherTypes, TypeOK, history
  <2> QED BY <1>6, <2>1, <2>2, <2>3, <2>4, MuxKept, RecorderKept, ClientsKept
          DEF FetchSucceeds, TypeOK
<1>7. CASE FetchNull(c)
  <2>1. FieldTypes'
    BY <1>7, Zenon DEF FetchNull, FieldTypes, TypeOK
  <2>2. OtherTypes'
    BY <1>7, Zenon DEF FetchNull, OtherTypes, TypeOK, history
  <2> QED BY <1>7, <2>1, <2>2, MuxKept, CoreKept, RecorderKept, ClientsKept, CallsKept
          DEF FetchNull, TypeOK
<1>8. CASE Connect(c)
  <2>1. call[c].number \in Inits /\ 0 \in 0..MaxPushes
    BY <1>8, NumbersAssumption DEF Connect, Numbered, NumbersAssumption
  <2>2. LockTypes'
    BY <1>8 DEF Connect, LockTypes, TypeOK
  <2>3. FieldTypes'
    BY <1>8, <2>1, Zenon DEF Connect, FieldTypes, TypeOK
  <2>4. RecorderTypes'
    <3>1. [init |-> call[c].number, number |-> 0] \in Configurations
      BY <2>1 DEF Configurations
    <3> QED BY <1>1, <1>8, <3>1, Zenon DEF Connect, Activate, RecorderTypes, TypeOK
  <2>5. ClientTypes'
    BY <1>8, <2>1 DEF Connect, ClientTypes, TypeOK
  <2>6. CallTypes'
    BY <1>1, <1>8, GotoType, ReturnType DEF Connect, TypeOK
  <2>7. OtherTypes'
    BY <1>8 DEF Connect, OtherTypes, TypeOK, history
  <2> QED BY <1>8, <2>2, <2>3, <2>4, <2>5, <2>6, <2>7, CoreKept DEF Connect, TypeOK
<1>9. CASE SetEntity(c)
  <2>1. FieldTypes'
    <3>1. 0 \in Ingesters
      BY NumbersAssumption DEF Ingesters, NumbersAssumption
    <3> QED BY <1>9, <3>1, Zenon DEF SetEntity, FieldTypes, TypeOK
  <2>2. CoreTypes' /\ RecorderTypes'
    BY <1>1, <1>9, Zenon DEF SetEntity, CoreTypes, RecorderTypes, TypeOK
  <2>3. CallTypes'
    BY <1>9, ReturnType DEF SetEntity, TypeOK
  <2>4. OtherTypes'
    BY <1>9 DEF SetEntity, OtherTypes, TypeOK, history
  <2> QED BY <1>9, <2>1, <2>2, <2>3, <2>4, MuxKept, ClientsKept DEF SetEntity, TypeOK
<1> QED BY <1>2, <1>3, <1>4, <1>5, <1>6, <1>7, <1>8, <1>9, Zenon DEF Shutdown, Fetch

(* checkFlaggerInitialized, silentInit and the uses.                           *)
LEMMA UseTypesStep ==
  ASSUME TypeOK,
         NEW c \in Callers,
         Check(c) \/ Silent(c) \/ Use(c)
  PROVE  TypeOK'
<1>1. /\ {"use", "silentInit", "notInitialized", "entity", "evaluateFlag", "record", "tearDown"}
            \cup Outcomes \subseteq Places
      /\ call[c].arg \in Entities \cup {Nil} /\ call[c] \in Calls
  BY DEF Places, Control, Outcomes, TypeOK, CallTypes, Calls
<1>2. CASE CheckEnabled(c)
  <2>1. LockTypes'
    BY <1>2 DEF CheckEnabled, LockTypes, TypeOK
  <2>2. CallTypes'
    BY <1>1, <1>2, GotoType DEF CheckEnabled, TypeOK
  <2>3. OtherTypes'
    BY <1>2 DEF CheckEnabled, OtherTypes, TypeOK, history
  <2> QED BY <1>2, <2>1, <2>2, <2>3, FieldsKept, CoreKept, RecorderKept, ClientsKept
          DEF CheckEnabled, TypeOK
<1>3. CASE CheckDisabled(c)
  <2>1. CallTypes'
    BY <1>1, <1>3, GotoType DEF CheckDisabled, TypeOK
  <2>2. OtherTypes'
    BY <1>3 DEF CheckDisabled, OtherTypes, TypeOK, history
  <2> QED BY <1>3, <2>1, <2>2, MuxKept, FieldsKept, CoreKept, RecorderKept, ClientsKept
          DEF CheckDisabled, TypeOK
<1>4. CASE SilentInit(c)
  <2>1. begun' \in 0..MaxInits
    BY <1>4, NumbersAssumption DEF SilentInit, BeginInit, TypeOK, OtherTypes, NumbersAssumption
  <2>2. [call[c] EXCEPT !.number = begun'] \in Calls
    BY <1>1, <2>1 DEF Calls, Ingesters
  <2>3. CallTypes'
    BY <1>1, <1>4, <2>2 DEF SilentInit, CallTypes, TypeOK
  <2>4. OtherTypes'
    BY <1>4, <2>1, Zenon DEF SilentInit, BeginInit, BeginControl, OtherTypes, TypeOK
  <2> QED BY <1>4, <2>3, <2>4, MuxKept, FieldsKept, CoreKept, RecorderKept, ClientsKept
          DEF SilentInit, TypeOK
<1>5. CASE SilentInitRejected(c)
  <2>1. CallTypes'
    BY <1>1, <1>5, AnswerType DEF SilentInitRejected, TypeOK
  <2>2. OtherTypes'
    BY <1>5 DEF SilentInitRejected, OtherTypes, TypeOK, history
  <2> QED BY <1>5, <2>1, <2>2, MuxKept, FieldsKept, CoreKept, RecorderKept, ClientsKept
          DEF SilentInitRejected, TypeOK
<1>6. CASE Evaluate(c)
  <2>1. readers' \subseteq readers
    BY <1>6 DEF Evaluate, Finish
  <2>2. LockTypes'
    BY <1>6, <2>1 DEF Evaluate, LockTypes, TypeOK
  <2>3. "notRecorded" \in Outcomes /\ "notInitialized" \in Outcomes
    BY DEF Outcomes
  <2>4. CallTypes'
    BY <1>1, <1>6, <2>3, GotoType, FinishType DEF Evaluate, TypeOK
  <2>5. OtherTypes'
    BY <1>6 DEF Evaluate, OtherTypes, TypeOK, history
  <2> QED BY <1>6, <2>2, <2>4, <2>5, FieldsKept, CoreKept, RecorderKept, ClientsKept
          DEF Evaluate, TypeOK
<1>7. CASE DefaultEntity(c)
  <2>1. readers' \subseteq readers
    BY <1>7 DEF DefaultEntity, Finish
  <2>2. LockTypes'
    BY <1>7, <2>1 DEF DefaultEntity, LockTypes, TypeOK
  <2>3. "notRecorded" \in Places
    BY <1>1 DEF Outcomes
  <2>4. CallTypes'
    <3> DEFINE who == IF call[c].arg = Nil THEN entity ELSE call[c].arg
    <3>1. CASE Finish(c, "notRecorded")
      BY <2>3, <3>1, FinishType DEF TypeOK
    <3>2. CASE /\ call' = [call EXCEPT ![c].arg = who]
               /\ \E next \in {"evaluateFlag", "record"} : pc' = [pc EXCEPT ![c] = next]
      <4>1. who \in Entities \cup {Nil}
        BY <1>1 DEF TypeOK, CoreTypes
      <4>2. [call[c] EXCEPT !.arg = who] \in Calls
        BY <1>1, <4>1 DEF Calls
      <4> HIDE DEF who
      <4> QED BY <1>1, <3>2, <4>2 DEF CallTypes, TypeOK
    <3> QED BY <1>7, <3>1, <3>2, Zenon DEF DefaultEntity
  <2>5. OtherTypes'
    BY <1>7 DEF DefaultEntity, OtherTypes, TypeOK, history
  <2> QED BY <1>7, <2>2, <2>4, <2>5, FieldsKept, CoreKept, RecorderKept, ClientsKept
          DEF DefaultEntity, TypeOK
<1>8. CASE EvaluateFlag(c)
  <2>1. CallTypes'
    BY <1>1, <1>8, GotoType, CallsKept DEF EvaluateFlag, TypeOK
  <2>2. OtherTypes'
    BY <1>8, Zenon DEF EvaluateFlag, OtherTypes, TypeOK, history
  <2> QED BY <1>8, <2>1, <2>2, MuxKept, FieldsKept, CoreKept, RecorderKept, ClientsKept
          DEF EvaluateFlag, TypeOK
<1>9. CASE Record(c)
  <2>1. LockTypes'
    BY <1>9 DEF Record, Finish, Answer, LockTypes, TypeOK
  <2>2. {"notRecorded", "accepted", "rejected"} \subseteq Places
    BY <1>1 DEF Outcomes
  <2>3. CallTypes'
    BY <1>9, <2>2, FinishType DEF Record, TypeOK
  <2>4. OtherTypes'
    BY <1>9 DEF Record, OtherTypes, TypeOK, history
  <2> QED BY <1>9, <2>1, <2>3, <2>4, FieldsKept, CoreKept, RecorderKept, ClientsKept
          DEF Record, TypeOK
<1>10. CASE Report(c)
  <2>1. CallTypes'
    BY <1>10, ReturnType DEF Report, TypeOK
  <2>2. OtherTypes'
    BY <1>10 DEF Report, OtherTypes, TypeOK, history
  <2> QED BY <1>10, <2>1, <2>2, MuxKept, FieldsKept, CoreKept, RecorderKept, ClientsKept
          DEF Report, TypeOK
<1> QED BY <1>2, <1>3, <1>4, <1>5, <1>6, <1>7, <1>8, <1>9, <1>10, Zenon DEF Check, Silent, Use

(* The callbacks.                                                              *)
LEMMA CallbackTypesStep ==
  ASSUME TypeOK,
         NEW n \in Inits,
         Push(n) \/ Callback(n)
  PROVE  TypeOK'
<1>1. CASE Push(n)
  <2>1. pushes[n] + 1 \in 0..MaxPushes
    BY <1>1, NumbersAssumption DEF Push, TypeOK, ClientTypes, NumbersAssumption
  <2>2. pushes' \in [Inits -> 0..MaxPushes] /\ pushes'[n] \in 0..MaxPushes
    BY <1>1, <2>1 DEF Push, TypeOK, ClientTypes
  <2>3. [init |-> n, number |-> pushes'[n]] \in Configurations
    BY <2>2 DEF Configurations
  <2>4. pushed' \in [Inits -> Configurations \cup {Nil}]
    BY <1>1, <2>3 DEF Push, TypeOK, ClientTypes
  <2>5. ClientTypes'
    BY <1>1, <2>2, <2>4 DEF Push, TypeOK, ClientTypes
  <2>6. OtherTypes'
    BY <1>1 DEF Push, OtherTypes, TypeOK, history
  <2> QED BY <1>1, <2>5, <2>6, MuxKept, FieldsKept, CoreKept, RecorderKept, CallsKept
          DEF Push, TypeOK
<1>2. CASE PushSetConfig(n)
  <2>1. pushed[n] \in Configurations \cup {Nil}
    BY DEF TypeOK, ClientTypes
  <2>2. CoreTypes'
    BY <1>2, <2>1, Zenon DEF PushSetConfig, CoreTypes, TypeOK
  <2>3. ClientTypes'
    BY <1>2 DEF PushSetConfig, Step, ClientTypes, TypeOK
  <2>4. OtherTypes'
    BY <1>2, Zenon DEF PushSetConfig, Step, OtherTypes, TypeOK
  <2> QED BY <1>2, <2>2, <2>3, <2>4, MuxKept, FieldsKept, RecorderKept, CallsKept
          DEF PushSetConfig, TypeOK
<1>3. CASE PushShutdown(n)
  <2>1. RecorderTypes'
    BY <1>3, Zenon DEF PushShutdown, RecorderTypes, TypeOK
  <2>2. ClientTypes'
    BY <1>3 DEF PushShutdown, Step, ClientTypes, TypeOK
  <2>3. OtherTypes'
    BY <1>3, Zenon DEF PushShutdown, Step, OtherTypes, TypeOK
  <2> QED BY <1>3, <2>1, <2>2, <2>3, MuxKept, FieldsKept, CoreKept, CallsKept
          DEF PushShutdown, TypeOK
<1>4. CASE PushActivate(n)
  <2>1. pushed[n] \in Configurations \cup {Nil} /\ n \in Ingesters
    BY NumbersAssumption DEF TypeOK, ClientTypes, Inits, Ingesters, NumbersAssumption
  <2>2. RecorderTypes'
    BY <1>4, <2>1, RecorderKept, Zenon DEF PushActivate, Activate, RecorderTypes, TypeOK
  <2>3. ClientTypes'
    BY <1>4 DEF PushActivate, Step, ClientTypes, TypeOK
  <2>4. OtherTypes'
    <3>1. crash' \in {"none", "init", "callback", "lockedUse", "unlockedUse"}
      BY <1>4 DEF PushActivate, OtherTypes, TypeOK
    <3> QED BY <1>4, <3>1, Zenon DEF PushActivate, Step, OtherTypes, TypeOK
  <2> QED BY <1>4, <2>2, <2>3, <2>4, MuxKept, FieldsKept, CoreKept, CallsKept
          DEF PushActivate, TypeOK
<1> QED BY <1>1, <1>2, <1>3, <1>4, Zenon DEF Callback

--------------------------------------------------------------------------------
(* The lock discipline.  HoldersProceed says where a holder of the mutex can   *)
(* be; for the converse, who is at such a place holds it.                      *)
Holding == \A c \in Callers : pc[c] \in {"stop", "fetch", "activate"} => writer = c

LockInv == TypeOK /\ Numbered /\ HoldersProceed /\ Holding

(* The steps of a caller and of a callback.                                    *)
CallStep(c) ==
  \/ c \in Controllers /\ (CallShutdown(c) \/ CallInit(c))
  \/ c \in Controllers /\ \E who \in Entities \cup {Nil} : CallSetEntity(c, who)
  \/ c \in Users /\ \E o \in Uses, who \in Entities \cup {Nil} : CallUse(c, o, who)
ControlStep(c) == Shutdown(c) \/ InitLock(c) \/ Fetch(c) \/ Connect(c) \/ SetEntity(c)
UseStep(c)     == Check(c) \/ Silent(c) \/ Use(c)
CallbackStep(n) == Push(n) \/ Callback(n)

LEMMA NextSplit ==
  ASSUME Next
  PROVE  /\ crash = "none"
         /\ \/ \E c \in Callers : CallStep(c) \/ ControlStep(c) \/ UseStep(c)
            \/ \E n \in Inits : CallbackStep(n)
  BY Zenon DEF Next, CallStep, ControlStep, UseStep, CallbackStep, Callers

(* What all steps of callers have in common: only their own place and call     *)
(* change.                                                                     *)
LEMMA OwnCall ==
  ASSUME TypeOK, NEW c \in Callers, CallStep(c) \/ ControlStep(c) \/ UseStep(c),
         NEW d \in Callers, d # c
  PROVE  pc'[d] = pc[d] /\ call'[d] = call[d]
<1> USE DEF TypeOK, CallTypes
<1>1. CASE CallStep(c)
  BY <1>1 DEF CallStep, CallShutdown, CallInit, CallSetEntity, CallUse, Begin
<1>2. CASE ControlStep(c)
  <2>1. CASE Shutdown(c) \/ InitLock(c)
    BY <2>1 DEF Shutdown, TearDown, StopIngester, InitLock, Goto, Answer, Return
  <2>2. CASE Fetch(c)
    BY <2>2 DEF Fetch, FetchFails, FetchSucceeds, FetchNull, FailInit, Goto, Answer, Return, calls
  <2>3. CASE Connect(c) \/ SetEntity(c)
    BY <2>3 DEF Connect, SetEntity, Goto, Answer, Return
  <2> QED BY <1>2, <2>1, <2>2, <2>3 DEF ControlStep
<1>3. CASE UseStep(c)
  <2>1. CASE Check(c) \/ Silent(c)
    BY <2>1 DEF Check, Silent, CheckEnabled, CheckDisabled, SilentInit, SilentInitRejected, Answer, Goto
  <2>2. CASE Evaluate(c) \/ EvaluateFlag(c) \/ Record(c) \/ Report(c)
    BY <2>2 DEF Evaluate, EvaluateFlag, Record, Report, Finish, Goto, Answer, Return, calls
  <2>3. CASE DefaultEntity(c)
    BY <2>3 DEF DefaultEntity, Finish, Answer, Goto
  <2> QED BY <1>3, <2>1, <2>2, <2>3 DEF UseStep, Use
<1> QED BY <1>1, <1>2, <1>3

(* A step keeps types and numbers.                                             *)
LEMMA TypeStep ==
  ASSUME TypeOK, Numbered, [Next]_vars
  PROVE  TypeOK'
<1>1. ASSUME NEW c \in Callers, CallStep(c) PROVE TypeOK'
  BY <1>1, CallTypesStep DEF CallStep
<1>2. ASSUME NEW c \in Callers, ControlStep(c) PROVE TypeOK'
  BY <1>2, ControlTypesStep DEF ControlStep
<1>3. ASSUME NEW c \in Callers, UseStep(c) PROVE TypeOK'
  BY <1>3, UseTypesStep DEF UseStep
<1>4. ASSUME NEW n \in Inits, CallbackStep(n) PROVE TypeOK'
  BY <1>4, CallbackTypesStep DEF CallbackStep
<1>5. CASE UNCHANGED vars
  <2>1. OtherTypes'
    BY <1>5 DEF vars, OtherTypes, TypeOK, history
  <2> QED BY <1>5, <2>1, MuxKept, FieldsKept, CoreKept, RecorderKept, ClientsKept, CallsKept
          DEF vars, TypeOK
<1> QED BY <1>1, <1>2, <1>3, <1>4, <1>5, NextSplit

LEMMA NumberedStep ==
  ASSUME TypeOK, Numbered, [Next]_vars
  PROVE  Numbered'
<1> USE DEF TypeOK, CallTypes
<1>1. ASSUME NEW c \in Callers, CallStep(c) \/ ControlStep(c) \/ UseStep(c) PROVE Numbered'
  <2> DEFINE Has == \/ pc[c] \in {"tearDown", "stop"} /\ call[c].op # "shutdown"
                    \/ pc[c] \in {"initLock", "fetch", "activate"}
  <2> SUFFICES Has' => call'[c].number \in Inits
    BY <1>1, OwnCall DEF Numbered
  <2>1. Has => call[c].number \in Inits
    BY DEF Numbered
  <2>2. CASE CallStep(c)
    <3>1. CASE CallShutdown(c)
      BY <3>1 DEF CallShutdown, Begin, NoCall
    <3>2. CASE CallInit(c)
      <4>1. begun' \in Inits
        BY <3>2, NumbersAssumption DEF CallInit, BeginInit, OtherTypes, Inits, NumbersAssumption
      <4> QED BY <3>2, <4>1 DEF CallInit, Begin, NoCall
    <3>3. ASSUME NEW who, CallSetEntity(c, who) PROVE ~Has'
      BY <3>3 DEF CallSetEntity, Begin
    <3>4. ASSUME NEW o, NEW who, CallUse(c, o, who) PROVE ~Has'
      BY <3>4 DEF CallUse, Begin
    <3> QED BY <2>2, <3>1, <3>2, <3>3, <3>4 DEF CallStep
  <2>3. CASE TearDown(c) \/ StopIngester(c) \/ InitLock(c)
    BY <2>1, <2>3 DEF TearDown, StopIngester, InitLock, Goto, Answer, Return
  <2>4. CASE FetchFails(c)
    <3>1. call'[c].number = call[c].number \/ pc'[c] \in {"idle", "notInitialized"}
      BY <2>4 DEF FetchFails, FailInit, Goto, Answer, Return, Calls
    <3>2. pc'[c] = pc[c] \/ pc'[c] \in {"idle", "notInitialized"}
      BY <2>4 DEF FetchFails, FailInit, Goto, Answer, Return
    <3> QED BY <2>1, <2>4, <3>1, <3>2 DEF FetchFails
  <2>5. CASE FetchSucceeds(c) \/ FetchNull(c)
    BY <2>1, <2>5 DEF FetchSucceeds, FetchNull, Goto, calls
  <2>6. CASE Connect(c) \/ SetEntity(c)
    BY <2>6 DEF Connect, SetEntity, Goto, Answer, Return
  <2>7. CASE CheckEnabled(c) \/ CheckDisabled(c) \/ SilentInitRejected(c)
    BY <2>7 DEF CheckEnabled, CheckDisabled, SilentInitRejected, Answer, Goto
  <2>8. CASE SilentInit(c)
    <3>1. begun' \in Inits
      BY <2>8, NumbersAssumption DEF SilentInit, BeginInit, OtherTypes, Inits, NumbersAssumption
    <3>2. call'[c].number = begun'
      BY <2>8 DEF SilentInit, Calls
    <3> QED BY <3>1, <3>2
  <2>9. CASE Use(c)
    <3>1. CASE Evaluate(c) \/ EvaluateFlag(c) \/ Record(c) \/ Report(c)
      BY <2>1, <3>1
         DEF Evaluate, EvaluateFlag, Record, Report, Finish, Goto, Answer, Return, calls, Outcomes
    <3>2. CASE DefaultEntity(c)
      BY <3>2 DEF DefaultEntity, Finish, Answer, Goto
    <3> QED BY <2>9, <3>1, <3>2 DEF Use
  <2> QED BY <1>1, <2>2, <2>3, <2>4, <2>5, <2>6, <2>7, <2>8, <2>9
          DEF ControlStep, UseStep, Shutdown, Fetch, Check, Silent
<1>2. ASSUME NEW n \in Inits, CallbackStep(n) PROVE Numbered'
  BY <1>2 DEF Numbered, CallbackStep, Push, Callback, PushSetConfig, PushShutdown, PushActivate, calls
<1>3. CASE UNCHANGED vars
  BY <1>3 DEF Numbered, vars, calls
<1> QED BY <1>1, <1>2, <1>3, NextSplit

(* The places where the mutex is held.                                         *)
Writing == {"stop", "fetch", "activate"}
Reading == {"use", "entity", "evaluateFlag", "record"}

LEMMA LockStep ==
  ASSUME LockInv, [Next]_vars
  PROVE  HoldersProceed' /\ Holding'
<1> USE DEF LockInv, TypeOK, LockTypes, CallTypes
<1>1. ASSUME NEW c \in Callers, CallStep(c) \/ ControlStep(c) \/ UseStep(c)
      PROVE  HoldersProceed' /\ Holding'
  (* It is enough to look at c, and at what it does to the mutex.              *)
  <2> SUFFICES
        /\ pc'[c] \in Writing <=> writer' = c
        /\ writer' # writer => \/ writer = Nil /\ readers = {} /\ writer' = c
                               \/ writer = c /\ writer' = Nil
        /\ c \in readers' => pc'[c] \in Reading
        /\ readers' \ {c} = readers \ {c}
        /\ c \in readers' /\ c \notin readers => writer = Nil
        /\ readers' # {} => writer' = Nil
    <3>1. \A d \in Callers : d # c => pc'[d] = pc[d]
      BY <1>1, OwnCall
    <3>2. readers' \subseteq Callers /\ Nil \notin Callers
      BY <1>1, TypeStep, NilAssumption, NextSplit, CallTypesStep, ControlTypesStep, UseTypesStep
         DEF NilAssumption, CallStep, ControlStep, UseStep
    <3> QED BY <3>1, <3>2 DEF HoldersProceed, Holding, Writing, Reading
  <2> USE DEF Writing, Reading
  <2>0. /\ pc[c] \in Writing <=> writer = c
        /\ c \in readers => pc[c] \in Reading
        /\ readers # {} => writer = Nil
        /\ Nil \notin Callers
    BY NilAssumption DEF HoldersProceed, Holding, NilAssumption
  <2>1. CASE CallStep(c)
    <3>1. pc[c] = "idle" /\ pc'[c] \in {"tearDown", "setEntity", "checkInitialized"} /\ UNCHANGED mux
      BY <2>1 DEF CallStep, CallShutdown, CallInit, CallSetEntity, CallUse, Begin
    <3> QED BY <2>0, <3>1 DEF mux
  <2>2. CASE TearDown(c) \/ InitLock(c)
    BY <2>0, <2>2 DEF TearDown, InitLock, CanLock, Goto
  <2>3. CASE StopIngester(c)
    BY <2>0, <2>3 DEF StopIngester, Goto, Answer, Return
  <2>4. CASE FetchFails(c)
    BY <2>0, <2>4 DEF FetchFails, FailInit, Goto, Answer, Return
  <2>5. CASE FetchSucceeds(c) \/ FetchNull(c)
    BY <2>0, <2>5 DEF FetchSucceeds, FetchNull, Goto, mux, calls
  <2>6. CASE Connect(c)
    BY <2>0, <2>6 DEF Connect, Goto, Answer, Return
  <2>7. CASE SetEntity(c)
    BY <2>0, <2>7 DEF SetEntity, Answer, Return, mux
  <2>8. CASE CheckEnabled(c)
    BY <2>0, <2>8 DEF CheckEnabled, Goto
  <2>9. CASE CheckDisabled(c) \/ SilentInit(c) \/ SilentInitRejected(c)
    BY <2>0, <2>9 DEF CheckDisabled, SilentInit, SilentInitRejected, Answer, Goto, mux
  <2>10. CASE Evaluate(c) \/ DefaultEntity(c) \/ Record(c)
    BY <2>0, <2>10 DEF Evaluate, DefaultEntity, Record, Finish, Answer, Goto
  <2>11. CASE EvaluateFlag(c)
    BY <2>0, <2>11 DEF EvaluateFlag, Goto, mux, calls
  <2>12. CASE Report(c)
    BY <2>0, <2>12 DEF Report, Outcomes, Answer, Return, mux
  <2> QED BY <1>1, <2>1, <2>2, <2>3, <2>4, <2>5, <2>6, <2>7, <2>8, <2>9, <2>10, <2>11, <2>12
          DEF ControlStep, UseStep, Shutdown, Fetch, Check, Silent, Use
<1>2. ASSUME NEW n \in Inits, CallbackStep(n) PROVE HoldersProceed' /\ Holding'
  <2>1. UNCHANGED <<mux, calls>>
    BY <1>2 DEF CallbackStep, Push, Callback, PushSetConfig, PushShutdown, PushActivate
  <2> QED BY <2>1 DEF HoldersProceed, Holding, mux, calls
<1>3. CASE UNCHANGED vars
  BY <1>3 DEF HoldersProceed, Holding, vars, mux, calls
<1> QED BY <1>1, <1>2, <1>3, NextSplit

--------------------------------------------------------------------------------
(* What the lock protects.  Two control calls under way have overlapped; the   *)
(* way through Shutdown and Init is walked with Flagger disabled, unless       *)
(* another has enabled it meanwhile; enabled, there is a configuration and,    *)
(* with the mutex free, an active ingester; readers find Flagger enabled; on   *)
(* the way through Init the default entities are both reset.                   *)
Alone ==
  \A c, d \in Callers : c # d /\ pc[c] \in Control /\ pc[d] \in Control => overlapped
Down ==
  \A c \in Callers : crash = "none" =>
    /\ pc[c] = "stop" => ~enabled
    /\ pc[c] \in {"initLock", "fetch"} => ~enabled \/ overlapped
Configured     == crash = "none" /\ enabled => configuration # Nil \/ NullPushed
Active         == crash = "none" /\ enabled /\ writer = Nil /\ ~overlapped => isActive \/ Restarting
ReadersEnabled == readers # {} => enabled
DefaultsReset ==
  ~overlapped =>
    /\ enabled => entity = default
    /\ \A c \in Callers : pc[c] \in {"stop", "initLock", "fetch"} => entity = Nil
    /\ \A c \in Callers : pc[c] = "fetch" => default = Nil

ServedInv == /\ LockInv /\ Alone /\ Down
             /\ Configured /\ Active /\ ReadersEnabled /\ DefaultsReset

LEMMA OverlapGrows == ASSUME NEW c \in Callers, BeginControl(c) PROVE overlapped => overlapped'
  BY Zenon DEF BeginControl

(* Calls and uses change nothing but the read lock, and overlap is never       *)
(* forgotten.                                                                  *)
LEMMA UsesOnlyRead ==
  ASSUME NEW c \in Callers, CallStep(c) \/ UseStep(c)
  PROVE  /\ UNCHANGED <<writer, fields, core, recorder, clients>>
         /\ overlapped => overlapped'
<1>1. CASE CallStep(c)
  <2>1. CASE CallShutdown(c) \/ CallInit(c)
    BY <2>1, OverlapGrows DEF CallShutdown, CallInit, BeginInit, mux
  <2>2. ASSUME NEW who, CallSetEntity(c, who)
        PROVE  /\ UNCHANGED <<writer, fields, core, recorder, clients>>
               /\ overlapped => overlapped'
    BY <2>2, OverlapGrows DEF CallSetEntity, mux
  <2>3. ASSUME NEW o, NEW who, CallUse(c, o, who)
        PROVE  UNCHANGED <<writer, fields, core, recorder, clients, overlapped>>
    BY <2>3 DEF CallUse, mux, history
  <2> QED BY <1>1, <2>1, <2>2, <2>3, Zenon DEF CallStep
<1>2. CASE Check(c) \/ Silent(c)
  BY <1>2, OverlapGrows DEF Check, Silent, CheckEnabled, CheckDisabled, SilentInit,
                            SilentInitRejected, Answer, BeginInit, mux, history
<1>3. CASE Use(c)
  BY <1>3 DEF Use, Evaluate, DefaultEntity, EvaluateFlag, Record, Report, mux, history
<1> QED BY <1>1, <1>2, <1>3 DEF UseStep

(* The steps of a control call.                                                *)
LEMMA ControlIsControl ==
  ASSUME NEW c \in Callers, ControlStep(c)
  PROVE  pc[c] \in Control /\ overlapped' = overlapped
  BY DEF ControlStep, Shutdown, TearDown, StopIngester, InitLock, Fetch, FetchFails, FetchSucceeds,
         FetchNull, Connect, SetEntity, Control, history

(* The steps of a callback.                                                    *)
LEMMA CallbackFrame ==
  ASSUME NEW n \in Inits, CallbackStep(n)
  PROVE  /\ UNCHANGED <<mux, fields, calls, entity, default, overlapped>>
         /\ Push(n) \/ Callback(n)
  BY DEF CallbackStep, Push, Callback, PushSetConfig, PushShutdown, PushActivate, Activate,
         core, recorder, history

LEMMA AloneStep ==
  ASSUME TypeOK, Alone, [Next]_vars
  PROVE  Alone'
<1>1. ASSUME NEW c \in Callers, CallStep(c) \/ ControlStep(c) \/ UseStep(c) PROVE Alone'
  <2>1. overlapped => overlapped'
    BY <1>1, UsesOnlyRead, ControlIsControl
  <2>2. pc'[c] \in Control => pc[c] \in Control \/ BeginControl(c)
    <3> USE DEF TypeOK, CallTypes
    <3>1. CASE CallStep(c)
      BY <3>1 DEF CallStep, CallShutdown, CallInit, CallSetEntity, CallUse, Begin, BeginInit, Control
    <3>2. CASE Check(c) \/ Silent(c)
      BY <3>2 DEF Check, Silent, CheckEnabled, CheckDisabled, SilentInit, SilentInitRejected, Answer,
                  BeginInit, Goto, Control
    <3>3. CASE Evaluate(c) \/ EvaluateFlag(c) \/ Record(c) \/ Report(c)
      BY <3>3 DEF Evaluate, EvaluateFlag, Record, Report, Finish, Goto, Answer, Return, Control, calls
    <3>4. CASE DefaultEntity(c)
      BY <3>4 DEF DefaultEntity, Finish, Answer, Goto, Control
    <3> QED BY <1>1, <3>1, <3>2, <3>3, <3>4, ControlIsControl DEF UseStep, Use
  <2>3. \A d \in Callers : d # c => pc'[d] = pc[d]
    BY <1>1, OwnCall
  <2>4. ASSUME NEW d \in Callers, d # c, pc'[c] \in Control, pc'[d] \in Control PROVE overlapped'
    BY <2>1, <2>2, <2>3, <2>4 DEF Alone, BeginControl
  <2> QED BY <2>1, <2>3, <2>4 DEF Alone
<1>2. ASSUME NEW n \in Inits, CallbackStep(n) PROVE Alone'
  BY <1>2, CallbackFrame DEF Alone, calls
<1>3. CASE UNCHANGED vars
  BY <1>3 DEF Alone, vars, calls, history
<1> QED BY <1>1, <1>2, <1>3, NextSplit

(* The places of Shutdown and Init between the old SSE client and the new one. *)
Torn == {"stop", "initLock", "fetch", "activate"}

(* Calls and uses have no part in them.                                        *)
LEMMA UseStays ==
  ASSUME TypeOK, NEW c \in Callers, CallStep(c) \/ UseStep(c)
  PROVE  /\ pc[c] \notin Torn /\ pc'[c] \notin Torn
         /\ UNCHANGED late
<1> USE DEF TypeOK, CallTypes
<1>1. CASE CallStep(c)
  BY <1>1 DEF CallStep, CallShutdown, CallInit, CallSetEntity, CallUse, Begin, Torn, history
<1>2. CASE Check(c) \/ Silent(c)
  BY <1>2 DEF Check, Silent, CheckEnabled, CheckDisabled, SilentInit, SilentInitRejected, Answer, Goto,
              Torn, history
<1>3. CASE Evaluate(c) \/ EvaluateFlag(c) \/ Record(c) \/ Report(c)
  BY <1>3 DEF Evaluate, EvaluateFlag, Record, Report, Finish, Goto, Answer, Return, Outcomes, calls,
              Torn, history
<1>4. CASE DefaultEntity(c)
  BY <1>4 DEF DefaultEntity, Finish, Answer, Goto, Torn, history
<1> QED BY <1>1, <1>2, <1>3, <1>4 DEF UseStep, Use

LEMMA DownStep ==
  ASSUME LockInv, Alone, Down, [Next]_vars
  PROVE  Down'
<1> USE DEF LockInv, TypeOK, CallTypes
<1>1. ASSUME NEW c \in Callers, CallStep(c) \/ UseStep(c), crash = "none" PROVE Down'
  <2>1. enabled' = enabled /\ (overlapped => overlapped')
    BY <1>1, UsesOnlyRead DEF fields
  <2> QED BY <1>1, <2>1, UseStays, OwnCall DEF Down, Torn
<1>2. ASSUME NEW c \in Callers, ControlStep(c), crash = "none" PROVE Down'
  <2>1. /\ overlapped' = overlapped
        /\ \A d \in Callers : d # c => pc'[d] = pc[d] /\ (pc[d] \in Control => overlapped)
    BY <1>2, ControlIsControl, OwnCall DEF Alone
  <2>2. CASE TearDown(c)
    BY <2>1, <2>2 DEF TearDown, Goto, Down
  <2>3. CASE StopIngester(c) \/ InitLock(c)
    BY <2>1, <2>3 DEF StopIngester, InitLock, Goto, Answer, Return, Down, fields
  <2>4. CASE FetchFails(c)
    BY <2>1, <2>4 DEF FetchFails, FailInit, Goto, Answer, Return, Down, fields
  <2>5. CASE FetchSucceeds(c)
    BY <2>1, <2>5 DEF FetchSucceeds, Goto, Down, Holding, Control
  <2>6. CASE FetchNull(c)
    BY <2>6 DEF FetchNull, Down
  <2>7. CASE Connect(c) \/ SetEntity(c)
    BY <2>1, <2>7 DEF Connect, SetEntity, Goto, Answer, Return, Down
  <2> QED BY <1>2, <2>2, <2>3, <2>4, <2>5, <2>6, <2>7 DEF ControlStep, Shutdown, Fetch
<1>3. ASSUME NEW n \in Inits, CallbackStep(n), crash = "none" PROVE Down'
  BY <1>3, CallbackFrame DEF Down, fields, calls
<1>4. CASE UNCHANGED vars
  BY <1>4 DEF Down, vars, fields, calls, history
<1> QED BY <1>1, <1>2, <1>3, <1>4, NextSplit

LEMMA ReadersStep ==
  ASSUME LockInv, ReadersEnabled, [Next]_vars
  PROVE  ReadersEnabled'
<1>1. ASSUME NEW c \in Callers, CallStep(c) PROVE ReadersEnabled'
  BY <1>1 DEF CallStep, CallShutdown, CallInit, CallSetEntity, CallUse, mux, fields, ReadersEnabled
<1>2. ASSUME NEW c \in Callers, ControlStep(c) PROVE ReadersEnabled'
  <2>1. CASE TearDown(c) \/ InitLock(c)
    BY <2>1 DEF TearDown, InitLock, CanLock, ReadersEnabled
  <2>2. CASE StopIngester(c) \/ Fetch(c) \/ Connect(c) \/ SetEntity(c)
    BY <2>2 DEF StopIngester, Fetch, FetchFails, FetchSucceeds, FetchNull, Connect, SetEntity,
                mux, fields, ReadersEnabled
  <2> QED BY <1>2, <2>1, <2>2 DEF ControlStep, Shutdown
<1>3. ASSUME NEW c \in Callers, UseStep(c) PROVE ReadersEnabled'
  <2>1. enabled' = enabled /\ (readers' \subseteq readers \/ enabled)
    <3>1. CASE Check(c) \/ Silent(c)
      BY <3>1 DEF Check, Silent, CheckEnabled, CheckDisabled, SilentInit, SilentInitRejected, Answer,
                mux, fields
    <3>2. CASE Use(c)
      BY <3>2 DEF Use, Evaluate, DefaultEntity, EvaluateFlag, Record, Report, Finish, Answer, mux, fields
    <3> QED BY <1>3, <3>1, <3>2 DEF UseStep
  <2> QED BY <2>1 DEF ReadersEnabled
<1>4. ASSUME NEW n \in Inits, CallbackStep(n) PROVE ReadersEnabled'
  BY <1>4, CallbackFrame DEF ReadersEnabled, mux, fields
<1>5. CASE UNCHANGED vars
  BY <1>5 DEF ReadersEnabled, vars, mux, fields
<1> QED BY <1>1, <1>2, <1>3, <1>4, <1>5, NextSplit

LEMMA DefaultsStep ==
  ASSUME LockInv, Alone, DefaultsReset, [Next]_vars
  PROVE  DefaultsReset'
<1> USE DEF LockInv, TypeOK, CallTypes
<1>1. ASSUME NEW c \in Callers, CallStep(c) \/ UseStep(c) PROVE DefaultsReset'
  <2>1. UNCHANGED <<enabled, entity, default>> /\ (overlapped => overlapped')
    BY <1>1, UsesOnlyRead DEF fields, core, recorder
  <2> QED BY <1>1, <2>1, UseStays, OwnCall DEF DefaultsReset, Torn
<1>2. ASSUME NEW c \in Callers, ControlStep(c) PROVE DefaultsReset'
  <2>1. /\ overlapped' = overlapped
        /\ ~overlapped => \A d \in Callers : d # c => pc'[d] = pc[d] /\ pc[d] \notin Control
        /\ {"stop", "initLock", "fetch"} \subseteq Control
    BY <1>2, ControlIsControl, OwnCall DEF Alone, Control
  <2>2. CASE TearDown(c)
    BY <2>1, <2>2 DEF TearDown, Goto, DefaultsReset
  <2>3. CASE StopIngester(c)
    BY <2>1, <2>3 DEF StopIngester, Goto, Answer, Return, DefaultsReset, fields, core
  <2>4. CASE InitLock(c)
    BY <2>1, <2>4 DEF InitLock, Goto, DefaultsReset, core
  <2>5. CASE FetchFails(c)
    BY <2>1, <2>5 DEF FetchFails, FailInit, Goto, Answer, Return, DefaultsReset, fields, core, recorder
  <2>6. CASE FetchSucceeds(c) \/ FetchNull(c)
    BY <2>1, <2>6 DEF FetchSucceeds, FetchNull, Goto, DefaultsReset, core, recorder, calls
  <2>7. CASE Connect(c)
    BY <2>1, <2>7 DEF Connect, Activate, Goto, Answer, Return, DefaultsReset, core
  <2>8. CASE SetEntity(c)
    BY <2>1, <2>8 DEF SetEntity, Answer, Return, DefaultsReset
  <2> QED BY <1>2, <2>2, <2>3, <2>4, <2>5, <2>6, <2>7, <2>8 DEF ControlStep, Shutdown, Fetch
<1>3. ASSUME NEW n \in Inits, CallbackStep(n) PROVE DefaultsReset'
  BY <1>3, CallbackFrame DEF DefaultsReset, fields, calls
<1>4. CASE UNCHANGED vars
  BY <1>4 DEF DefaultsReset, vars, fields, core, recorder, calls, history
<1> QED BY <1>1, <1>2, <1>3, <1>4, NextSplit

LEMMA ConfiguredStep ==
  ASSUME TypeOK, Numbered, Configured, crash = "none", Next
  PROVE  Configured'
<1> USE DEF TypeOK
<1>1. ASSUME NEW c \in Callers, CallStep(c) \/ UseStep(c) PROVE Configured'
  BY <1>1, UsesOnlyRead DEF Configured, NullPushed, fields, core, clients
<1>2. ASSUME NEW c \in Callers, ControlStep(c) PROVE Configured'
  <2>1. CASE TearDown(c)
    BY <2>1 DEF TearDown, Configured
  <2>2. CASE StopIngester(c) \/ InitLock(c) \/ FetchFails(c) \/ SetEntity(c)
    BY <2>2
       DEF StopIngester, InitLock, FetchFails, SetEntity, Configured, NullPushed, fields, core, clients
  <2>3. CASE FetchSucceeds(c)
    <3>1. 0 \in 0..MaxPushes /\ Nil \notin Configurations
      BY NumbersAssumption, NilAssumption DEF NumbersAssumption, NilAssumption
    <3>2. [init |-> call[c].number, number |-> 0] \in Configurations
      BY <2>3, <3>1 DEF FetchSucceeds, Numbered, Configurations
    <3> QED BY <2>3, <3>1, <3>2 DEF FetchSucceeds, Configured
  <2>4. CASE FetchNull(c)
    BY <2>4 DEF FetchNull, Configured
  <2>5. CASE Connect(c)
    BY <2>5 DEF Connect, Configured, NullPushed, core
  <2> QED BY <1>2, <2>1, <2>2, <2>3, <2>4, <2>5 DEF ControlStep, Shutdown, Fetch
<1>3. ASSUME NEW n \in Inits, CallbackStep(n) PROVE Configured'
  <2>1. CASE Push(n)
    BY <2>1 DEF Push, Configured, NullPushed, ClientTypes, fields, core
  <2>2. CASE PushSetConfig(n)
    BY <2>2 DEF PushSetConfig, Step, Configured, NullPushed, ClientTypes, fields
  <2>3. CASE PushShutdown(n)
    BY <2>3 DEF PushShutdown, Step, Configured, NullPushed, ClientTypes, fields, core
  <2>4. CASE PushActivate(n)
    BY <2>4 DEF PushActivate, Step, Configured, NullPushed, ClientTypes, fields, core
  <2> QED BY <1>3, <2>1, <2>2, <2>3, <2>4 DEF CallbackStep, Callback
<1> QED BY <1>1, <1>2, <1>3, NextSplit

(* With the mutex free, only callbacks change isActive; whoever frees the      *)
(* mutex leaves Flagger disabled or its ingester active.                       *)
LEMMA ActiveStep ==
  ASSUME LockInv, Alone, Down, Active, crash = "none", Next
  PROVE  Active'
<1> USE DEF LockInv, TypeOK
<1>1. ASSUME NEW c \in Callers, CallStep(c) \/ UseStep(c) PROVE Active'
  <2>1. UNCHANGED <<writer, enabled, isActive, callback>> /\ (overlapped => overlapped')
    BY <1>1, UsesOnlyRead DEF fields, recorder, clients
  <2> QED BY <2>1 DEF Active, Restarting
<1>2. ASSUME NEW c \in Callers, ControlStep(c) PROVE Active'
  <2>1. CASE TearDown(c) \/ InitLock(c)
    <3>1. writer' # Nil
      BY <2>1, NilAssumption DEF TearDown, InitLock, NilAssumption
    <3> QED BY <3>1 DEF Active
  <2>2. CASE StopIngester(c)
    BY <2>2 DEF StopIngester, Down, Active, fields
  <2>3. CASE FetchFails(c)
    <3>1. UNCHANGED <<enabled, isActive, callback, overlapped>> /\ (~enabled \/ overlapped)
      BY <2>3 DEF FetchFails, Down, fields, recorder, clients, history
    <3> QED BY <3>1 DEF Active
  <2>4. CASE FetchSucceeds(c) \/ FetchNull(c)
    <3>1. writer' = c /\ c # Nil
      BY <2>4, NilAssumption DEF FetchSucceeds, FetchNull, Holding, mux, NilAssumption
    <3> QED BY <3>1 DEF Active
  <2>5. CASE Connect(c)
    BY <2>5 DEF Connect, Activate, Active
  <2>6. CASE SetEntity(c)
    BY <2>6 DEF SetEntity, Active, Restarting, mux, clients, history
  <2> QED BY <1>2, <2>1, <2>2, <2>3, <2>4, <2>5, <2>6 DEF ControlStep, Shutdown, Fetch
<1>3. ASSUME NEW n \in Inits, CallbackStep(n) PROVE Active'
  <2> USE CallbackFrame DEF ClientTypes, Active, Restarting, mux, fields
  <2>1. CASE Push(n)
    BY <1>3, <2>1 DEF Push, recorder
  <2>2. CASE PushSetConfig(n)
    BY <1>3, <2>2 DEF PushSetConfig, Step, recorder
  <2>3. CASE PushShutdown(n)
    BY <1>3, <2>3 DEF PushShutdown, Step
  <2>4. CASE PushActivate(n)
    BY <1>3, <2>4 DEF PushActivate, Step, Activate, recorder
  <2> QED BY <1>3, <2>1, <2>2, <2>3, <2>4 DEF CallbackStep, Callback
<1> QED BY <1>1, <1>2, <1>3, NextSplit

--------------------------------------------------------------------------------
(* The theorems.                                                               *)
LEMMA ServedInit == ASSUME Init PROVE ServedInv
<1>1. TypeOK
  BY TypeInit
<1>2. Numbered /\ HoldersProceed /\ Holding
  BY NilAssumption DEF Init, Numbered, HoldersProceed, Holding, NilAssumption
<1>3. Alone /\ Down /\ Configured /\ Active /\ ReadersEnabled
  BY DEF Init, Alone, Down, Configured, Active, ReadersEnabled, Control
<1>4. DefaultsReset
  BY DEF Init, DefaultsReset
<1> QED BY <1>1, <1>2, <1>3, <1>4 DEF ServedInv, LockInv

LEMMA ServedStep == ASSUME ServedInv, [Next]_vars PROVE ServedInv'
<1>1. LockInv'
  BY TypeStep, NumberedStep, LockStep DEF ServedInv, LockInv
<1>2. Alone' /\ Down' /\ ReadersEnabled' /\ DefaultsReset'
  BY AloneStep, DownStep, ReadersStep, DefaultsStep DEF ServedInv, LockInv
<1>3. Configured' /\ Active'
  <2>1. CASE Next
    <3>1. crash = "none"
      BY <2>1, NextSplit
    <3> QED BY <2>1, <3>1, ConfiguredStep, ActiveStep DEF ServedInv, LockInv
  <2>2. CASE UNCHANGED vars
    BY <2>2 DEF ServedInv, Configured, Active, NullPushed, Restarting, vars, mux, fields, core,
                recorder, clients, history
  <2> QED BY <2>1, <2>2
<1> QED BY <1>1, <1>2, <1>3 DEF ServedInv

LEMMA Served == Spec => []ServedInv
  BY ServedInit, ServedStep, PTL DEF Spec

(* Flagger's variables keep their types, an initialisation fetching as often   *)
(* as GetConfiguration allows and not once more.                               *)
THEOREM TypeCorrect == Spec => []TypeOK
<1>1. ServedInv => TypeOK
  BY DEF ServedInv, LockInv
<1> QED BY <1>1, Served, PTL

(* Whoever holds flagger.mux is on the way to releasing it (flagger.go 199-211 *)
(* and every Lock with its deferred Unlock): no call waits for the mutex while *)
(* it holds it, and a writer is alone.                                         *)
THEOREM MutexIsReleased == Spec => []HoldersProceed
<1>1. ServedInv => HoldersProceed
  BY DEF ServedInv, LockInv
<1> QED BY <1>1, Served, PTL

(* Flag functions and Track mean the same default entity, whatever SetEntity,  *)
(* Init and Shutdown did before (flagger.go 72, 142 and 230-235).              *)
THEOREM OneDefaultEntity == Spec => []DefaultEntitiesAgree
<1>1. ServedInv => DefaultEntitiesAgree
  BY DEF ServedInv, DefaultsReset, DefaultEntitiesAgree, Settled
<1> QED BY <1>1, Served, PTL

(* Only a use of its own moves a reader on.                                    *)
LEMMA ReaderMoves ==
  ASSUME LockInv, NEW c \in readers, Next, pc'[c] # pc[c]
  PROVE  c \in Callers /\ Use(c)
<1>1. c \in Callers /\ pc[c] \in {"use", "entity", "evaluateFlag", "record"}
  BY DEF LockInv, HoldersProceed, TypeOK, LockTypes
<1>2. CASE \E n \in Inits : CallbackStep(n)
  BY <1>2, CallbackFrame DEF calls
<1>3. ASSUME NEW d \in Callers, CallStep(d) \/ ControlStep(d) \/ UseStep(d) PROVE Use(c)
  <2>1. d = c
    BY <1>1, <1>3, OwnCall DEF LockInv
  <2>2. ~CallStep(c)
    BY <1>1 DEF CallStep, CallShutdown, CallInit, CallSetEntity, CallUse, Begin
  <2>3. ~ControlStep(c)
    BY <1>1, ControlIsControl DEF Control
  <2>4. ~Check(c) /\ ~Silent(c)
    BY <1>1 DEF Check, Silent, CheckEnabled, CheckDisabled, SilentInit, SilentInitRejected, Answer
  <2> QED BY <1>3, <2>1, <2>2, <2>3, <2>4 DEF UseStep
<1> QED BY <1>1, <1>2, <1>3, NextSplit

(* Only EvaluateFlag can panic in a use.                                       *)
LEMMA LockedPanic ==
  ASSUME Next, crash' = "lockedUse"
  PROVE  \E c \in readers : configuration = Nil
<1>1. ASSUME NEW c \in Callers, CallStep(c) PROVE FALSE
  BY <1>1, NextSplit DEF CallStep, CallShutdown, CallInit, CallSetEntity, CallUse
<1>2. ASSUME NEW c \in Callers, ControlStep(c) PROVE FALSE
  BY <1>2, NextSplit DEF ControlStep, Shutdown, TearDown, StopIngester, InitLock, Fetch, FetchFails,
                         FetchSucceeds, FetchNull, Connect, SetEntity
<1>3. ASSUME NEW c \in Callers, UseStep(c) PROVE c \in readers /\ configuration = Nil
  <2>1. ~Check(c) /\ ~Silent(c)
    BY <1>3, NextSplit
       DEF Check, Silent, CheckEnabled, CheckDisabled, SilentInit, SilentInitRejected, Answer
  <2>2. EvaluateFlag(c)
    BY <1>3, <2>1, NextSplit DEF UseStep, Use, Evaluate, DefaultEntity, Record, Report
  <2> QED BY <2>2, NextSplit DEF EvaluateFlag
<1>4. ASSUME NEW n \in Inits, CallbackStep(n) PROVE FALSE
  BY <1>4, NextSplit DEF CallbackStep, Push, Callback, PushSetConfig, PushShutdown, PushActivate
<1> QED BY <1>1, <1>2, <1>3, <1>4, NextSplit

(* Under the read lock a use finds a configuration and an active ingester      *)
(* (flagger.go 199-211), but for a null configuration, a restarting ingester   *)
(* and overlapping control calls.                                              *)
THEOREM LockedUsesServed == Spec => LockedUsesAreServed
<1>1. ASSUME ServedInv, Next PROVE LockedUseIsServed
  <2> USE <1>1 DEF ServedInv, LockInv, TypeOK, CallTypes
  <2>1. readers # {} => /\ configuration # Nil \/ NullPushed
                        /\ isActive \/ Restarting \/ overlapped
    BY NextSplit, NilAssumption
       DEF HoldersProceed, ReadersEnabled, Configured, Active, LockTypes, NilAssumption
  <2>2. ASSUME NEW c \in readers
        PROVE  c \in Callers /\ pc[c] \in {"use", "entity", "evaluateFlag", "record"}
    BY DEF HoldersProceed, LockTypes
  <2>3. ASSUME NEW c \in readers, pc'[c] = "rejected" PROVE Restarting \/ overlapped
    <3>1. c \in Callers /\ Use(c)
      BY <2>2, <2>3, ReaderMoves
    <3>2. ~isActive
      BY <2>2, <2>3, <3>1 DEF Use, Evaluate, DefaultEntity, EvaluateFlag, Record, Report, Finish, Answer,
                              Goto, Answer, Return, calls
    <3> QED BY <2>1, <3>2
  <2>4. ASSUME NEW c \in readers, pc'[c] = "notInitialized" PROVE NullPushed
    <3>1. c \in Callers /\ Use(c)
      BY <2>2, <2>4, ReaderMoves
    <3>2. configuration = Nil
      BY <2>2, <2>4, <3>1 DEF Use, Evaluate, DefaultEntity, EvaluateFlag, Record, Report, Finish, Answer,
                              Goto, Answer, Return, calls
    <3> QED BY <2>1, <3>2
  <2>5. ASSUME crash' = "lockedUse" PROVE NullPushed
    BY <2>1, <2>5, LockedPanic
  <2> QED BY <2>3, <2>4, <2>5 DEF LockedUseIsServed
<1>2. ServedInv /\ [Next]_vars => [LockedUseIsServed]_vars
  BY <1>1
<1> QED BY <1>2, Served, PTL DEF Spec, LockedUsesAreServed

--------------------------------------------------------------------------------
(* What one initialisation at a time leaves behind.                            *)

(* Nobody is at one of them.                                                   *)
Serving == \A c \in Callers : pc[c] \notin Torn

(* A call on its way to make an initialisation (as in Numbered).               *)
Initialising(c) == \/ pc[c] \in {"tearDown", "stop"} /\ call[c].op # "shutdown"
                   \/ pc[c] \in {"initLock", "fetch", "activate"}

(* Only a client that has been connected calls back, and what it brings is of  *)
(* its own initialisation.                                                     *)
OwnPush ==
  \A n \in Inits : /\ client[n] = "none" => callback[n] = "none"
                   /\ pushed[n] # Nil => pushed[n].init = n

(* An initialisation to come has no client yet; that of Flagger has been       *)
(* connected.                                                                  *)
Fresh ==
  /\ \A n \in Inits : client[n] # "none" => n <= begun
  /\ sse # Nil => client[sse] # "none"
  /\ \A c \in Callers : /\ call[c].number <= begun
                        /\ Initialising(c) /\ ~overlapped => client[call[c].number] = "none"

(* The client of Flagger is the only one connected, and its ingester is of the *)
(* same initialisation; between two clients there is none.                     *)
OneClient ==
  ~overlapped =>
    /\ \A n \in Inits : client[n] = "live" <=> sse = n
    /\ \A c \in Callers : /\ pc[c] \in Torn => sse = Nil
                          /\ pc[c] \in {"fetch", "activate"} => ingester = call[c].number
                          /\ pc[c] = "activate" => enabled
    /\ Serving => IF enabled THEN sse # Nil /\ ingester = sse ELSE sse = Nil

(* Without callbacks of former clients, what is torn down stays so.            *)
Clean ==
  ~overlapped /\ ~late =>
    /\ \A c \in Callers :
         /\ pc[c] \in {"stop", "initLock", "fetch"} => configuration = Nil
         /\ pc[c] \in {"initLock", "fetch"} => ~isActive
         /\ pc[c] = "activate" => configuration = [init |-> call[c].number, number |-> 0]
    /\ Serving /\ ~enabled => configuration = Nil /\ ~isActive

(* What the core and the ingester have of the client's initialisation, before  *)
(* and after the client's callback has set the configuration.                  *)
Whole ==
  ~overlapped /\ ~late /\ crash = "none" /\ Serving /\ enabled =>
    /\ url = sse
    /\ configuration # Nil => configuration.init = sse
    /\ callback[sse] \in {"none", "setConfig"} => isActive /\ sdkConfig = configuration
    /\ callback[sse] \in {"shutdown", "activate"} => configuration = pushed[sse]

(* The inductive invariant, on top of ServedInv.                               *)
SettleInv == ServedInv /\ OwnPush /\ Fresh /\ OneClient /\ Clean /\ Whole

(* Calls and uses leave Flagger as it is, in Serving or not.                   *)
LEMMA UseKeepsServing ==
  ASSUME TypeOK, NEW c \in Callers, CallStep(c) \/ UseStep(c)
  PROVE  /\ Serving' <=> Serving
         /\ \A d \in Callers : pc'[d] \in Torn \/ pc[d] \in Torn => pc'[d] = pc[d] /\ call'[d] = call[d]
  BY UseStays, OwnCall DEF Serving

(* A call that starts to initialise takes the next number.                     *)
LEMMA UseNumbers ==
  ASSUME TypeOK, NEW c \in Callers, CallStep(c) \/ UseStep(c)
  PROVE  /\ begun' \in {begun, begun + 1}
         /\ \/ call'[c].number = begun' /\ begun' = begun + 1 /\ begun' \in Inits
            \/ call'[c].number \in {0, call[c].number} /\ ~Initialising(c)'
<1> USE DEF TypeOK, CallTypes
<1>1. ASSUME BeginInit(c) PROVE begun' = begun + 1 /\ begun' \in Inits
  BY <1>1, NumbersAssumption DEF BeginInit, OtherTypes, Inits, NumbersAssumption
<1>2. CASE CallStep(c)
  <2>1. CASE CallShutdown(c)
    BY <2>1 DEF CallShutdown, Begin, NoCall, Initialising
  <2>2. CASE CallInit(c)
    BY <2>2, <1>1 DEF CallInit, Begin, NoCall
  <2>3. ASSUME NEW who, CallSetEntity(c, who)
        PROVE  begun' = begun /\ call'[c].number = 0 /\ ~Initialising(c)'
    BY <2>3 DEF CallSetEntity, Begin, NoCall, Initialising
  <2>4. ASSUME NEW o, NEW who, CallUse(c, o, who)
        PROVE  begun' = begun /\ call'[c].number = 0 /\ ~Initialising(c)'
    BY <2>4 DEF CallUse, Begin, NoCall, Initialising
  <2> QED BY <1>2, <2>1, <2>2, <2>3, <2>4 DEF CallStep
<1>3. CASE Check(c) \/ SilentInitRejected(c)
  BY <1>3 DEF Check, CheckEnabled, CheckDisabled, SilentInitRejected, Answer, Goto, NoCall, Initialising
<1>4. CASE SilentInit(c)
  BY <1>4, <1>1 DEF SilentInit, Calls
<1>5. CASE Evaluate(c) \/ EvaluateFlag(c) \/ Record(c)
  BY <1>5 DEF Evaluate, EvaluateFlag, Record, Finish, Answer, Goto, NoCall, Initialising, calls
<1>6. CASE Report(c)
  BY <1>6 DEF Report, Answer, Return, NoCall, Initialising
<1>7. CASE DefaultEntity(c)
  <2>1. call'[c].number \in {0, call[c].number}
    <3>1. CASE Finish(c, "notRecorded")
      BY <3>1 DEF Finish, Answer, NoCall
    <3>2. CASE \E who : call' = [call EXCEPT ![c].arg = who]
      BY <3>2 DEF Calls
    <3> QED BY <1>7, <3>1, <3>2 DEF DefaultEntity
  <2>2. begun' = begun /\ ~Initialising(c)'
    BY <1>7 DEF DefaultEntity, Finish, Answer, Goto, Initialising
  <2> QED BY <2>1, <2>2
<1> QED BY <1>2, <1>3, <1>4, <1>5, <1>6, <1>7 DEF UseStep, Silent, Use

(* Without overlap the others are not at a place of Shutdown or Init when a    *)
(* control call takes a step, so its own place decides.                        *)
LEMMA ControlAlone ==
  ASSUME TypeOK, Alone, ~overlapped, NEW c \in Callers, ControlStep(c)
  PROVE  /\ \A d \in Callers : d # c => pc'[d] = pc[d] /\ call'[d] = call[d] /\ pc[d] \notin Torn
                                        /\ pc[d] \notin Control
         /\ Serving' <=> pc'[c] \notin Torn
         /\ Serving <=> pc[c] \notin Torn
<1>1. Torn \subseteq Control /\ pc[c] \in Control
  BY ControlIsControl DEF Torn, Control
<1>2. \A d \in Callers : d # c => pc'[d] = pc[d] /\ call'[d] = call[d] /\ pc[d] \notin Control
  BY <1>1, OwnCall DEF Alone
<1> QED BY <1>1, <1>2 DEF Serving

(* Each part of the invariant, step by step.                                   *)
LEMMA OwnPushStep ==
  ASSUME TypeOK, OwnPush, [Next]_vars
  PROVE  OwnPush'
<1> USE DEF TypeOK, ClientTypes
<1>1. ASSUME NEW c \in Callers, CallStep(c) \/ UseStep(c) PROVE OwnPush'
  BY <1>1, UsesOnlyRead DEF OwnPush, clients
<1>2. ASSUME NEW c \in Callers, ControlStep(c) PROVE OwnPush'
  <2>1. UNCHANGED <<callback, pushed>> /\ \A n \in Inits : client'[n] = "none" => client[n] = "none"
    BY <1>2 DEF ControlStep, Shutdown, TearDown, StopIngester, InitLock, Fetch, FetchFails,
                FetchSucceeds, FetchNull, Connect, SetEntity, clients
  <2> QED BY <2>1 DEF OwnPush
<1>3. ASSUME NEW n \in Inits, CallbackStep(n) PROVE OwnPush'
  <2>1. CASE Push(n)
    BY <2>1 DEF Push, OwnPush
  <2>2. CASE Callback(n)
    <3>1. /\ client' = client /\ callback[n] # "none"
          /\ \A m \in Inits : /\ callback'[m] = "none" => callback[m] = "none" \/ m = n
                              /\ m # n => callback'[m] = callback[m]
                              /\ pushed'[m] \in {pushed[m], Nil}
      BY <2>2 DEF Callback, PushSetConfig, PushShutdown, PushActivate, Step
    <3> QED BY <3>1 DEF OwnPush
  <2> QED BY <1>3, <2>1, <2>2 DEF CallbackStep
<1>4. CASE UNCHANGED vars
  BY <1>4 DEF OwnPush, vars, clients
<1> QED BY <1>1, <1>2, <1>3, <1>4, NextSplit

LEMMA FreshStep ==
  ASSUME LockInv, Alone, Fresh, [Next]_vars
  PROVE  Fresh'
<1> USE DEF LockInv, TypeOK, ClientTypes, OtherTypes
<1>0. /\ begun \in Nat
      /\ \A n \in Inits : n \in Nat
      /\ \A c \in Callers : call[c].number \in Nat
  BY NumbersAssumption DEF NumbersAssumption, Inits, Ingesters, CallTypes, Calls
<1>1. ASSUME NEW c \in Callers, CallStep(c) \/ UseStep(c) PROVE Fresh'
  <2>1. client' = client /\ (overlapped => overlapped')
    BY <1>1, UsesOnlyRead DEF clients
  <2>2. begun' \in {begun, begun + 1} /\ sse' = sse
    BY <1>1, UseNumbers, UsesOnlyRead DEF fields
  <2>3. /\ \A n \in Inits : client'[n] # "none" => n <= begun'
        /\ sse' # Nil => client'[sse'] # "none"
    BY <1>0, <2>1, <2>2 DEF Fresh
  <2>4. \A d \in Callers : d # c => pc'[d] = pc[d] /\ call'[d] = call[d]
    BY <1>1, OwnCall
  <2>5. ASSUME NEW d \in Callers, d # c
        PROVE  /\ call'[d].number <= begun'
               /\ Initialising(d)' /\ ~overlapped' => client'[call'[d].number] = "none"
    BY <1>0, <2>1, <2>2, <2>4, <2>5 DEF Fresh, Initialising
  <2>6. CASE call'[c].number = begun' /\ begun' = begun + 1 /\ begun' \in Inits
    <3>1. client[begun + 1] = "none"
      BY <1>0, <2>6 DEF Fresh
    <3>2. call'[c].number <= begun' /\ client'[call'[c].number] = "none"
      BY <1>0, <2>1, <2>6, <3>1
    <3> QED BY <2>3, <2>5, <3>2 DEF Fresh
  <2>7. CASE call'[c].number \in {0, call[c].number} /\ ~Initialising(c)'
    <3>1. call'[c].number <= begun'
      BY <1>0, <2>2, <2>7 DEF Fresh
    <3> QED BY <2>3, <2>5, <2>7, <3>1 DEF Fresh
  <2> QED BY <1>1, <2>6, <2>7, UseNumbers
<1>2. ASSUME NEW c \in Callers, ControlStep(c) PROVE Fresh'
  <2>1. begun' = begun /\ overlapped' = overlapped
    BY <1>2, ControlIsControl DEF ControlStep, Shutdown, TearDown, StopIngester, InitLock, Fetch,
            FetchFails, FetchSucceeds, FetchNull, Connect, SetEntity
  <2>2. /\ call'[c].number \in {0, call[c].number}
        /\ Initialising(c)' => call'[c].number = call[c].number /\ Initialising(c) /\ ~Connect(c)
    <3> USE DEF CallTypes
    <3>1. CASE TearDown(c) \/ InitLock(c)
      BY <3>1 DEF TearDown, InitLock, Goto, Initialising, Connect
    <3>2. CASE StopIngester(c)
      BY <3>2 DEF StopIngester, Goto, Answer, Return, NoCall, Initialising, Connect
    <3>3. CASE FetchFails(c)
      <4>1. call'[c].number \in {0, call[c].number} /\ pc'[c] \in {"fetch", "idle", "notInitialized"}
        BY <3>3 DEF FetchFails, FailInit, Goto, Answer, Return, NoCall, Calls
      <4>2. pc'[c] = "fetch" => call'[c].number = call[c].number
        BY <3>3 DEF FetchFails, FailInit, Goto, Answer, Return, Calls
      <4> QED BY <3>3, <4>1, <4>2 DEF FetchFails, Initialising, Connect
    <3>4. CASE FetchSucceeds(c) \/ FetchNull(c)
      BY <3>4 DEF FetchSucceeds, FetchNull, Goto, Initialising, Connect, calls
    <3>5. CASE Connect(c) \/ SetEntity(c)
      BY <3>5 DEF Connect, SetEntity, Goto, Answer, Return, NoCall, Initialising
    <3> QED BY <1>2, <3>1, <3>2, <3>3, <3>4, <3>5 DEF ControlStep, Shutdown, Fetch
  <2>3. \A d \in Callers : d # c => pc'[d] = pc[d] /\ call'[d] = call[d]
    BY <1>2, OwnCall
  <2>4. \A d \in Callers : call'[d].number <= begun'
    BY <1>0, <2>1, <2>2, <2>3 DEF Fresh
  <2>5. CASE ~Connect(c)
    <3>1. \A n \in Inits : client'[n] # "none" => client[n] # "none"
      <4>1. CASE TearDown(c)
        BY <4>1 DEF TearDown, Fresh
      <4>2. CASE ~TearDown(c)
        BY <1>2, <2>5, <4>2 DEF ControlStep, Shutdown, StopIngester, InitLock, Fetch, FetchFails,
               FetchSucceeds, FetchNull, SetEntity, clients
      <4> QED BY <4>1, <4>2
    <3>2. \A d \in Callers : Initialising(d)' => call'[d].number = call[d].number /\ Initialising(d)
      BY <2>2, <2>3 DEF Initialising
    <3>3. \A d \in Callers : Initialising(d) => call[d].number \in Inits
      BY DEF Numbered, Initialising
    <3>4. sse' # Nil => sse' = sse /\ client'[sse'] = client[sse]
      BY <1>2, <2>5 DEF ControlStep, Shutdown, TearDown, StopIngester, InitLock, Fetch, FetchFails,
             FetchSucceeds, FetchNull, SetEntity, clients, fields
    <3> QED BY <2>1, <2>4, <3>1, <3>2, <3>3, <3>4 DEF Fresh
  <2>6. CASE Connect(c)
    <3>1. call[c].number \in Inits /\ call[c].number <= begun
      BY <2>6 DEF Connect, Numbered, Fresh
    <3>2. /\ \A n \in Inits : client'[n] # "none" => n <= begun'
          /\ client'[sse'] # "none"
      BY <2>1, <2>6, <3>1 DEF Connect, Fresh
    <3>3. \A d \in Callers : ~overlapped => ~Initialising(d)' \/ (d # c /\ pc[d] = "tearDown")
      BY <1>2, <2>2, <2>3, <2>6, ControlAlone DEF Initialising, Torn
    <3>4. \A d \in Callers : ~overlapped /\ d # c => pc[d] # "tearDown"
      BY <1>2, ControlAlone DEF Control
    <3> QED BY <2>1, <2>4, <3>2, <3>3, <3>4 DEF Fresh
  <2> QED BY <2>5, <2>6
<1>3. ASSUME NEW n \in Inits, CallbackStep(n) PROVE Fresh'
  <2>1. UNCHANGED <<client, begun>>
    BY <1>3 DEF CallbackStep, Push, Callback, PushSetConfig, PushShutdown, PushActivate
  <2> QED BY <1>3, <2>1, CallbackFrame DEF Fresh, Initialising, calls, fields
<1>4. CASE UNCHANGED vars
  BY <1>4 DEF Fresh, Initialising, vars, calls, clients, fields, history
<1> QED BY <1>1, <1>2, <1>3, <1>4, NextSplit

LEMMA OneClientStep ==
  ASSUME LockInv, Alone, Down, Fresh, OneClient, [Next]_vars
  PROVE  OneClient'
<1> USE DEF LockInv, TypeOK
<1>1. ASSUME NEW c \in Callers, CallStep(c) \/ UseStep(c) PROVE OneClient'
  <2>1. UNCHANGED <<client, enabled, ingester, sse>> /\ (overlapped => overlapped')
    BY <1>1, UsesOnlyRead DEF clients, fields
  <2> QED BY <1>1, <2>1, UseKeepsServing DEF OneClient, Torn
<1>2. ASSUME NEW c \in Callers, ControlStep(c), crash = "none", ~overlapped PROVE OneClient'
  <2>1. /\ \A d \in Callers : d # c => pc'[d] = pc[d] /\ call'[d] = call[d] /\ pc[d] \notin Torn
        /\ Serving' <=> pc'[c] \notin Torn
        /\ Serving <=> pc[c] \notin Torn
        /\ overlapped' = overlapped
    BY <1>2, ControlAlone, ControlIsControl
  <2> SUFFICES /\ \A n \in Inits : client'[n] = "live" <=> sse' = n
               /\ pc'[c] \in Torn => sse' = Nil
               /\ pc'[c] \in {"fetch", "activate"} => ingester' = call'[c].number
               /\ pc'[c] = "activate" => enabled'
               /\ pc'[c] \notin Torn =>
                    IF enabled' THEN sse' # Nil /\ ingester' = sse' ELSE sse' = Nil
    BY <2>1 DEF OneClient, Torn
  <2>2. CASE TearDown(c)
    <3>1. Nil \notin Inits
      BY NilAssumption, NumbersAssumption DEF NilAssumption, NumbersAssumption, Inits, Ingesters
    <3> QED BY <1>2, <2>2, <3>1 DEF TearDown, Goto, OneClient, Torn, CallTypes, ClientTypes, FieldTypes
  <2>3. CASE StopIngester(c)
    BY <1>2, <2>3
       DEF StopIngester, Goto, Answer, Return, OneClient, Torn, CallTypes, Down, fields, clients
  <2>4. CASE InitLock(c)
    BY <1>2, <2>4 DEF InitLock, Goto, OneClient, Torn, CallTypes, clients
  <2>5. CASE FetchFails(c)
    <3>1. /\ UNCHANGED <<client, enabled, ingester, sse>> /\ pc[c] = "fetch"
          /\ pc'[c] = "fetch" => call'[c].number = call[c].number
          /\ pc'[c] \in {"fetch", "idle", "notInitialized"}
      BY <2>5 DEF FetchFails, FailInit, Goto, Answer, Return, fields, clients, CallTypes, Calls
    <3> QED BY <1>2, <3>1 DEF OneClient, Torn, Down
  <2>6. CASE FetchSucceeds(c) \/ FetchNull(c)
    BY <1>2, <2>6 DEF FetchSucceeds, FetchNull, Goto, OneClient, Torn, CallTypes, calls, clients
  <2>7. CASE Connect(c)
    <3>1. /\ pc[c] = "activate" /\ call[c].number \in Inits /\ call[c].number # Nil
          /\ sse = Nil /\ ingester = call[c].number /\ enabled /\ Nil \notin Inits
      BY <1>2, <2>7, NilAssumption, NumbersAssumption
         DEF Connect, OneClient, Torn, Numbered, NilAssumption, NumbersAssumption, Inits, Ingesters
    <3>2. /\ pc'[c] \notin Torn /\ sse' = call[c].number /\ UNCHANGED <<enabled, ingester>>
      BY <2>7 DEF Connect, Goto, Answer, Return, Torn, CallTypes
    <3>3. \A n \in Inits : client'[n] = "live" <=> sse' = n
      BY <1>2, <2>7, <3>1 DEF Connect, OneClient, ClientTypes
    <3> QED BY <3>1, <3>2, <3>3 DEF Torn
  <2>8. CASE SetEntity(c)
    <3>1. /\ pc[c] \notin Torn /\ pc'[c] \notin Torn
          /\ UNCHANGED <<client, sse, enabled>> /\ (ingester # Nil => ingester' = ingester)
      BY <2>8 DEF SetEntity, Answer, Return, Torn, CallTypes, clients
    <3> QED BY <1>2, <2>1, <3>1 DEF OneClient, Torn
  <2> QED BY <1>2, <2>2, <2>3, <2>4, <2>5, <2>6, <2>7, <2>8 DEF ControlStep, Shutdown, Fetch
<1>3. ASSUME NEW n \in Inits, CallbackStep(n) PROVE OneClient'
  <2>1. client' = client
    BY <1>3 DEF CallbackStep, Push, Callback, PushSetConfig, PushShutdown, PushActivate
  <2> QED BY <1>3, <2>1, CallbackFrame DEF OneClient, Serving, fields, calls
<1>4. CASE UNCHANGED vars
  BY <1>4 DEF OneClient, Serving, vars, fields, clients, calls, history
<1>5. ASSUME NEW c \in Callers, ControlStep(c), overlapped PROVE OneClient'
  BY <1>5, ControlIsControl DEF OneClient
<1> QED BY <1>1, <1>2, <1>3, <1>4, <1>5, NextSplit

LEMMA CleanStep ==
  ASSUME LockInv, Alone, Down, OneClient, Clean, crash = "none", Next
  PROVE  Clean'
<1> USE DEF LockInv, TypeOK
<1>1. ASSUME NEW c \in Callers, CallStep(c) \/ UseStep(c) PROVE Clean'
  <2>1. UNCHANGED <<enabled, configuration, isActive, late>> /\ (overlapped => overlapped')
    BY <1>1, UsesOnlyRead, UseStays DEF core, recorder, fields
  <2> QED BY <1>1, <2>1, UseKeepsServing DEF Clean, Torn
<1>2. ASSUME NEW c \in Callers, ControlStep(c), ~overlapped, ~late' PROVE Clean'
  <2>1. /\ \A d \in Callers : d # c => pc'[d] = pc[d] /\ call'[d] = call[d] /\ pc[d] \notin Torn
        /\ Serving' <=> pc'[c] \notin Torn
        /\ Serving <=> pc[c] \notin Torn
        /\ overlapped' = overlapped
    BY <1>2, ControlAlone, ControlIsControl
  <2> SUFFICES /\ pc'[c] \in {"stop", "initLock", "fetch"} => configuration' = Nil
               /\ pc'[c] \in {"initLock", "fetch"} => ~isActive'
               /\ pc'[c] = "activate" => configuration' = [init |-> call'[c].number, number |-> 0]
               /\ pc'[c] \notin Torn /\ ~enabled' => configuration' = Nil /\ ~isActive'
    BY <2>1 DEF Clean, Torn
  <2>2. CASE TearDown(c)
    BY <1>2, <2>2 DEF TearDown, Goto, Torn, CallTypes
  <2>3. CASE ~TearDown(c)
    <3>1. ~late
      BY <1>2, <2>3 DEF ControlStep, Shutdown, StopIngester, InitLock, Fetch, FetchFails,
             FetchSucceeds, FetchNull, Connect, SetEntity, history
    <3>2. CASE StopIngester(c)
      BY <1>2, <3>1, <3>2 DEF StopIngester, Goto, Answer, Return, Clean, Torn, CallTypes, core
    <3>3. CASE InitLock(c)
      BY <1>2, <3>1, <3>3 DEF InitLock, Goto, Clean, Torn, CallTypes, core
    <3>4. CASE FetchFails(c)
      <4>1. /\ UNCHANGED <<configuration, isActive>> /\ pc[c] = "fetch"
            /\ pc'[c] \in {"fetch", "idle", "notInitialized"}
        BY <3>4 DEF FetchFails, FailInit, Goto, Answer, Return, core, recorder, CallTypes
      <4> QED BY <1>2, <3>1, <4>1 DEF Clean, Torn
    <3>5. CASE FetchSucceeds(c)
      BY <1>2, <3>1, <3>5 DEF FetchSucceeds, Goto, Torn, CallTypes
    <3>6. CASE FetchNull(c)
      BY <1>2, <3>1, <3>6 DEF FetchNull, Clean, Torn, core, recorder, calls
    <3>7. CASE Connect(c)
      <4>1. enabled' /\ pc'[c] \in {"idle", "use"}
        BY <1>2, <3>7 DEF Connect, Goto, Answer, Return, OneClient, CallTypes
      <4> QED BY <4>1 DEF Torn
    <3>8. CASE SetEntity(c)
      <4>1. /\ UNCHANGED <<configuration, isActive, enabled>>
            /\ pc[c] \notin Torn /\ pc'[c] = "idle"
        BY <3>8 DEF SetEntity, Answer, Return, Torn, CallTypes
      <4> QED BY <1>2, <2>1, <3>1, <4>1 DEF Clean, Torn
    <3> QED BY <1>2, <2>3, <3>2, <3>3, <3>4, <3>5, <3>6, <3>7, <3>8 DEF ControlStep, Shutdown, Fetch
  <2> QED BY <2>2, <2>3
<1>3. ASSUME NEW n \in Inits, CallbackStep(n), ~overlapped, ~late' PROVE Clean'
  <2>1. UNCHANGED <<pc, call, enabled, overlapped>>
    BY <1>3, CallbackFrame DEF calls, fields
  <2>2. CASE Push(n)
    BY <2>1, <2>2 DEF Push, Clean, Serving, core, recorder, history
  <2>3. CASE Callback(n)
    <3>1. ~late /\ Current(n)
      BY <1>3, <2>3 DEF Callback, PushSetConfig, PushShutdown, PushActivate, Step
    <3>2. enabled /\ \A c \in Callers : pc[c] \notin Torn
      BY <1>3, <3>1, NilAssumption, NumbersAssumption
         DEF Current, OneClient, NilAssumption, NumbersAssumption, Inits, Ingesters
    <3> QED BY <2>1, <3>2 DEF Clean, Torn
  <2> QED BY <1>3, <2>2, <2>3 DEF CallbackStep
<1>4. ASSUME NEW c \in Callers, ControlStep(c), overlapped PROVE Clean'
  BY <1>4, ControlIsControl DEF Clean
<1>5. ASSUME NEW n \in Inits, CallbackStep(n), overlapped PROVE Clean'
  BY <1>5, CallbackFrame DEF Clean
<1>6. late' => Clean'
  BY DEF Clean
<1> QED BY <1>1, <1>2, <1>3, <1>4, <1>5, <1>6, NextSplit

(* What a callback of the client does to the configuration of the core and of  *)
(* the ingester.                                                               *)
LEMMA CallbackMakesWhole ==
  ASSUME TypeOK, OwnPush, Whole, NEW n \in Inits, Callback(n), Current(n),
         crash = "none", crash' = "none", Serving, enabled, ~overlapped, ~late
  PROVE  /\ url' = n
         /\ configuration' # Nil => configuration'.init = n
         /\ callback'[n] \in {"none", "setConfig"} => isActive' /\ sdkConfig' = configuration'
         /\ callback'[n] \in {"shutdown", "activate"} => configuration' = pushed'[n]
<1> USE DEF TypeOK, ClientTypes, Current, Whole, Step
<1>1. CASE PushSetConfig(n)
  BY <1>1 DEF PushSetConfig, OwnPush, recorder
<1>2. CASE PushShutdown(n)
  BY <1>2 DEF PushShutdown, core
<1>3. CASE PushActivate(n)
  <2>1. pushed[n] # Nil /\ Activate(n, pushed[n])
    BY <1>3 DEF PushActivate
  <2> QED BY <1>3, <2>1 DEF PushActivate, Activate, core
<1> QED BY <1>1, <1>2, <1>3 DEF Callback

LEMMA WholeStep ==
  ASSUME LockInv, Alone, Down, OwnPush, Fresh, OneClient, Clean, Whole, crash = "none", Next
  PROVE  Whole'
<1> USE DEF LockInv, TypeOK
<1>1. ASSUME NEW c \in Callers, CallStep(c) \/ UseStep(c) PROVE Whole'
  <2>1. /\ UNCHANGED <<enabled, sse, configuration, isActive, url, sdkConfig, callback, pushed, late>>
        /\ overlapped => overlapped'
    BY <1>1, UsesOnlyRead, UseStays DEF core, recorder, fields, clients
  <2> QED BY <1>1, <2>1, UseKeepsServing DEF Whole
<1>2. ASSUME NEW c \in Callers, ControlStep(c), ~overlapped, ~late', Serving', enabled' PROVE Whole'
  <2>1. /\ Serving' <=> pc'[c] \notin Torn
        /\ Serving <=> pc[c] \notin Torn
        /\ overlapped' = overlapped
    BY <1>2, ControlAlone, ControlIsControl
  <2>2. CASE Connect(c)
    <3>1. /\ pc[c] = "activate" /\ call[c].number \in Inits /\ ~late
          /\ configuration = [init |-> call[c].number, number |-> 0]
          /\ client[call[c].number] = "none"
      BY <1>2, <2>2 DEF Connect, Clean, Fresh, Initialising, Numbered, history
    <3>2. /\ sse' = call[c].number /\ configuration' = configuration /\ isActive'
          /\ url' = call[c].number /\ sdkConfig' = configuration /\ callback' = callback
      BY <2>2, <3>1 DEF Connect, Activate, core
    <3>3. callback'[sse'] = "none"
      BY <3>1, <3>2 DEF OwnPush
    <3>4. configuration.init = call[c].number
      BY <3>1
    <3> QED BY <3>2, <3>3, <3>4 DEF Whole
  <2>3. CASE SetEntity(c)
    <3>1. UNCHANGED <<enabled, sse, configuration, isActive, url, sdkConfig, callback, pushed, late>>
      BY <2>3 DEF SetEntity, clients, history
    <3>2. pc[c] \notin Torn
      BY <2>3 DEF SetEntity, Torn
    <3> QED BY <1>2, <2>1, <3>1, <3>2 DEF Whole
  <2>4. CASE Shutdown(c) \/ InitLock(c)
    <3>1. pc'[c] \in Torn \/ ~enabled'
      BY <1>2, <2>4 DEF Shutdown, TearDown, StopIngester, InitLock, Goto, Down, CallTypes, Torn, fields
    <3> QED BY <1>2, <2>1, <3>1
  <2>5. CASE FetchFails(c)
    BY <1>2, <2>5 DEF FetchFails, Down, fields
  <2>6. CASE FetchSucceeds(c) \/ FetchNull(c)
    <3>1. pc'[c] \in Torn
      BY <2>6 DEF FetchSucceeds, FetchNull, Goto, Torn, CallTypes, calls
    <3> QED BY <1>2, <2>1, <3>1
  <2> QED BY <1>2, <2>2, <2>3, <2>4, <2>5, <2>6 DEF ControlStep, Fetch
<1>3. ASSUME NEW n \in Inits, CallbackStep(n), ~overlapped, ~late', Serving', enabled', crash' = "none"
      PROVE  Whole'
  <2>1. UNCHANGED <<pc, enabled, sse, overlapped>> /\ (Serving' <=> Serving)
    BY <1>3, CallbackFrame DEF calls, fields, Serving
  <2>2. CASE Push(n)
    <3>1. UNCHANGED <<url, configuration, isActive, sdkConfig, late>>
      BY <2>2 DEF Push, core, recorder, history
    <3>2. /\ callback[n] = "none" /\ callback'[n] = "setConfig"
          /\ \A m \in Inits : m # n => callback'[m] = callback[m] /\ pushed'[m] = pushed[m]
      BY <2>2 DEF Push, ClientTypes
    <3>3. sse \in Inits
      BY <1>3, <2>1 DEF OneClient, FieldTypes
    <3> QED BY <1>3, <2>1, <3>1, <3>2, <3>3 DEF Whole
  <2>3. CASE Callback(n)
    <3>1. ~late /\ Current(n)
      BY <1>3, <2>3 DEF Callback, PushSetConfig, PushShutdown, PushActivate, Step
    <3> QED BY <1>3, <2>1, <2>3, <3>1, CallbackMakesWhole DEF Whole, Current
  <2> QED BY <1>3, <2>2, <2>3 DEF CallbackStep
<1>4. ASSUME NEW c \in Callers, ControlStep(c), overlapped PROVE Whole'
  BY <1>4, ControlIsControl DEF Whole
<1>5. ASSUME NEW n \in Inits, CallbackStep(n), overlapped PROVE Whole'
  BY <1>5, CallbackFrame DEF Whole
<1>6. late' \/ ~Serving' \/ ~enabled' \/ crash' # "none" => Whole'
  BY DEF Whole
<1> QED BY <1>1, <1>2, <1>3, <1>4, <1>5, <1>6, NextSplit

LEMMA SettleInit == ASSUME Init PROVE SettleInv
<1>1. ServedInv /\ TypeOK
  BY ServedInit DEF ServedInv, LockInv
<1>2. Nil \notin Inits
  BY NilAssumption, NumbersAssumption DEF NilAssumption, NumbersAssumption, Inits, Ingesters
<1>3. OwnPush /\ Fresh
  BY DEF Init, OwnPush, Fresh, Initialising, NoCall
<1>4. OneClient /\ Clean /\ Whole
  BY <1>2 DEF Init, OneClient, Clean, Whole, Torn
<1> QED BY <1>1, <1>3, <1>4 DEF SettleInv

LEMMA SettleStep == ASSUME SettleInv, [Next]_vars PROVE SettleInv'
<1>1. ServedInv' /\ OwnPush' /\ Fresh' /\ OneClient'
  BY ServedStep, OwnPushStep, FreshStep, OneClientStep DEF SettleInv, ServedInv, LockInv
<1>2. Clean' /\ Whole'
  <2>1. CASE Next
    <3>1. crash = "none"
      BY <2>1, NextSplit
    <3> QED BY <2>1, <3>1, CleanStep, WholeStep DEF SettleInv, ServedInv
  <2>2. CASE UNCHANGED vars
    BY <2>2 DEF SettleInv, Clean, Whole, Serving, vars, fields, core, recorder, clients, calls, history
  <2> QED BY <2>1, <2>2
<1> QED BY <1>1, <1>2 DEF SettleInv

LEMMA Settles == Spec => []SettleInv
  BY SettleInit, SettleStep, PTL DEF Spec

(* When control calls do not overlap and no callback of a former client has    *)
(* acted, a Shutdown, and an Init whose configuration did not come, leave no   *)
(* configuration, no active ingester and no connected client (flagger.go       *)
(* 59-103 and 135-154).                                                        *)
THEOREM ShutdownLeavesNothing == Spec => []ShutdownIsComplete
<1>1. SettleInv => ShutdownIsComplete
  <2> SUFFICES ASSUME SettleInv, Settled, ~enabled
               PROVE  configuration = Nil /\ ~isActive /\ \A n \in Inits : client[n] # "live"
    BY DEF ShutdownIsComplete
  <2>1. Serving
    BY DEF Settled, Serving, Torn, Control
  <2>2. configuration = Nil /\ ~isActive /\ sse = Nil
    BY <2>1 DEF SettleInv, Settled, OneClient, Clean
  <2>3. Nil \notin Inits
    BY NilAssumption, NumbersAssumption DEF NilAssumption, NumbersAssumption, Inits, Ingesters
  <2> QED BY <2>2, <2>3 DEF SettleInv, Settled, OneClient
<1> QED BY <1>1, Settles, PTL

(* Under the same conditions an initialised Flagger is of one initialisation:  *)
(* its ingester, its URL, its only client, its configuration, and between two  *)
(* callbacks the ingester's SDK configuration is the core's (flagger.go        *)
(* 59-103, and the callback at 93-97).                                         *)
THEOREM OneInitialisation == Spec => []InitialisationIsWhole
<1>1. SettleInv => InitialisationIsWhole
  <2> SUFFICES ASSUME SettleInv, Settled, enabled
               PROVE  /\ {n \in Inits : client[n] = "live"} = {sse}
                      /\ ingester = sse /\ url = sse
                      /\ configuration # Nil => configuration.init = sse
                      /\ (\A n \in Inits : callback[n] = "none") => isActive /\ sdkConfig = configuration
    BY DEF InitialisationIsWhole
  <2>1. Serving
    BY DEF Settled, Serving, Torn, Control
  <2>2. /\ sse \in Inits /\ ingester = sse
        /\ \A n \in Inits : client[n] = "live" <=> sse = n
    BY <2>1 DEF SettleInv, Settled, OneClient, ServedInv, LockInv, TypeOK, FieldTypes
  <2>3. /\ url = sse
        /\ configuration # Nil => configuration.init = sse
        /\ callback[sse] \in {"none", "setConfig"} => isActive /\ sdkConfig = configuration
    BY <2>1 DEF SettleInv, Settled, Whole
  <2> QED BY <2>2, <2>3
<1> QED BY <1>1, Settles, PTL
================================================================================
