-------------------------------- MODULE Flagger --------------------------------
(* The life of Flagger (flagger.go): Init, silentInit, Shutdown, SetEntity, the*)
(* flag functions, Track and Publish under flagger.mux, and the callback of    *)
(* each SSE client, which runs in its client's goroutine without the mutex.    *)
(* The core is a configuration and an entity (Core has its detail), the        *)
(* ingester (ingester.go) a default entity and the strategy's isActive, url    *)
(* and sdkConfig (GroupStrategy has the rest).                                 *)
(*                                                                            *)
(* Initialisations are numbered; number n names the ingester, the SSE client   *)
(* and the arguments of the n-th, and 0 the ingester SetEntity makes when      *)
(* there is none.  An ingester that Init replaces is out of reach from then on *)
(* (if a callback has activated it since, its worker runs on: "leaked"), so    *)
(* only the state of the current one is kept.  A caller may pass a waiting     *)
(* writer here, which Go's mutex would not let it.  Waiting for the last       *)
(* requests takes time and changes nothing here, so the end of a Shutdown is   *)
(* one step.                                                                   *)
EXTENDS Integers, FiniteSets

CONSTANTS Users,        \* goroutines that call flag functions, Track and Publish
          Controllers,  \* goroutines that call Init, Shutdown and SetEntity
          Entities,     \* escaped entities
          Nil,
          DefaultAttemptsConnection,
          MaxInits,     \* bound on the number of initialisations
          MaxPushes     \* bound on the configurations one SSE client brings

Callers == Users \cup Controllers

ASSUME NumbersAssumption == /\ DefaultAttemptsConnection \in Nat
                            /\ MaxInits \in Nat /\ MaxPushes \in Nat

Inits     == 1..MaxInits
Ingesters == 0..MaxInits
Uses      == {"flag", "track", "publish"}

(* A configuration: the initialisation it belongs to and, within it, the one   *)
(* fetched (0) or the n-th brought by the SSE client.                          *)
Configurations == [init : Inits, number : 0..MaxPushes]

ASSUME NilAssumption == /\ Nil \notin Callers \cup Entities \cup Ingesters
                        /\ Nil \notin Configurations

VARIABLES
  writer, readers,                       \* flagger.mux
  enabled, ingester, sse,                \* fields of Flagger
  configuration, entity,                 \* fields of flagger.core
  default, isActive, url, sdkConfig,     \* fields of flagger.ingester
  leaked,                                \* has an active ingester been replaced?
  client, pushes, callback, pushed,      \* by SSE client: its state, what it has
                                         \* brought, where its callback is, its v
  pc, call,                              \* by caller: where it is, and its call
  begun,                                 \* initialisations begun
  crash,                                 \* who dereferenced nil, which ends the process
  overlapped,   \* history: have control calls overlapped?
  late          \* history: has a callback of a former client acted since the
                \* last Shutdown began?

mux       == <<writer, readers>>
fields    == <<enabled, ingester, sse>>
core      == <<configuration, entity>>
recorder  == <<default, isActive, url, sdkConfig, leaked>>
clients   == <<client, pushes, callback, pushed>>
calls     == <<pc, call>>
history   == <<overlapped, late>>
vars      == <<mux, fields, core, recorder, clients, calls, begun, crash, history>>

(* A call: the method, the entity given, the number of the initialisation and  *)
(* the attempts to fetch its configuration.                                    *)
NoCall == [op |-> "none", arg |-> Nil, number |-> 0, attempt |-> 0]

Init ==
  /\ writer = Nil /\ readers = {}
  /\ enabled = FALSE /\ ingester = Nil /\ sse = Nil
  /\ configuration = Nil /\ entity = Nil
  /\ default = Nil /\ isActive = FALSE /\ url = 0 /\ sdkConfig = Nil /\ leaked = FALSE
  /\ client = [n \in Inits |-> "none"] /\ pushes = [n \in Inits |-> 0]
  /\ callback = [n \in Inits |-> "none"] /\ pushed = [n \in Inits |-> Nil]
  /\ pc = [c \in Callers |-> "idle"] /\ call = [c \in Callers |-> NoCall]
  /\ begun = 0 /\ crash = "none"
  /\ overlapped = FALSE /\ late = FALSE

(* A call that has its result needs nothing else of what it was given.         *)
Goto(c, l)   == pc' = [pc EXCEPT ![c] = l] /\ UNCHANGED call
Answer(c, l) == pc' = [pc EXCEPT ![c] = l] /\ call' = [call EXCEPT ![c] = NoCall]
Return(c)    == Answer(c, "idle")
CanLock      == writer = Nil /\ readers = {}

Control == {"tearDown", "stop", "initLock", "fetch", "activate", "setEntity"}
BeginControl(c) == overlapped' = (overlapped \/ \E d \in Callers \ {c} : pc[d] \in Control)

BeginInit(c) ==
  /\ begun < MaxInits /\ begun' = begun + 1
  /\ BeginControl(c)

Begin(c, first, fields_) ==
  /\ pc[c] = "idle"
  /\ pc' = [pc EXCEPT ![c] = first]
  /\ call' = [call EXCEPT ![c] = fields_]

--------------------------------------------------------------------------------
(* The calls.  Init with arguments that prepareInitArgs rejects (InitArgs)     *)
(* changes nothing here.  Publish needs an entity.                             *)
CallShutdown(c) ==
  /\ Begin(c, "tearDown", [NoCall EXCEPT !.op = "shutdown"]) /\ BeginControl(c)
  /\ UNCHANGED <<mux, fields, core, recorder, clients, begun, crash, late>>

CallInit(c) ==
  /\ BeginInit(c)
  /\ Begin(c, "tearDown", [NoCall EXCEPT !.op = "init", !.number = begun'])
  /\ UNCHANGED <<mux, fields, core, recorder, clients, crash, late>>

CallSetEntity(c, who) ==
  /\ Begin(c, "setEntity", [NoCall EXCEPT !.op = "setEntity", !.arg = who]) /\ BeginControl(c)
  /\ UNCHANGED <<mux, fields, core, recorder, clients, begun, crash, late>>

CallUse(c, o, who) ==
  /\ o = "publish" => who # Nil
  /\ Begin(c, "checkInitialized", [NoCall EXCEPT !.op = o, !.arg = who])
  /\ UNCHANGED <<mux, fields, core, recorder, clients, begun, crash, history>>

--------------------------------------------------------------------------------
(* Shutdown, called by itself or by Init.  The last step waits for the         *)
(* ingester's requests, or a second, and releases the mutex.                   *)
TearDownConnected(c) ==  \* fault: forgets the client without shutting it down
  /\ pc[c] = "tearDown" /\ CanLock
  /\ writer' = c
  /\ enabled' = FALSE /\ configuration' = Nil /\ entity' = Nil /\ sse' = Nil
  /\ late' = FALSE
  /\ Goto(c, "stop")
  /\ UNCHANGED <<readers, ingester, recorder, clients, begun, crash, overlapped>>

TearDown(c) ==
  /\ pc[c] = "tearDown" /\ CanLock
  /\ writer' = c
  /\ enabled' = FALSE /\ configuration' = Nil /\ entity' = Nil /\ sse' = Nil
  /\ client' = IF sse = Nil THEN client ELSE [client EXCEPT ![sse] = "cancelled"]
  /\ late' = FALSE
  /\ Goto(c, "stop")
  /\ UNCHANGED <<readers, ingester, recorder, pushes, callback, pushed, begun, crash, overlapped>>

StopIngester(c) ==
  /\ pc[c] = "stop"
  /\ isActive' = FALSE
  /\ writer' = Nil
  /\ IF call[c].op = "shutdown" THEN Return(c) ELSE Goto(c, "initLock")
  /\ UNCHANGED <<readers, fields, core, default, url, sdkConfig, leaked, clients, begun, crash, history>>

--------------------------------------------------------------------------------
(* Init, from its second Lock on: a new ingester ...                           *)
InitLock(c) ==
  /\ pc[c] = "initLock" /\ CanLock
  /\ writer' = c
  /\ ingester' = call[c].number
  /\ default' = Nil /\ isActive' = FALSE /\ url' = 0 /\ sdkConfig' = Nil
  /\ leaked' = (leaked \/ isActive)
  /\ Goto(c, "fetch")
  /\ UNCHANGED <<readers, enabled, sse, core, clients, begun, crash, history>>

(* ... the configuration: GetConfiguration makes one attempt more than it is   *)
(* told, first on SourceURL and then on BackupSourceURL (a response that does  *)
(* not decode may leave fields in the pointer the attempts share; what is in a *)
(* configuration is left out here) ...                                         *)
Attempts == 2 * (DefaultAttemptsConnection + 1)

FailInit(c) == IF call[c].op = "init" THEN Return(c) ELSE Answer(c, "notInitialized")

FetchFailsEnabled(c) ==  \* fault: enabled is set before the configuration is there
  /\ pc[c] = "fetch"
  /\ enabled' = TRUE
  /\ IF call[c].attempt + 1 < Attempts
     THEN call' = [call EXCEPT ![c].attempt = @ + 1] /\ UNCHANGED <<writer, pc>>
     ELSE writer' = Nil /\ FailInit(c)
  /\ UNCHANGED <<readers, ingester, sse, core, recorder, clients, begun, crash, history>>

FetchFailsLate(c) ==  \* fault: counts the attempts from one end too far
  /\ pc[c] = "fetch"
  /\ IF call[c].attempt < Attempts
     THEN call' = [call EXCEPT ![c].attempt = @ + 1] /\ UNCHANGED <<writer, pc>>
     ELSE writer' = Nil /\ FailInit(c)
  /\ UNCHANGED <<readers, fields, core, recorder, clients, begun, crash, history>>

FetchFails(c) ==
  /\ pc[c] = "fetch"
  /\ IF call[c].attempt + 1 < Attempts
     THEN call' = [call EXCEPT ![c].attempt = @ + 1] /\ UNCHANGED <<writer, pc>>
     ELSE writer' = Nil /\ FailInit(c)
  /\ UNCHANGED <<readers, fields, core, recorder, clients, begun, crash, history>>

FetchSucceeds(c) ==
  /\ pc[c] = "fetch"
  /\ enabled' = TRUE
  /\ configuration' = [init |-> call[c].number, number |-> 0]
  /\ Goto(c, "activate")
  /\ UNCHANGED <<mux, ingester, sse, entity, recorder, clients, begun, crash, history>>

(* (the response "null" leaves the pointer nil: &configuration.SdkConfig       *)
(* panics)                                                                     *)
FetchNull(c) ==
  /\ pc[c] = "fetch"
  /\ enabled' = TRUE
  /\ crash' = "init"
  /\ UNCHANGED <<mux, ingester, sse, core, recorder, clients, calls, begun, history>>

(* ... and the ingester activated, its empty ingestion sent, a new SSE client  *)
(* connected, the mutex released.  The call that came through silentInit goes  *)
(* on without the mutex.                                                       *)
Activate(n, v) ==
  /\ isActive' = TRUE /\ url' = n /\ sdkConfig' = v
  /\ UNCHANGED <<default, leaked>>

Connect(c) ==
  /\ pc[c] = "activate"
  /\ Activate(call[c].number, [init |-> call[c].number, number |-> 0])
  /\ client' = [client EXCEPT ![call[c].number] = "live"]
  /\ sse' = call[c].number
  /\ writer' = Nil
  /\ IF call[c].op = "init" THEN Return(c) ELSE Goto(c, "use")
  /\ UNCHANGED <<readers, enabled, ingester, core, pushes, callback, pushed, begun, crash, history>>

--------------------------------------------------------------------------------
(* SetEntity, one critical section.                                            *)
SetEntityOfCore(c) ==  \* fault: the ingester keeps its default entity
  /\ pc[c] = "setEntity" /\ CanLock
  /\ entity' = call[c].arg
  /\ ingester' = IF ingester = Nil THEN 0 ELSE ingester
  /\ Return(c)
  /\ UNCHANGED <<mux, enabled, sse, configuration, recorder, clients, begun, crash, history>>

SetEntity(c) ==
  /\ pc[c] = "setEntity" /\ CanLock
  /\ entity' = call[c].arg
  /\ ingester' = IF ingester = Nil THEN 0 ELSE ingester
  /\ default' = call[c].arg
  /\ Return(c)
  /\ UNCHANGED <<mux, enabled, sse, configuration, isActive, url, sdkConfig, leaked, clients, begun, crash, history>>

--------------------------------------------------------------------------------
(* checkFlaggerInitialized.  Not initialised: the read lock is released and    *)
(* silentInit calls Init with what the environment variables hold, which the   *)
(* application may change at any time.                                         *)
CheckEnabled(c) ==
  /\ pc[c] = "checkInitialized" /\ writer = Nil
  /\ enabled
  /\ readers' = readers \cup {c}
  /\ Goto(c, "use")
  /\ UNCHANGED <<writer, fields, core, recorder, clients, begun, crash, history>>

CheckDisabledLocked(c) ==  \* fault: silentInit under the read lock
  /\ pc[c] = "checkInitialized" /\ writer = Nil
  /\ ~enabled
  /\ readers' = readers \cup {c}
  /\ Goto(c, "silentInit")
  /\ UNCHANGED <<writer, fields, core, recorder, clients, begun, crash, history>>

CheckDisabled(c) ==
  /\ pc[c] = "checkInitialized" /\ writer = Nil
  /\ ~enabled
  /\ Goto(c, "silentInit")
  /\ UNCHANGED <<mux, fields, core, recorder, clients, begun, crash, history>>

SilentInit(c) ==
  /\ pc[c] = "silentInit"
  /\ BeginInit(c)
  /\ pc' = [pc EXCEPT ![c] = "tearDown"]
  /\ call' = [call EXCEPT ![c].number = begun']
  /\ UNCHANGED <<mux, fields, core, recorder, clients, crash, late>>

SilentInitRejected(c) ==
  /\ pc[c] = "silentInit"
  /\ Answer(c, "notInitialized")
  /\ UNCHANGED <<mux, fields, core, recorder, clients, begun, crash, history>>

--------------------------------------------------------------------------------
(* The callback a use hands to checkFlaggerInitialized: under the read lock,   *)
(* or without it after silentInit.  It ends by releasing what it holds.        *)
Finish(c, result) ==
  /\ readers' = readers \ {c}
  /\ Answer(c, result)

(* A flag function reads the configuration.  Nothing is recorded of an empty   *)
(* codename; a configuration without flags is recorded at once, for the entity *)
(* given or none.                                                              *)
Evaluate(c) ==
  /\ pc[c] = "use" /\ call[c].op = "flag"
  /\ \/ Finish(c, "notRecorded")
     \/ configuration = Nil /\ Finish(c, "notInitialized")
     \/ configuration # Nil /\ (Goto(c, "record") \/ Goto(c, "entity")) /\ UNCHANGED readers
  /\ UNCHANGED <<writer, fields, core, recorder, clients, begun, crash, history>>

(* Nothing is recorded without an entity, or for one with an empty id.  A flag *)
(* the configuration does not have is recorded without being evaluated.        *)
DefaultEntity(c) ==
  /\ pc[c] = "entity"
  /\ LET who == IF call[c].arg = Nil THEN entity ELSE call[c].arg
     IN  \/ (who = Nil \/ call[c].arg # Nil) /\ Finish(c, "notRecorded")
         \/ /\ who # Nil
            /\ call' = [call EXCEPT ![c].arg = who]
            /\ \E next \in {"evaluateFlag", "record"} : pc' = [pc EXCEPT ![c] = next]
            /\ UNCHANGED readers
  /\ UNCHANGED <<writer, fields, core, recorder, clients, begun, crash, history>>

(* Line 132 of core.go reads the configuration again.                          *)
EvaluateFlag(c) ==
  /\ pc[c] = "evaluateFlag"
  /\ IF configuration # Nil THEN Goto(c, "record") /\ UNCHANGED crash
     ELSE crash' = (IF c \in readers THEN "lockedUse" ELSE "unlockedUse") /\ UNCHANGED calls
  /\ UNCHANGED <<mux, fields, core, recorder, clients, begun, history>>

(* Ingester.PublishExposure, Track and Publish: without an entity the default  *)
(* one is meant, without either nothing is recorded; the strategy takes the    *)
(* data if it is active.                                                       *)
Subject(c) == IF call[c].arg = Nil THEN default ELSE call[c].arg

Record(c) ==
  /\ pc[c] = "record" \/ (pc[c] = "use" /\ call[c].op # "flag")
  /\ Finish(c, IF Subject(c) = Nil THEN "notRecorded"
               ELSE IF isActive THEN "accepted" ELSE "rejected")
  /\ UNCHANGED <<writer, fields, core, recorder, clients, begun, crash, history>>

Outcomes == {"notInitialized", "notRecorded", "accepted", "rejected"}

Report(c) ==
  /\ pc[c] \in Outcomes
  /\ Return(c)
  /\ UNCHANGED <<mux, fields, core, recorder, clients, begun, crash, history>>

--------------------------------------------------------------------------------
(* The SSE client n brings a configuration, or null, for which v is nil; it    *)
(* may have been shut down meanwhile (SSEClient).  The callback reads          *)
(* flagger.ingester twice.                                                     *)
Current(n) == enabled /\ sse = n

Push(n) ==
  /\ client[n] # "none" /\ callback[n] = "none" /\ pushes[n] < MaxPushes
  /\ pushes' = [pushes EXCEPT ![n] = @ + 1]
  /\ \E v \in {Nil, [init |-> n, number |-> pushes'[n]]} : pushed' = [pushed EXCEPT ![n] = v]
  /\ callback' = [callback EXCEPT ![n] = "setConfig"]
  /\ UNCHANGED <<mux, fields, core, recorder, client, calls, begun, crash, history>>

Step(n, from, to) ==
  /\ callback[n] = from
  /\ callback' = [callback EXCEPT ![n] = to]
  /\ late' = (late \/ ~Current(n))

PushSetConfig(n) ==
  /\ Step(n, "setConfig", "shutdown")
  /\ configuration' = pushed[n]
  /\ UNCHANGED <<mux, fields, entity, recorder, client, pushes, pushed, calls, begun, crash, overlapped>>

PushShutdown(n) ==
  /\ Step(n, "shutdown", "activate")
  /\ isActive' = FALSE
  /\ UNCHANGED <<mux, fields, core, default, url, sdkConfig, leaked, client, pushes, pushed, calls, begun, crash, overlapped>>

PushActivateOnly(n) ==  \* fault: the ingester keeps the SDK configuration it had
  /\ Step(n, "activate", "none")
  /\ isActive' = TRUE
  /\ url' = n
  /\ pushed' = [pushed EXCEPT ![n] = Nil]
  /\ UNCHANGED <<mux, fields, core, default, sdkConfig, leaked, client, pushes, calls, begun, crash, overlapped>>

PushActivate(n) ==
  /\ Step(n, "activate", "none")
  /\ IF pushed[n] = Nil
     THEN crash' = "callback" /\ UNCHANGED recorder
     ELSE Activate(n, pushed[n]) /\ UNCHANGED crash
  /\ pushed' = [pushed EXCEPT ![n] = Nil]
  /\ UNCHANGED <<mux, fields, core, client, pushes, calls, begun, overlapped>>

--------------------------------------------------------------------------------
Shutdown(c)   == TearDown(c) \/ StopIngester(c)
Fetch(c)      == FetchFails(c) \/ FetchSucceeds(c) \/ FetchNull(c)
Check(c)      == CheckEnabled(c) \/ CheckDisabled(c)
Silent(c)     == SilentInit(c) \/ SilentInitRejected(c)
Use(c)        == Evaluate(c) \/ DefaultEntity(c) \/ EvaluateFlag(c) \/ Record(c) \/ Report(c)
Callback(n)   == PushSetConfig(n) \/ PushShutdown(n) \/ PushActivate(n)

Next ==
  /\ crash = "none"
  /\ \/ \E c \in Controllers : CallShutdown(c) \/ CallInit(c)
     \/ \E c \in Controllers, who \in Entities \cup {Nil} : CallSetEntity(c, who)
     \/ \E c \in Users, o \in Uses, who \in Entities \cup {Nil} : CallUse(c, o, who)
     \/ \E c \in Callers : Shutdown(c) \/ InitLock(c) \/ Fetch(c) \/ Connect(c) \/ SetEntity(c)
     \/ \E c \in Callers : Check(c) \/ Silent(c) \/ Use(c)
     \/ \E n \in Inits : Push(n) \/ Callback(n)

Spec == Init /\ [][Next]_vars

--------------------------------------------------------------------------------
(* Types of the variables.                                                     *)
Places == Control \cup Outcomes
            \cup {"idle", "checkInitialized", "silentInit", "use", "entity", "evaluateFlag", "record"}

Calls == [op : Uses \cup {"none", "shutdown", "init", "setEntity"},
          arg : Entities \cup {Nil}, number : Ingesters, attempt : 0..(Attempts - 1)]

LockTypes     == writer \in Callers \cup {Nil} /\ readers \subseteq Callers
FieldTypes    == enabled \in BOOLEAN /\ ingester \in Ingesters \cup {Nil} /\ sse \in Inits \cup {Nil}
CoreTypes     == configuration \in Configurations \cup {Nil} /\ entity \in Entities \cup {Nil}
RecorderTypes == /\ default \in Entities \cup {Nil} /\ isActive \in BOOLEAN /\ leaked \in BOOLEAN
                 /\ url \in Ingesters /\ sdkConfig \in Configurations \cup {Nil}
ClientTypes   == /\ client \in [Inits -> {"none", "live", "cancelled"}]
                 /\ pushes \in [Inits -> 0..MaxPushes]
                 /\ callback \in [Inits -> {"none", "setConfig", "shutdown", "activate"}]
                 /\ pushed \in [Inits -> Configurations \cup {Nil}]
CallTypes     == pc \in [Callers -> Places] /\ call \in [Callers -> Calls]
OtherTypes    == /\ begun \in 0..MaxInits
                 /\ crash \in {"none", "init", "callback", "lockedUse", "unlockedUse"}
                 /\ overlapped \in BOOLEAN /\ late \in BOOLEAN

TypeOK == /\ LockTypes /\ FieldTypes /\ CoreTypes /\ RecorderTypes
          /\ ClientTypes /\ CallTypes /\ OtherTypes

(* No control call is under way, none has overlapped another, and no callback  *)
(* of a former client has acted: what the serial use of Flagger promises.      *)
Settled == /\ crash = "none" /\ ~overlapped /\ ~late
           /\ \A c \in Callers : pc[c] \notin Control

(* Shutdown, and an Init that fails, leave no configuration, no active         *)
(* ingester and no connected SSE client behind; an ingester that an Init has   *)
(* replaced while a callback was about to activate it is out of their reach.   *)
ShutdownIsComplete ==
  Settled /\ ~enabled =>
    /\ configuration = Nil
    /\ ~isActive
    /\ \A n \in Inits : client[n] # "live"

(* An initialised Flagger works with one initialisation: its ingester, its     *)
(* URL, its only client, a configuration of its own, and between two callbacks *)
(* the SDK configuration that came with it.                                    *)
InitialisationIsWhole ==
  Settled /\ enabled =>
    /\ {n \in Inits : client[n] = "live"} = {sse}
    /\ ingester = sse /\ url = sse
    /\ configuration # Nil => configuration.init = sse
    /\ (\A n \in Inits : callback[n] = "none") => isActive /\ sdkConfig = configuration

(* Flag functions and Track mean one and the same default entity: that of the  *)
(* core and that of the ingester agree.                                        *)
DefaultEntitiesAgree == Settled /\ enabled => entity = default

(* Under the read lock a use finds a configuration and an active ingester,     *)
(* however Init, Shutdown and the callbacks of old clients interleave, with    *)
(* three exceptions.  An exposure is lost while a callback restarts the        *)
(* ingester, and after an Init that failed has replaced the ingester of one    *)
(* that it overlapped; a null configuration, until its callback has panicked,  *)
(* makes a flag function find none, or panic.                                  *)
Restarting == \E n \in Inits : callback[n] = "activate"
NullPushed == \E n \in Inits : callback[n] \in {"shutdown", "activate"} /\ pushed[n] = Nil

LockedUseIsServed ==
  /\ \A c \in readers : /\ pc'[c] = "rejected" => Restarting \/ overlapped
                        /\ pc'[c] = "notInitialized" => NullPushed
  /\ crash' = "lockedUse" => NullPushed

LockedUsesAreServed == [][LockedUseIsServed]_vars

(* The mutex is held only on the way to its release: nobody waits for it, or   *)
(* returns, with the write or a read lock in hand (flagger.go 202, "unlocking  *)
(* before calling to prevent synchronization"), and a writer is alone.         *)
HoldersProceed ==
  /\ \A c \in Callers : writer = c => pc[c] \in {"stop", "fetch", "activate"} /\ readers = {}
  /\ \A c \in readers : pc[c] \in {"use", "entity", "evaluateFlag", "record"}

(* flagger.go 131: "Shutdown ingests data(if any), stops ingester and closes   *)
(* SSE connection."  Once it has returned no ingester is active, not even one  *)
(* that Init has replaced.                                                     *)
ShutdownStopsIngester ==
  ~enabled /\ (\A c \in Callers : pc[c] = "idle") => ~isActive /\ ~leaked
================================================================================
