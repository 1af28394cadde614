---------------------------------- MODULE Core ----------------------------------
(* The flag core (core/core.go): the current configuration and the default     *)
(* entity, each under core.mux, and EvaluateFlag, which takes the mutex once   *)
(* for the configuration, once more for the default entity, and reads          *)
(* core.configuration a second time, without it, for the hash key.  A call     *)
(* interleaves with everything: the SSE callback sets configurations without   *)
(* flagger.mux, and a flag function that has initialised Flagger silently      *)
(* evaluates without it too, next to any Shutdown and SetEntity.               *)
EXTENDS FlagEvaluation, FiniteSets

CONSTANTS Configurations, \* what SetConfig may be given, besides nil
          Entities,       \* what SetEntity and EvaluateFlag may be given, besides nil
          Codenames,      \* what EvaluateFlag may be asked for
          EmptyCodename, EmptyId, EmptyHashKey, \* the empty string in each of these roles
          Callers         \* goroutines inside EvaluateFlag

VARIABLES configuration, entity,           \* fields of Core
          pc, codename, subject, snapshot, \* a call: where it is, arguments, locals
          result,                          \* what the call returned
          crash,                           \* a nil dereference ends the process
          configs              \* history: what was current during the call

core == <<configuration, entity>>
call == <<codename, subject, snapshot>>
vars == <<core, pc, call, result, crash, configs>>

Unflagged(isNew, reason) ==
  [hashKey |-> EmptyHashKey, enabled |-> FALSE, sampled |-> FALSE, variation |-> Off,
   isNew |-> isNew, reason |-> reason]

NoResult == Unflagged(FALSE, "none")

Init ==
  /\ configuration = Nil /\ entity = Nil
  /\ pc = [c \in Callers |-> "idle"]
  /\ codename = [c \in Callers |-> EmptyCodename]
  /\ subject = [c \in Callers |-> Nil] /\ snapshot = [c \in Callers |-> Nil]
  /\ result = [c \in Callers |-> NoResult]
  /\ crash = FALSE
  /\ configs = [c \in Callers |-> {}]

Calling == {c \in Callers : pc[c] # "idle"}

--------------------------------------------------------------------------------
(* Configuration.Escape, done before the mutex is taken.                       *)
EscapeConfiguration(cfg) ==
  [cfg EXCEPT !.flags = [k \in DOMAIN cfg.flags |->
     [cfg.flags[k] EXCEPT !.subpopulations = [s \in DOMAIN cfg.flags[k].subpopulations |->
        [cfg.flags[k].subpopulations[s] EXCEPT !.filters = EscapeFilters(@)]]]]]

SetConfig(v) ==
  /\ configuration' = IF v = Nil THEN Nil ELSE EscapeConfiguration(v)
  /\ configs' = [c \in Callers |-> IF c \in Calling THEN configs[c] \cup {configuration'} ELSE {}]
  /\ UNCHANGED <<entity, pc, call, result, crash>>

SetEntity(v) ==
  /\ entity' = v
  /\ UNCHANGED <<configuration, pc, call, result, crash, configs>>

--------------------------------------------------------------------------------
(* The part of EvaluateFlag that needs no flag: why a call is answered "off".  *)
Begin(c, name, who) ==
  /\ pc[c] = "idle"
  /\ pc' = [pc EXCEPT ![c] = "begin"]
  /\ codename' = [codename EXCEPT ![c] = name]
  /\ subject' = [subject EXCEPT ![c] = who]
  /\ result' = [result EXCEPT ![c] = NoResult]
  /\ configs' = [configs EXCEPT ![c] = {configuration}]
  /\ UNCHANGED <<core, snapshot, crash>>

Answer(c, r) ==
  /\ result' = [result EXCEPT ![c] = r]
  /\ pc' = [pc EXCEPT ![c] = "return"]

(* Lines 53-96.                                                                *)
Snapshot(c) ==
  /\ pc[c] = "begin"
  /\ snapshot' = [snapshot EXCEPT ![c] = configuration]
  /\ \/ codename[c] = EmptyCodename /\ Answer(c, Unflagged(FALSE, "CodenameIsEmpty"))
     \/ /\ codename[c] # EmptyCodename
        /\ \/ configuration = Nil /\ Answer(c, Unflagged(TRUE, "FlaggerIsNotInitialized"))
           \/ /\ configuration # Nil
              /\ \/ configuration.flags = <<>> /\ Answer(c, Unflagged(TRUE, "ConfigIsEmpty"))
                 \/ /\ configuration.flags # <<>>
                    /\ pc' = [pc EXCEPT ![c] = IF subject[c] = Nil THEN "default" ELSE "subject"]
                    /\ UNCHANGED result
  /\ UNCHANGED <<core, codename, subject, crash, configs>>

(* Lines 98-102.                                                               *)
DefaultEntity(c) ==
  /\ pc[c] = "default"
  /\ subject' = [subject EXCEPT ![c] = entity]
  /\ pc' = [pc EXCEPT ![c] = "subject"]
  /\ UNCHANGED <<core, codename, snapshot, result, crash, configs>>

(* Lines 103-128 and 136-145.                                                  *)
Positions(cfg, name) == {k \in DOMAIN cfg.flags : cfg.flags[k].codename = name}

FlagOf(cfg, name) ==
  cfg.flags[CHOOSE k \in Positions(cfg, name) : \A j \in Positions(cfg, name) : k <= j]

RejectByCurrent(c) ==  \* fault: the flag is looked for in the configuration of this moment
  /\ pc[c] = "subject" /\ subject[c] # Nil /\ subject[c].id # EmptyId
  /\ configuration # Nil /\ Positions(configuration, codename[c]) = {}
  /\ Answer(c, Unflagged(TRUE, "FlagNotInConfig"))
  /\ UNCHANGED <<core, call, crash, configs>>

Reject(c) ==
  /\ pc[c] = "subject"
  /\ \/ subject[c] = Nil /\ Answer(c, Unflagged(FALSE, "NoEntityProvided"))
     \/ /\ subject[c] # Nil
        /\ \/ subject[c].id = EmptyId /\ Answer(c, Unflagged(FALSE, "IDIsEmpty"))
           \/ /\ subject[c].id # EmptyId
              /\ Positions(snapshot[c], codename[c]) = {}
              /\ Answer(c, Unflagged(TRUE, "FlagNotInConfig"))
  /\ UNCHANGED <<core, call, crash, configs>>

(* Line 132: the flag is the snapshot's, the hash key that of the              *)
(* configuration which is current now.                                         *)
HasFlag(c) == /\ pc[c] = "subject"
              /\ subject[c] # Nil
              /\ subject[c].id # EmptyId
              /\ Positions(snapshot[c], codename[c]) # {}

UseDefaultEntity(c) ==  \* fault: the flag is evaluated for the default entity of this moment
  /\ HasFlag(c) /\ configuration # Nil /\ entity # Nil
  /\ Answer(c, Evaluate(configuration.hashKey, FlagOf(snapshot[c], codename[c]), entity))
  /\ UNCHANGED <<core, call, crash, configs>>

EvaluateFlag(c) ==
  /\ HasFlag(c) /\ configuration # Nil
  /\ Answer(c, Evaluate(configuration.hashKey, FlagOf(snapshot[c], codename[c]), subject[c]))
  /\ UNCHANGED <<core, call, crash, configs>>

EvaluateFlagPanics(c) ==
  /\ HasFlag(c) /\ configuration = Nil
  /\ crash' = TRUE
  /\ UNCHANGED <<core, pc, call, result, configs>>

Return(c) ==
  /\ pc[c] = "return"
  /\ pc' = [pc EXCEPT ![c] = "idle"]
  /\ codename' = [codename EXCEPT ![c] = EmptyCodename]
  /\ subject' = [subject EXCEPT ![c] = Nil] /\ snapshot' = [snapshot EXCEPT ![c] = Nil]
  /\ result' = [result EXCEPT ![c] = NoResult]
  /\ configs' = [configs EXCEPT ![c] = {}]
  /\ UNCHANGED <<core, crash>>

--------------------------------------------------------------------------------
Step(c) == \/ Snapshot(c) \/ DefaultEntity(c) \/ Reject(c)
           \/ EvaluateFlag(c) \/ EvaluateFlagPanics(c) \/ Return(c)

Next ==
  /\ ~crash
  /\ \/ \E v \in Configurations \cup {Nil} : SetConfig(v)
     \/ \E v \in Entities \cup {Nil} : SetEntity(v)
     \/ \E c \in Callers : \/ \E name \in Codenames, who \in Entities \cup {Nil} : Begin(c, name, who)
                           \/ Step(c)

Spec == Init /\ [][Next]_vars

--------------------------------------------------------------------------------
(* The outcome of a whole call on one configuration, one hash key and one      *)
(* entity that do not change meanwhile.                                        *)
Outcome(cfg, hashKey, name, who) ==
  IF name = EmptyCodename THEN Unflagged(FALSE, "CodenameIsEmpty")
  ELSE IF cfg = Nil THEN Unflagged(TRUE, "FlaggerIsNotInitialized")
  ELSE IF cfg.flags = <<>> THEN Unflagged(TRUE, "ConfigIsEmpty")
  ELSE IF who = Nil THEN Unflagged(FALSE, "NoEntityProvided")
  ELSE IF who.id = EmptyId THEN Unflagged(FALSE, "IDIsEmpty")
  ELSE IF Positions(cfg, name) = {} THEN Unflagged(TRUE, "FlagNotInConfig")
  ELSE Evaluate(hashKey, FlagOf(cfg, name), who)

Answered(c) == pc[c] = "return"

KeyOf(cfg) == IF cfg = Nil THEN EmptyHashKey ELSE cfg.hashKey

(* Whatever SetConfig and SetEntity do during a call, its answer is that of    *)
(* one configuration that was current during the call, but for the hash key    *)
(* (line 132), which may be that of another one that was current too.          *)
AnswerOfOneButForKey ==
  \A c \in Callers : Answered(c) =>
    \E cfg, other \in configs[c] :
      result[c] = Outcome(cfg, KeyOf(other), codename[c], subject[c])

(* An answer that no hash takes part in is the one a call without interference *)
(* gives at some moment of the call.                                           *)
ListedAnswerIsAtomic ==
  \A c \in Callers :
    Answered(c) /\ result[c].reason \notin {"IsSampled", "IsSampledByGroup", "Default"} =>
      \E cfg \in configs[c] : result[c] = Outcome(cfg, KeyOf(cfg), codename[c], subject[c])
================================================================================
