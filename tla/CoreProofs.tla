------------------------------- MODULE CoreProofs -------------------------------
(* Proofs about Core for every set of configurations, entities, codenames and  *)
(* calling goroutines, and every hash.                                         *)
EXTENDS Core, TLAPS

(* The variables that hold one value for each call.                            *)
CallDomains ==
  /\ DOMAIN pc = Callers /\ DOMAIN codename = Callers /\ DOMAIN subject = Callers
  /\ DOMAIN snapshot = Callers /\ DOMAIN result = Callers /\ DOMAIN configs = Callers

(* The current configuration was current during every call that is under way.  *)
CurrentIsSeen == \A c \in Calling : configuration \in configs[c]

(* A call past its first critical section holds a configuration that has flags *)
(* and that was current during the call, and it was asked for a flag.          *)
HasSnapshot(c) ==
  /\ snapshot[c] \in configs[c] /\ snapshot[c] # Nil /\ snapshot[c].flags # <<>>
  /\ codename[c] # EmptyCodename

SnapshotIsSeen == \A c \in Callers : pc[c] \in {"default", "subject"} => HasSnapshot(c)

AnswerInv == CallDomains /\ CurrentIsSeen /\ SnapshotIsSeen /\ AnswerOfOneButForKey

--------------------------------------------------------------------------------
(* The answer of call c is that of cfg, with the hash key of other.            *)
Justified(c, cfg, other) ==
  /\ cfg \in configs[c] /\ other \in configs[c]
  /\ result[c] = Outcome(cfg, KeyOf(other), codename[c], subject[c])

LEMMA AnswerInit == ASSUME Init PROVE AnswerInv
  BY DEF Init, AnswerInv, CallDomains, CurrentIsSeen, Calling, SnapshotIsSeen,
         AnswerOfOneButForKey, Answered

(* A step of call c leaves the other calls and the current configuration       *)
(* alone; the invariant is kept if c itself is where it ought to be.           *)
LEMMA OneCall ==
  ASSUME AnswerInv, NEW c \in Callers, CallDomains', configuration' = configuration,
         \A d \in Callers : d # c =>
           /\ pc'[d] = pc[d] /\ codename'[d] = codename[d] /\ subject'[d] = subject[d]
           /\ snapshot'[d] = snapshot[d] /\ result'[d] = result[d] /\ configs'[d] = configs[d],
         pc'[c] # "idle" => configuration \in configs'[c],
         pc'[c] \in {"default", "subject"} => HasSnapshot(c)',
         pc'[c] = "return" => \E cfg, other : Justified(c, cfg, other)'
  PROVE  AnswerInv'
<1>1. CurrentIsSeen'
  BY DEF AnswerInv, CurrentIsSeen, Calling
<1>2. SnapshotIsSeen'
  BY DEF AnswerInv, SnapshotIsSeen, HasSnapshot
<1>3. ASSUME NEW d \in Callers, Answered(d)'
      PROVE  \E cfg, other \in configs'[d] :
               result'[d] = Outcome(cfg, KeyOf(other), codename'[d], subject'[d])
  <2>1. CASE d = c
    BY <1>3, <2>1 DEF Answered, Justified
  <2>2. CASE d # c
    BY <1>3, <2>2 DEF AnswerInv, AnswerOfOneButForKey, Answered
  <2> QED BY <2>1, <2>2
<1> QED BY <1>1, <1>2, <1>3 DEF AnswerInv, AnswerOfOneButForKey

LEMMA SetConfigKeeps ==
  ASSUME AnswerInv, NEW v, SetConfig(v) PROVE AnswerInv'
<1>1. /\ UNCHANGED <<pc, codename, subject, snapshot, result>>
      /\ DOMAIN configs' = Callers
      /\ \A c \in Calling : configs'[c] = configs[c] \cup {configuration'}
  BY DEF SetConfig, call, Calling
<1>2. CallDomains'
  BY <1>1 DEF AnswerInv, CallDomains
<1>3. CurrentIsSeen'
  BY <1>1 DEF CurrentIsSeen, Calling
<1>4. SnapshotIsSeen'
  BY <1>1 DEF AnswerInv, SnapshotIsSeen, HasSnapshot, Calling
<1>5. AnswerOfOneButForKey'
  <2>1. SUFFICES ASSUME NEW c \in Callers, Answered(c)
                 PROVE  \E cfg, other \in configs'[c] :
                          result[c] = Outcome(cfg, KeyOf(other), codename[c], subject[c])
    BY <1>1 DEF AnswerOfOneButForKey, Answered
  <2>2. configs[c] \subseteq configs'[c]
    BY <1>1, <2>1 DEF Answered, Calling
  <2> QED BY <2>1, <2>2 DEF AnswerInv, AnswerOfOneButForKey
<1> QED BY <1>2, <1>3, <1>4, <1>5 DEF AnswerInv

LEMMA BeginKeeps ==
  ASSUME AnswerInv, NEW c \in Callers, NEW name, NEW who, Begin(c, name, who) PROVE AnswerInv'
<1>1. CallDomains' /\ pc'[c] = "begin" /\ configs'[c] = {configuration}
  BY DEF Begin, AnswerInv, CallDomains
<1> QED BY <1>1, OneCall DEF Begin, core, AnswerInv, CallDomains

LEMMA SnapshotKeeps ==
  ASSUME AnswerInv, NEW c \in Callers, Snapshot(c) PROVE AnswerInv'
<1> USE DEF AnswerInv, CallDomains
<1>1. configuration \in configs[c] /\ UNCHANGED <<configuration, configs, codename, subject>>
      /\ CallDomains' /\ snapshot'[c] = configuration
      /\ \A d \in Callers : d # c =>
           pc'[d] = pc[d] /\ snapshot'[d] = snapshot[d] /\ result'[d] = result[d]
  BY DEF Snapshot, Answer, CurrentIsSeen, Calling, core
<1>2. pc'[c] \in {"default", "subject"} => HasSnapshot(c)'
  BY <1>1 DEF Snapshot, Answer, HasSnapshot
<1>3. pc'[c] = "return" => Justified(c, configuration, configuration)'
  BY <1>1 DEF Snapshot, Answer, Justified, Outcome
<1> QED BY <1>1, <1>2, <1>3, OneCall

LEMMA DefaultEntityKeeps ==
  ASSUME AnswerInv, NEW c \in Callers, DefaultEntity(c) PROVE AnswerInv'
<1> USE DEF AnswerInv, CallDomains
<1>1. configuration \in configs[c] /\ UNCHANGED <<configuration, configs, codename, snapshot, result>>
      /\ CallDomains' /\ HasSnapshot(c) /\ pc'[c] = "subject"
      /\ \A d \in Callers : d # c => pc'[d] = pc[d] /\ subject'[d] = subject[d]
  BY DEF DefaultEntity, CurrentIsSeen, SnapshotIsSeen, Calling, core
<1> QED BY <1>1, OneCall DEF HasSnapshot

(* Both ways the last step of a call answers: without a flag, and with one.    *)
LEMMA AnswerKeeps ==
  ASSUME AnswerInv, NEW c \in Callers, Reject(c) \/ EvaluateFlag(c) PROVE AnswerInv'
<1> USE DEF AnswerInv, CallDomains
<1>1. configuration \in configs[c] /\ UNCHANGED <<configuration, configs, codename, subject, snapshot>>
      /\ CallDomains' /\ HasSnapshot(c) /\ pc'[c] = "return"
      /\ \A d \in Callers : d # c => pc'[d] = pc[d] /\ result'[d] = result[d]
  BY DEF Reject, HasFlag, EvaluateFlag, Answer, CurrentIsSeen, SnapshotIsSeen, Calling, core, call
<1>2. Justified(c, snapshot[c], configuration)'
  <2>1. CASE Reject(c)
    BY <1>1, <2>1 DEF Reject, Answer, Justified, Outcome, HasSnapshot
  <2>2. CASE EvaluateFlag(c)
    BY <1>1, <2>2 DEF EvaluateFlag, HasFlag, Answer, Justified, Outcome, HasSnapshot, KeyOf
  <2> QED BY <2>1, <2>2
<1> QED BY <1>1, <1>2, OneCall

LEMMA ReturnKeeps ==
  ASSUME AnswerInv, NEW c \in Callers, Return(c) PROVE AnswerInv'
<1>1. CallDomains' /\ pc'[c] = "idle"
  BY DEF Return, AnswerInv, CallDomains
<1> QED BY <1>1, OneCall DEF Return, core, AnswerInv, CallDomains

LEMMA AnswerStep == ASSUME AnswerInv, [Next]_vars PROVE AnswerInv'
<1>1. ASSUME UNCHANGED <<configuration, pc, codename, subject, snapshot, result, configs>>
      PROVE  AnswerInv'
  BY <1>1 DEF AnswerInv, CallDomains, CurrentIsSeen, Calling, SnapshotIsSeen, HasSnapshot,
              AnswerOfOneButForKey, Answered
<1>2. CASE \E v : SetEntity(v)
  BY <1>1, <1>2 DEF SetEntity, call
<1>3. CASE \E c \in Callers : EvaluateFlagPanics(c)
  BY <1>1, <1>3 DEF EvaluateFlagPanics, core, call
<1>4. CASE UNCHANGED vars
  BY <1>1, <1>4 DEF vars, core, call
<1>5. CASE \E c \in Callers : Snapshot(c) \/ DefaultEntity(c) \/ Reject(c) \/ EvaluateFlag(c) \/ Return(c)
  BY <1>5, SnapshotKeeps, DefaultEntityKeeps, AnswerKeeps, ReturnKeeps
<1> QED BY <1>2, <1>3, <1>4, <1>5, SetConfigKeeps, BeginKeeps DEF Next, Step

(* Whatever configurations and default entities are set during a call, by any  *)
(* goroutine and however often, the call's answer is that of one configuration *)
(* which was current during it, but for the hash key: that one is read again   *)
(* and may be of another which was current during it (core.go 53-132).         *)
THEOREM AnswersOfOneButForKey == Spec => []AnswerOfOneButForKey
<1>1. AnswerInv => AnswerOfOneButForKey
  BY DEF AnswerInv
<1> QED BY <1>1, AnswerInit, AnswerStep, PTL DEF Spec

(* As long as the configurations that come and go have one hash key, a call is *)
(* atomic: its answer is that of one of them, key included (core.go 53-132).   *)
OneKey(c) == \A cfg, other \in configs[c] : KeyOf(cfg) = KeyOf(other)

OneKeyAnswerIsAtomic ==
  \A c \in Callers : Answered(c) /\ OneKey(c) =>
    \E cfg \in configs[c] : result[c] = Outcome(cfg, KeyOf(cfg), codename[c], subject[c])

THEOREM OneKeyAnswersAreAtomic == Spec => []OneKeyAnswerIsAtomic
<1>1. ASSUME AnswerOfOneButForKey PROVE OneKeyAnswerIsAtomic
  <2>1. SUFFICES ASSUME NEW c \in Callers, Answered(c), OneKey(c)
                 PROVE  \E cfg \in configs[c] :
                          result[c] = Outcome(cfg, KeyOf(cfg), codename[c], subject[c])
    BY DEF OneKeyAnswerIsAtomic
  <2>2. PICK cfg, other \in configs[c] :
          result[c] = Outcome(cfg, KeyOf(other), codename[c], subject[c])
    BY <1>1, <2>1 DEF AnswerOfOneButForKey
  <2>3. KeyOf(other) = KeyOf(cfg)
    BY <2>1 DEF OneKey
  <2> QED BY <2>2, <2>3
<1> QED BY <1>1, AnswersOfOneButForKey, PTL

--------------------------------------------------------------------------------
(* The hash key decides only between the outcomes that sampling gives.         *)
ByHash == {"IsSampled", "IsSampledByGroup", "Default"}

LEMMA EvaluateWithoutHash ==
  ASSUME NEW key, NEW other, NEW flag, NEW who, Evaluate(key, flag, who).reason \notin ByHash
  PROVE  Evaluate(other, flag, who) = Evaluate(key, flag, who)
<1> DEFINE listed == \/ flag.killSwitchEngaged \/ Blacklisted(flag, who) \/ Whitelisted(flag, who)
                     \/ HasGroup(who) /\ Blacklisted(flag, who.group)
                     \/ HasGroup(who) /\ Whitelisted(flag, who.group)
<1>1. ASSUME NEW f, NEW e, NEW s, NEW v, NEW r PROVE Result(f, e, s, v, r).reason = r
  BY DEF Result
<1>2. ASSUME ~listed PROVE FALSE
  <2>1. ~flag.killSwitchEngaged /\ ~Blacklisted(flag, who) /\ ~Whitelisted(flag, who)
        /\ ~(HasGroup(who) /\ Blacklisted(flag, who.group))
        /\ ~(HasGroup(who) /\ Whitelisted(flag, who.group))
    BY <1>2
  <2>2. Evaluate(key, flag, who) =
          IF Sampled(key, flag, who)
          THEN Result(flag, TRUE, TRUE, SampledVariation(flag, who), "IsSampled")
          ELSE IF HasGroup(who) /\ Sampled(key, flag, who.group)
          THEN Result(flag, TRUE, TRUE, GroupVariation(flag, who), "IsSampledByGroup")
          ELSE Result(flag, FALSE, FALSE, Off, "Default")
    BY <2>1, Zenon DEF Evaluate
  <2>3. \/ Evaluate(key, flag, who) = Result(flag, TRUE, TRUE, SampledVariation(flag, who), "IsSampled")
        \/ Evaluate(key, flag, who) = Result(flag, TRUE, TRUE, GroupVariation(flag, who), "IsSampledByGroup")
        \/ Evaluate(key, flag, who) = Result(flag, FALSE, FALSE, Off, "Default")
    BY <2>2, Zenon
  <2>4. Evaluate(key, flag, who).reason \in ByHash
    <3>1. ASSUME NEW e, NEW s, NEW v, NEW r, r \in ByHash,
                 Evaluate(key, flag, who) = Result(flag, e, s, v, r)
          PROVE  Evaluate(key, flag, who).reason \in ByHash
      BY <1>1, <3>1
    <3>2. "IsSampled" \in ByHash /\ "IsSampledByGroup" \in ByHash /\ "Default" \in ByHash
      BY DEF ByHash
    <3> QED BY <2>3, <3>1, <3>2, Zenon
  <2> QED BY <2>4
<1> QED BY <1>2, Zenon DEF Evaluate

LEMMA OutcomeWithoutHash ==
  ASSUME NEW cfg, NEW key, NEW other, NEW name, NEW who,
         Outcome(cfg, key, name, who).reason \notin ByHash
  PROVE  Outcome(cfg, other, name, who) = Outcome(cfg, key, name, who)
<1> DEFINE flag == FlagOf(cfg, name)
           evaluated == /\ name # EmptyCodename /\ cfg # Nil /\ cfg.flags # <<>>
                        /\ who # Nil /\ who.id # EmptyId /\ Positions(cfg, name) # {}
<1>1. CASE ~evaluated
  BY <1>1, Zenon DEF Outcome
<1>2. CASE evaluated
  <2>1. /\ Outcome(cfg, key, name, who) = Evaluate(key, flag, who)
        /\ Outcome(cfg, other, name, who) = Evaluate(other, flag, who)
    BY <1>2, Zenon DEF Outcome
  <2> QED BY <2>1, EvaluateWithoutHash
<1> QED BY <1>1, <1>2

(* An answer no hash takes part in is one that a call without interference     *)
(* gives at some moment of the call (core.go 53-132, evaluate.go 75-210).      *)
THEOREM ListedAnswersAreAtomic == Spec => []ListedAnswerIsAtomic
<1>1. ASSUME AnswerOfOneButForKey PROVE ListedAnswerIsAtomic
  <2>1. SUFFICES ASSUME NEW c \in Callers, Answered(c), result[c].reason \notin ByHash
                 PROVE  \E cfg \in configs[c] :
                          result[c] = Outcome(cfg, KeyOf(cfg), codename[c], subject[c])
    BY DEF ListedAnswerIsAtomic, ByHash
  <2>2. PICK cfg, other \in configs[c] :
          result[c] = Outcome(cfg, KeyOf(other), codename[c], subject[c])
    BY <1>1, <2>1 DEF AnswerOfOneButForKey
  <2> QED BY <2>1, <2>2, OutcomeWithoutHash
<1> QED BY <1>1, AnswersOfOneButForKey, PTL
================================================================================
