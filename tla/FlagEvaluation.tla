----------------------------- MODULE FlagEvaluation -----------------------------
(* The evaluation of one flag for one entity (core/evaluate.go): eight rules   *)
(* tried in a fixed order.  Probabilities, percentages and hashes are integers *)
(* on one scale; a hash is an unspecified function of what the code            *)
(* concatenates into its key.                                                  *)
EXTENDS Filters

CONSTANTS Folded,                   \* Folded[t]: entity type t up to case
          SamplingHash(_, _, _, _), \* samplingHash(envKey, hashKey, id, type)
          VariationHash(_, _, _)    \* variationHash(codename, id, type)

Off == "off"

Result(flag, enabled, sampled, variation, reason) ==
  [hashKey |-> flag.hashKey, enabled |-> enabled, sampled |-> sampled,
   variation |-> variation, isNew |-> FALSE, reason |-> reason]

--------------------------------------------------------------------------------
(* Entity.equals and Entity.equalsGroup: the type is compared up to case.      *)
Equals(listed, who) == listed.id = who.id /\ Folded[listed.type] = Folded[who.type]

Blacklisted(flag, who) == \E k \in DOMAIN flag.blacklist : Equals(flag.blacklist[k], who)

Whitelisted(flag, who) == \E k \in DOMAIN flag.whitelist : Equals(flag.whitelist[k], who)

(* The variation of the first entry of the whitelist that equals who, if the   *)
(* flag still has it (extractVariation).                                       *)
ListedVariation(flag, who) ==
  LET first == CHOOSE k \in DOMAIN flag.whitelist :
                 /\ Equals(flag.whitelist[k], who)
                 /\ \A j \in 1..(k - 1) : ~Equals(flag.whitelist[j], who)
      name  == flag.whitelist[first].variation
  IN  IF \E k \in DOMAIN flag.variations : flag.variations[k].codename = name THEN name ELSE Off

(* chooseVariation: the first variation whose cumulative probability reaches   *)
(* the hash; the default one if none does.                                     *)
Cumulative(variations) ==
  LET sum[k \in 0..Len(variations)] ==
        IF k = 0 THEN 0 ELSE sum[k - 1] + variations[k].probability
  IN  sum

ChooseVariationStrictly(hash, variations) ==  \* fault: < for <=
  LET sum     == Cumulative(variations)
      reached == {k \in DOMAIN variations : hash < sum[k]}
  IN  IF reached = {} THEN Off
      ELSE variations[CHOOSE k \in reached : \A j \in reached : k <= j].codename

ChooseVariation(hash, variations) ==
  LET sum     == Cumulative(variations)
      reached == {k \in DOMAIN variations : hash <= sum[k]}
  IN  IF reached = {} THEN Off
      ELSE variations[CHOOSE k \in reached : \A j \in reached : k <= j].codename

(* sampleSubpopulation: is who in the share of some subpopulation that is      *)
(* sampled?  The type is compared exactly here.                                *)
Reshuffled(confHashKey, flag, who) ==  \* fault: the share takes part in the hash key
  \E k \in DOMAIN flag.subpopulations :
    LET sp == flag.subpopulations[k]
    IN  /\ sp.entityType = who.type
        /\ SamplingHash(confHashKey, flag.hashKey + sp.samplingPercentage, who.id, who.type)
             < sp.samplingPercentage
        /\ MatchByFilters(sp.filters, who.attributes)

Sampled(confHashKey, flag, who) ==
  LET hash == SamplingHash(confHashKey, flag.hashKey, who.id, who.type)
  IN  \E k \in DOMAIN flag.subpopulations :
        LET sp == flag.subpopulations[k]
        IN  /\ sp.entityType = who.type
            /\ hash < sp.samplingPercentage
            /\ MatchByFilters(sp.filters, who.attributes)

ReshuffledVariation(flag, who) ==  \* fault: a share takes part in the hash key
  ChooseVariation(VariationHash(flag.codename + flag.subpopulations[1].samplingPercentage,
                                who.id, who.type), flag.variations)

SampledVariation(flag, who) ==
  ChooseVariation(VariationHash(flag.codename, who.id, who.type), flag.variations)

(* A member that is sampled for its group gets the variation of the group.     *)
OwnVariation(flag, entity) == SampledVariation(flag, entity)  \* fault: its own

GroupVariation(flag, entity) == SampledVariation(flag, entity.group)

--------------------------------------------------------------------------------
HasGroup(entity) == entity.group # Nil

EvaluateSampledFirst(confHashKey, flag, entity) ==  \* fault: sampling comes before the lists
  IF flag.killSwitchEngaged THEN Result(flag, FALSE, FALSE, Off, "KillSwitchEngaged")
  ELSE IF Sampled(confHashKey, flag, entity)
  THEN Result(flag, TRUE, TRUE, SampledVariation(flag, entity), "IsSampled")
  ELSE IF Blacklisted(flag, entity)
  THEN Result(flag, FALSE, FALSE, Off, "IndividualBlacklist")
  ELSE IF Whitelisted(flag, entity)
  THEN Result(flag, TRUE, FALSE, ListedVariation(flag, entity), "IndividualWhitelist")
  ELSE Result(flag, FALSE, FALSE, Off, "Default")

(* evaluateFlag: the first rule that applies decides.                          *)
Evaluate(confHashKey, flag, entity) ==
  IF flag.killSwitchEngaged
  THEN Result(flag, FALSE, FALSE, Off, "KillSwitchEngaged")
  ELSE IF Blacklisted(flag, entity)
  THEN Result(flag, FALSE, FALSE, Off, "IndividualBlacklist")
  ELSE IF Whitelisted(flag, entity)
  THEN Result(flag, TRUE, FALSE, ListedVariation(flag, entity), "IndividualWhitelist")
  ELSE IF HasGroup(entity) /\ Blacklisted(flag, entity.group)
  THEN Result(flag, FALSE, FALSE, Off, "GroupBlacklist")
  ELSE IF HasGroup(entity) /\ Whitelisted(flag, entity.group)
  THEN Result(flag, TRUE, FALSE, ListedVariation(flag, entity.group), "GroupWhitelist")
  ELSE IF Sampled(confHashKey, flag, entity)
  THEN Result(flag, TRUE, TRUE, SampledVariation(flag, entity), "IsSampled")
  ELSE IF HasGroup(entity) /\ Sampled(confHashKey, flag, entity.group)
  THEN Result(flag, TRUE, TRUE, GroupVariation(flag, entity), "IsSampledByGroup")
  ELSE Result(flag, FALSE, FALSE, Off, "Default")
================================================================================
