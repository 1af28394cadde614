------------------------------- MODULE FlagEdits -------------------------------
(* What the evaluation of a flag promises while the flag is edited: a share is *)
(* grown, an entry is added to a list, the kill switch is engaged, which is    *)
(* how one configuration differs from the next.  The flag is evaluated for two *)
(* entities of the same group, or without one.                                 *)
EXTENDS FlagEvaluation

CONSTANTS InitialFlags,
          Entities,  \* escaped entities; ids are numbers, so that each pair comes once
          Listed,    \* entries of the lists
          Scale      \* probabilities, percentages and hashes are numbers from 0 to Scale

(* A flag has variations, none of which is called "off", and their             *)
(* probabilities add up to the whole scale; the share of a subpopulation is a  *)
(* percentage; HashMD5 gives numbers on the scale, both ends included.         *)
ASSUME FlagsAssumption ==
  \A f \in InitialFlags :
    /\ f = [codename |-> f.codename, killSwitchEngaged |-> f.killSwitchEngaged,
            hashKey |-> f.hashKey, variations |-> f.variations,
            subpopulations |-> f.subpopulations,
            blacklist |-> f.blacklist, whitelist |-> f.whitelist]
    /\ Len(f.variations) \in Nat \ {0} /\ DOMAIN f.variations = 1..Len(f.variations)
    /\ Cumulative(f.variations)[Len(f.variations)] = Scale
    /\ \A k \in DOMAIN f.variations : f.variations[k].codename # Off
    /\ f.subpopulations = [k \in DOMAIN f.subpopulations |-> f.subpopulations[k]]
    /\ \A k \in DOMAIN f.subpopulations :
         LET sp == f.subpopulations[k]
         IN  /\ sp = [entityType |-> sp.entityType, samplingPercentage |-> sp.samplingPercentage,
                      filters |-> sp.filters]
             /\ sp.samplingPercentage \in 0..Scale

Who(e) == IF HasGroup(e) THEN {e, e.group} ELSE {e}

ASSUME HashesAssumption ==
  /\ Scale \in Nat
  /\ \A f \in InitialFlags, e \in Entities : \A who \in Who(e) :
       /\ SamplingHash(0, f.hashKey, who.id, who.type) \in 0..Scale
       /\ VariationHash(f.codename, who.id, who.type) \in 0..Scale

VARIABLES flag, entity, mate
evaluating == <<flag, entity, mate>>

InitFlag ==
  /\ flag \in InitialFlags
  /\ entity \in Entities
  /\ mate \in {e \in Entities : e.id > entity.id /\ e.group = entity.group}

Grow == \E k \in DOMAIN flag.subpopulations :
          /\ flag.subpopulations[k].samplingPercentage < Scale
          /\ flag' = [flag EXCEPT !.subpopulations[k].samplingPercentage = @ + 1]

Blacklist == \E w \in Listed :
               /\ flag.blacklist = <<>>
               /\ flag' = [flag EXCEPT !.blacklist = Append(@, w)]

Whitelist == \E w \in Listed :
               /\ Len(flag.whitelist) < 2
               /\ \A k \in DOMAIN flag.whitelist : flag.whitelist[k] # w
               /\ flag' = [flag EXCEPT !.whitelist = Append(@, w)]

Kill == ~flag.killSwitchEngaged /\ flag' = [flag EXCEPT !.killSwitchEngaged = TRUE]

EditFlag == flag # Nil /\ (Grow \/ Blacklist \/ Whitelist \/ Kill) /\ UNCHANGED <<entity, mate>>

EditingSpec == InitFlag /\ [][EditFlag]_evaluating

--------------------------------------------------------------------------------
Outcome(e) == Evaluate(0, flag, e)

(* Growing the share of a subpopulation never turns a flag off for anyone.     *)
GrowingKeepsEnabled == [][flag # Nil /\ Grow => (Outcome(entity).enabled => Outcome(entity)'.enabled)]_evaluating

(* Growing a share never moves an entity from one variation to another, unless *)
(* it comes to be sampled for itself after having been sampled for its group.  *)
GrowingKeepsVariation ==
  [][flag # Nil /\ Grow /\ Outcome(entity).enabled /\ Outcome(entity)'.reason = Outcome(entity).reason
       => Outcome(entity)'.variation = Outcome(entity).variation]_evaluating

(* A flag is off exactly when it is reported disabled, as far as its lists     *)
(* name variations it has; only a sampled flag counts as sampled; when the     *)
(* probabilities add up to the whole scale a sampled entity gets one of the    *)
(* flag's variations whatever its hash.                                        *)
OutcomeIsConsistent ==
  flag # Nil =>
  LET r     == Outcome(entity)
      names == {flag.variations[k].codename : k \in DOMAIN flag.variations}
  IN  /\ ~r.enabled => r.variation = Off /\ ~r.sampled
      /\ r.sampled => r.variation \in names
      /\ r.enabled /\ r.variation = Off => r.reason \in {"IndividualWhitelist", "GroupWhitelist"}

(* What the lists say of the entity itself beats its group and its hash; what  *)
(* they say of the group beats both hashes; a blacklist beats the whitelist of *)
(* the same level.                                                             *)
ListsBeatSampling ==
  flag # Nil =>
  LET r == Outcome(entity)
      listed(who) == Blacklisted(flag, who) \/ Whitelisted(flag, who)
      grouped == HasGroup(entity) /\ listed(entity.group)
  IN  ~flag.killSwitchEngaged =>
        /\ listed(entity) => r.enabled = ~Blacklisted(flag, entity)
        /\ ~listed(entity) /\ grouped => r.enabled = ~Blacklisted(flag, entity.group)
        /\ r.sampled => ~listed(entity) /\ ~grouped

(* Members of one group that owe the flag to their group get one variation.    *)
GroupMembersAgree ==
  flag # Nil =>
  LET r == Outcome(entity)
      s == Outcome(mate)
  IN  /\ entity.group = mate.group
      /\ {r.reason, s.reason} \subseteq {"GroupBlacklist", "GroupWhitelist", "IsSampledByGroup"}
      => r.variation = s.variation /\ r.reason = s.reason
================================================================================
