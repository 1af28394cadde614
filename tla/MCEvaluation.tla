------------------------------ MODULE MCEvaluation ------------------------------
(* The modules without concurrency over bounded inputs, one case at a time: a  *)
(* list of filters that grows (MCFilters), a flag that is edited               *)
(* (MCFlagEvaluation), or the arguments of Init in an environment that changes *)
(* (InitSettings).                                                             *)
EXTENDS MCFlagEvaluation, InitSettings

CONSTANT nil

mcvars == <<matching, evaluating, settings>>

MCDefaultURL == [k \in {"SourceURL", "IngestionURL"} |-> "default"]

MCSettings ==
  {[k \in Keys |-> CASE k = "APIKey" -> key [] k = "LogLevel" -> level
                     [] k = "SourceURL" -> source [] OTHER -> ingestion] :
     key \in {"", "key"}, level \in {"", "info", "loud"},
     source \in {"", "url", "://"}, ingestion \in {"", "url"}}

Unset == args = NoArgs /\ env = NoArgs

Init ==
  \/ InitMatching /\ Unevaluated /\ Unset
  \/ Unmatched /\ InitFlag /\ Unset
  \/ Unmatched /\ Unevaluated /\ InitSetting

Next ==
  \/ AddFilter /\ UNCHANGED <<evaluating, settings>>
  \/ EditFlag /\ UNCHANGED <<matching, settings>>
  \/ SetVariable /\ UNCHANGED <<matching, evaluating>>

Spec == Init /\ [][Next]_mcvars
================================================================================
