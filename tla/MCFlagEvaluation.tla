--------------------------- MODULE MCFlagEvaluation ----------------------------
(* FlagEdits with one flag: hashes take every value from 0 to Scale, both      *)
(* included, as HashMD5 does on [0, 1].  One of the three cases of             *)
(* MCEvaluation; in the others there is no flag (Nil).                         *)
EXTENDS FlagEdits, MCFilters

MCFolded  == [t \in {"User", "user", "Company"} |-> IF t = "Company" THEN "company" ELSE "user"]

Code(type) == IF type = "Company" THEN 3 ELSE 0
MCSamplingHash(env_, key, id, type) == (env_ + 2 * key + 4 * id + Code(type)) % (Scale + 1)
MCVariationHash(codename, id, type) == (codename + id + Code(type)) % (Scale + 1)

In(country) == [n \in {"country"} |-> Scalar("string", country)]
Company     == [id |-> 1, type |-> "Company", attributes |-> In("us")]

MCEntities == [id : 1..3, type : {"User"}, group : {Nil, Company}, attributes : {In("de"), In("us")}]

MCListed == {[id |-> 1, type |-> "user", variation |-> "b"],
             [id |-> 1, type |-> "Company", variation |-> "gone"],
             [id |-> 2, type |-> "User", variation |-> "a"]}

OnlyUS == <<[attributeName |-> "country", operator |-> "IS", type |-> "STRING",
             value |-> Scalar("string", "us")]>>
NotDE  == <<[attributeName |-> "country", operator |-> "IS_NOT", type |-> "STRING",
             value |-> Scalar("string", "de")]>>

Shares == [entityType : {"User", "Company"}, samplingPercentage : {0, 2}, filters : {<<>>, OnlyUS}]

MCInitialFlags ==
  [codename : {0, 1}, killSwitchEngaged : {FALSE}, hashKey : {1},
   variations : {<<[codename |-> "a", probability |-> 2], [codename |-> "b", probability |-> 3]>>},
   subpopulations : {<<s, [entityType |-> "User", samplingPercentage |-> 1, filters |-> NotDE]>> : s \in Shares},
   blacklist : {<<>>}, whitelist : {<<>>}]

Unevaluated == flag = Nil /\ entity = Nil /\ mate = Nil
================================================================================
