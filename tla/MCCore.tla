--------------------------------- MODULE MCCore ---------------------------------
(* A small instance of Core for TLC: two configurations that share a flag, one *)
(* of them with a second flag, and one without flags; hash keys 1 and 2.       *)
EXTENDS Core

CONSTANTS nil, c1

MCStrings == {"us"}
MCDateOf  == [s \in {} |-> 0]
MCNames   == {"country"}
MCLower   == [n \in MCNames |-> n]
MCFolded  == [t \in {"User", "user"} |-> "user"]

MCSamplingHash(env, key, id, type) == (env + 2 * key + id) % 4
MCVariationHash(codename_, id, type) == (codename_ + id) % 4

Us == <<[attributeName |-> "country", operator |-> "IS", type |-> "STRING", value |-> Scalar("string", "us")],
        [attributeName |-> "country", operator |-> "LIKE", type |-> "STRING", value |-> Scalar("string", "u")]>>

MCFlag(name, key, killed, listed, share) ==
  [codename |-> name, killSwitchEngaged |-> killed, hashKey |-> key,
   variations |-> <<[codename |-> "a", probability |-> 1], [codename |-> "b", probability |-> 2]>>,
   subpopulations |-> <<[entityType |-> "User", samplingPercentage |-> share, filters |-> Us]>>,
   blacklist |-> <<>>, whitelist |-> listed]

ListB == <<[id |-> 1, type |-> "user", variation |-> "b"]>>

MCConfigurations ==
  {[hashKey |-> 1, flags |-> <<MCFlag(1, 1, FALSE, <<>>, 2)>>],
   [hashKey |-> 2, flags |-> <<MCFlag(2, 3, TRUE, <<>>, 2), MCFlag(1, 2, FALSE, ListB, 2)>>],
   [hashKey |-> 1, flags |-> <<>>]}

MCEntities == [id : 0..2, type : {"User"}, group : {nil}, attributes : {[n \in MCNames |-> Scalar("string", "us")]}]

MCSpec == Init /\ [][Next \/ (crash /\ UNCHANGED vars)]_vars
================================================================================
