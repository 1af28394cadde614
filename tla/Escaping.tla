-------------------------------- MODULE Escaping --------------------------------
(* The copies Flagger makes of the entities and events it is given             *)
(* (EscapeEntity, escapeGroup and EscapeEvent in core/types.go): attributes    *)
(* escaped, "id" and "name" added to them, the default type filled in.         *)
EXTENDS Filters

CONSTANTS EmptyName, EmptyType  \* the empty string in each of these roles

ASSUME PropagatedAssumption ==
  /\ {"id", "name"} \subseteq Names
  /\ \A n \in {"id", "name"} : Lower[n] = n

(* A nil map is read as an empty one.                                          *)
Escaped(attributes) ==
  IF attributes = Nil THEN [n \in {} |-> Nil] ELSE EscapeAttributes(attributes)

(* "name", unless it is empty, and "id" become attributes, unless there are    *)
(* attributes of these names already.                                          *)
Propagate(who, attributes) ==
  LET propagated == {"id"} \cup (IF who.name = EmptyName THEN {} ELSE {"name"})
  IN  [n \in DOMAIN attributes \cup propagated |->
         IF n \in DOMAIN attributes THEN attributes[n] ELSE Scalar("string", who[n])]

EscapeGroup(group) == [group EXCEPT !.attributes = Propagate(group, Escaped(@))]

EscapeEntity(e) ==
  IF e = Nil THEN Nil
  ELSE [e EXCEPT !.attributes = Propagate(e, Escaped(@)),
                 !.type = IF @ = EmptyType THEN "User" ELSE @,
                 !.group = IF @ = Nil THEN Nil ELSE EscapeGroup(@)]

EscapeEvent(event) ==
  [event EXCEPT !.eventProperties = Escaped(@), !.entity = EscapeEntity(@)]
================================================================================
