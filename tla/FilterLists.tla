------------------------------ MODULE FilterLists ------------------------------
(* What filters and escaping promise together: a list of filters grows one     *)
(* filter at a time and is matched with the same attributes after each, which  *)
(* is how the configurations of a flag differ; the same attributes come with   *)
(* events and entities.                                                        *)
EXTENDS Escaping

CONSTANTS Candidates,                     \* filters as JSON decodes them
          RawAttributes,                  \* attributes as an application gives them, or Nil
          Ids, EntityTypes, EntityNames,  \* of entities and groups
          MaxFilters                      \* bound on the length of a list

(* The Go values an attribute may have: those escapeAttributes keeps, and one  *)
(* of a type it leaves out.                                                    *)
Texts   == [kind : {"string"}, v : Strings, vs : {{}}]
Numbers == [kind : {"int", "float32", "float"}, v : Int, vs : {{}}]
Truths  == [kind : {"bool"}, v : BOOLEAN, vs : {{}}]
Others  == [kind : {"slice"}, v : {0}, vs : {{}}]

IsAttribute(x) ==
  \/ x.kind = "string" /\ x \in Texts
  \/ x.kind \in {"int", "float32", "float"} /\ x \in Numbers
  \/ x.kind = "bool" /\ x \in Truths
  \/ x.kind = "slice" /\ x \in Others

Values == Texts \cup Numbers \cup Truths \cup Others

ASSUME CandidatesAssumption ==
  \A f \in Candidates :
    /\ f.attributeName \in Names
    /\ f = [attributeName |-> f.attributeName, operator |-> f.operator,
            type |-> f.type, value |-> f.value]

ASSUME AttributesAssumption ==
  /\ \A names \in SUBSET Names : Nil \notin [names -> Values]
  /\ \A a \in RawAttributes \ {Nil} :
       DOMAIN a \subseteq Names /\ \A n \in DOMAIN a : IsAttribute(a[n])

ASSUME IdsAssumption == Ids \subseteq Strings /\ EntityNames \subseteq Strings

ASSUME MaxFiltersAssumption == MaxFilters \in Nat

VARIABLES filters, attributes
matching == <<filters, attributes>>

InitMatching == filters = <<>> /\ attributes \in RawAttributes

AddFilter ==
  /\ filters # Nil /\ Len(filters) < MaxFilters
  /\ \E f \in Candidates : filters' = Append(filters, f)
  /\ UNCHANGED attributes

MatchingSpec == InitMatching /\ [][AddFilter]_matching

--------------------------------------------------------------------------------
EscapedOnce == [k \in DOMAIN filters |-> Escape(filters[k])]
Attributes  == EscapeAttributes(attributes)
Matched     == MatchByFilters(filters, attributes)

(* The events an application may track with these attributes.                  *)
Groups   == [id : Ids, type : EntityTypes, name : EntityNames, attributes : {attributes}]
Subjects == [id : Ids, type : EntityTypes, name : EntityNames, attributes : {attributes},
             group : {Nil} \cup Groups]
Events   == [name : {"paid"}, eventProperties : {attributes}, entity : {Nil} \cup Subjects]

(* SetConfig escapes a filter and every evaluation escapes it again            *)
(* (filters.go lines 31-33), on objects that all evaluations share; attributes *)
(* are escaped by Flagger and again by every evaluation; a caller may hand in  *)
(* an entity it got escaped before.  A second escape must change nothing.      *)
EscapeIsIdempotent ==
  filters # Nil =>
    /\ \A k \in DOMAIN EscapedOnce : Escape(EscapedOnce[k]) = EscapedOnce[k]
    /\ \A e \in Events : EscapeEvent(EscapeEvent(e)) = EscapeEvent(e)

(* When the entity has every attribute the filters name, the filters are a     *)
(* conjunction: their order does not matter.                                   *)
PresentIsConjunction ==
  /\ filters # Nil /\ attributes # Nil
  /\ \A k \in DOMAIN EscapedOnce : EscapedOnce[k].attributeName \in DOMAIN Attributes
  => (Matched <=> \A k \in DOMAIN EscapedOnce : Holds(EscapedOnce[k], Attributes))

(* Adding a filter behind the others can only narrow the subpopulation, even   *)
(* though an absent attribute may end the loop early.                          *)
AppendingNarrows == [][AddFilter => (Matched' => Matched)]_matching
================================================================================
