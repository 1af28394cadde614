-------------------------------- MODULE Filters --------------------------------
(* Matching the filters of a subpopulation with the attributes of an entity    *)
(* (core/filters.go), and the escaping both go through first (core/types.go).  *)
(* A string is a member of Strings; DateOf tells which of them parse as an     *)
(* RFC 3339 date, and as which instant; Lower is strings.ToLower on attribute  *)
(* names.  A value carries the Go type it has at run time as its kind.         *)
EXTENDS Integers, Sequences

CONSTANTS Strings, DateOf,  \* DateOf: from some of Strings to instants
          Names, Lower,     \* attribute names and their lower case
          Nil               \* the nil map and the nil pointer

ASSUME StringsAssumption == /\ DOMAIN DateOf \subseteq Strings
                            /\ \A s \in DOMAIN DateOf : DateOf[s] \in Int
ASSUME NamesAssumption   == /\ Lower \in [Names -> Names]
                            /\ \A n \in Names : Lower[Lower[n]] = Lower[n]

Scalar(kind, v)  == [kind |-> kind, v |-> v, vs |-> {}]
Array(kind, vs)  == [kind |-> kind, v |-> 0, vs |-> vs]

IsDate(s) == s \in DOMAIN DateOf

Operators == {"IS", "IS_NOT", "LT", "LTE", "GT", "GTE", "IN", "NOT_IN"}

--------------------------------------------------------------------------------
(* FlagFilter.escape: what JSON decodes as a string or as []interface{} takes  *)
(* the Go type that the filter's type and operator call for; the attribute     *)
(* name goes to lower case.                                                    *)
OfKind(list, kind) == {x.v : x \in {y \in list : y.kind = kind}}

Dates(strings) == {DateOf[s] : s \in {t \in strings : IsDate(t)}}

EscapeListAsStrings(type, list) ==  \* fault: a list of strings whatever the type
  Array("strings", OfKind(list.vs, "string"))

EscapeList(type, list) ==
  CASE type = "STRING"  -> Array("strings", OfKind(list.vs, "string"))
    [] type = "NUMBER"  -> Array("floats", OfKind(list.vs, "float"))
    [] type = "BOOLEAN" -> Array("bools", OfKind(list.vs, "bool"))
    [] type = "DATE"    -> Array("times", Dates(OfKind(list.vs, "string")))
    [] OTHER            -> list

EscapeValue(type, operator, value) ==
  IF type = "DATE" /\ value.kind = "string"
  THEN IF IsDate(value.v) THEN Scalar("time", DateOf[value.v]) ELSE value
  ELSE IF type = "DATE" /\ value.kind = "strings"
  THEN Array("times", Dates(value.vs))
  ELSE IF operator \in {"IN", "NOT_IN"} /\ value.kind = "list"
  THEN EscapeList(type, value)
  ELSE value

Escape(filter) ==
  [filter EXCEPT !.attributeName = Lower[filter.attributeName],
                 !.value = EscapeValue(filter.type, filter.operator, filter.value)]

(* FlagSubpopulation.escape: a filter with an unknown operator is dropped.     *)
EscapeFilters(filters) ==
  LET valid == SelectSeq(filters, LAMBDA f : f.operator \in Operators)
  IN  [k \in DOMAIN valid |-> Escape(valid[k])]

(* escapeAttributes: lower-case names, int and float32 become float64, values  *)
(* of other types are left out.  Of two names that differ only in case Go's    *)
(* map iteration keeps either; CHOOSE stands for that unspecified choice.      *)
Convert(value) ==
  IF value.kind \in {"int", "float32"} THEN [value EXCEPT !.kind = "float"] ELSE value

EscapeAttributes(attributes) ==
  LET valid == {n \in DOMAIN attributes :
                  attributes[n].kind \in {"int", "float32", "float", "bool", "string"}}
  IN  [n \in {Lower[m] : m \in valid} |->
         Convert(attributes[CHOOSE m \in valid : Lower[m] = n])]

--------------------------------------------------------------------------------
(* The assertFor functions, one table for each group of Go types that share    *)
(* one.  x is the filter's value and a the attribute's.                        *)
AssertString(op, x, a) ==
  \/ op \in {"IS", "IN"} /\ a = x
  \/ op \in {"IS_NOT", "NOT_IN"} /\ a # x

AssertOrdered(op, x, a) ==
  \/ op = "IS" /\ a = x
  \/ op = "IS_NOT" /\ a # x
  \/ op = "LT" /\ a < x
  \/ op = "LTE" /\ a <= x
  \/ op = "GT" /\ a > x
  \/ op = "GTE" /\ a >= x

AssertBool(op, x, a) ==
  \/ op = "IS" /\ a = x
  \/ op = "IS_NOT" /\ a # x

AssertMember(op, xs, a) ==
  \/ op = "IN" /\ a \in xs
  \/ op = "NOT_IN" /\ a \notin xs

(* The type switch of matchByFilters for an attribute that is present; a       *)
(* mismatch of types, or a date that does not parse, is false.                 *)
Passes(filter, a) ==
  LET op == filter.operator
      x  == filter.value
  IN  \/ x.kind = "string"  /\ a.kind = "string" /\ AssertString(op, x.v, a.v)
      \/ x.kind = "time"    /\ a.kind = "string" /\ IsDate(a.v)
                            /\ AssertOrdered(op, x.v, DateOf[a.v])
      \/ x.kind = "float"   /\ a.kind = "float"  /\ AssertOrdered(op, x.v, a.v)
      \/ x.kind = "bool"    /\ a.kind = "bool"   /\ AssertBool(op, x.v, a.v)
      \/ x.kind = "strings" /\ a.kind = "string" /\ AssertMember(op, x.vs, a.v)
      \/ x.kind = "floats"  /\ a.kind = "float"  /\ AssertMember(op, x.vs, a.v)
      \/ x.kind = "bools"   /\ a.kind = "bool"   /\ AssertMember(op, x.vs, a.v)
      \/ x.kind = "times"   /\ a.kind = "string" /\ IsDate(a.v)
                            /\ AssertMember(op, x.vs, DateOf[a.v])

(* matchByFilters: the filters are taken in order.  One whose attribute is     *)
(* absent ends the loop: with true for IS_NOT and NOT_IN, with false for the   *)
(* other operators.                                                            *)
Holds(filter, attributes) ==
  /\ filter.attributeName \in DOMAIN attributes
  /\ Passes(filter, attributes[filter.attributeName])

AbsentAndNegative(filter, attributes) ==
  /\ filter.attributeName \notin DOMAIN attributes
  /\ filter.operator \in {"IS_NOT", "NOT_IN"}

MatchAny(filters, attributes) ==  \* fault: the first filter that holds decides
  \/ filters = <<>>
  \/ /\ attributes # Nil
     /\ \E k \in DOMAIN filters : Holds(Escape(filters[k]), EscapeAttributes(attributes))

MatchByFilters(filters, attributes) ==
  \/ filters = <<>>
  \/ /\ attributes # Nil
     /\ LET fs    == [k \in DOMAIN filters |-> Escape(filters[k])]
            attrs == EscapeAttributes(attributes)
        IN  \/ \A k \in DOMAIN fs : Holds(fs[k], attrs)
            \/ \E k \in DOMAIN fs : /\ AbsentAndNegative(fs[k], attrs)
                                    /\ \A j \in 1..(k - 1) : Holds(fs[j], attrs)
================================================================================
