---------------------------- MODULE EvaluationProofs ----------------------------
(* Proofs about filters, escaping, the evaluation of flags and the arguments   *)
(* of Init, for every configuration, entity and hash.                          *)
EXTENDS FilterLists, FlagEdits, InitSettings, SumProofs

--------------------------------------------------------------------------------
(* Matching.                                                                   *)

(* matchByFilters, filter by filter.                                           *)
AllHold(q, n, attrs) == \A k \in 1..n : Holds(Escape(q[k]), attrs)

EndsEarly(q, n, attrs) ==
  \E k \in 1..n : AbsentAndNegative(Escape(q[k]), attrs) /\ AllHold(q, k - 1, attrs)

LEMMA MatchIs ==
  ASSUME NEW n \in Nat, NEW q, DOMAIN q = 1..n, NEW a
  PROVE  MatchByFilters(q, a) <=>
           \/ q = <<>>
           \/ a # Nil /\ (AllHold(q, n, EscapeAttributes(a)) \/ EndsEarly(q, n, EscapeAttributes(a)))
<1> DEFINE attrs == EscapeAttributes(a)
           fs    == [k \in DOMAIN q |-> Escape(q[k])]
<1>1. MatchByFilters(q, a) <=>
        \/ q = <<>>
        \/ /\ a # Nil
           /\ \/ \A k \in DOMAIN fs : Holds(fs[k], attrs)
              \/ \E k \in DOMAIN fs : /\ AbsentAndNegative(fs[k], attrs)
                                      /\ \A j \in 1..(k - 1) : Holds(fs[j], attrs)
  BY DEF MatchByFilters
<1>2. DOMAIN fs = 1..n /\ \A k \in 1..n : fs[k] = Escape(q[k])
  OBVIOUS
<1> HIDE DEF fs, attrs
<1>3. (\A k \in DOMAIN fs : Holds(fs[k], attrs)) <=> AllHold(q, n, attrs)
  BY <1>2 DEF AllHold
<1>4. ASSUME NEW k \in 1..n
      PROVE  (\A j \in 1..(k - 1) : Holds(fs[j], attrs)) <=> AllHold(q, k - 1, attrs)
  <2>1. \A j \in 1..(k - 1) : fs[j] = Escape(q[j])
    BY <1>2
  <2> QED BY <2>1 DEF AllHold
<1>5. (\E k \in DOMAIN fs : /\ AbsentAndNegative(fs[k], attrs)
                            /\ \A j \in 1..(k - 1) : Holds(fs[j], attrs))
        <=> EndsEarly(q, n, attrs)
  BY <1>2, <1>4 DEF EndsEarly
<1> QED BY <1>1, <1>3, <1>5 DEF attrs

(* A filter behind the others only narrows.                                    *)
LEMMA LongerListNarrows ==
  ASSUME NEW fs \in Seq(Candidates), NEW f \in Candidates, NEW a,
         MatchByFilters(Append(fs, f), a)
  PROVE  MatchByFilters(fs, a)
<1> DEFINE gs    == Append(fs, f)
           n     == Len(fs)
           attrs == EscapeAttributes(a)
<1>1. /\ n \in Nat /\ DOMAIN fs = 1..n /\ DOMAIN gs = 1..(n + 1)
      /\ gs # <<>>
      /\ \A k \in 1..n : gs[k] = fs[k]
  OBVIOUS
<1> HIDE DEF gs, n, attrs
<1>2. a # Nil /\ (AllHold(gs, n + 1, attrs) \/ EndsEarly(gs, n + 1, attrs))
  <2>1. MatchByFilters(gs, a)
    BY DEF gs
  <2>2. n + 1 \in Nat
    BY <1>1
  <2> QED BY <1>1, <2>1, <2>2, MatchIs DEF attrs
<1>3. \A k \in 0..n : AllHold(gs, k, attrs) => AllHold(fs, k, attrs)
  BY <1>1 DEF AllHold
<1>4. CASE AllHold(gs, n + 1, attrs)
  <2>1. AllHold(gs, n, attrs)
    BY <1>1, <1>4 DEF AllHold
  <2>2. AllHold(fs, n, attrs)
    BY <1>1, <1>3, <2>1
  <2> QED BY <1>1, <1>2, <2>2, MatchIs DEF attrs
<1>5. CASE EndsEarly(gs, n + 1, attrs)
  <2>1. PICK k \in 1..(n + 1) : AbsentAndNegative(Escape(gs[k]), attrs) /\ AllHold(gs, k - 1, attrs)
    BY <1>5 DEF EndsEarly
  <2>2. AllHold(fs, k - 1, attrs)
    BY <1>1, <1>3, <2>1
  <2>3. CASE k = n + 1
    <3>1. AllHold(fs, n, attrs)
      BY <1>1, <2>2, <2>3
    <3> QED BY <1>1, <1>2, <3>1, MatchIs DEF attrs
  <2>4. CASE k \in 1..n
    <3>1. EndsEarly(fs, n, attrs)
      BY <1>1, <2>1, <2>2, <2>4 DEF EndsEarly
    <3> QED BY <1>1, <1>2, <3>1, MatchIs DEF attrs
  <2> QED BY <1>1, <2>3, <2>4
<1> QED BY <1>2, <1>4, <1>5

(* The list of filters and the attributes keep their types.                    *)
MatchingInv == filters \in Seq(Candidates) /\ attributes \in RawAttributes

LEMMA MatchingTypes == MatchingSpec => []MatchingInv
<1>1. InitMatching => MatchingInv
  BY DEF InitMatching, MatchingInv
<1>2. MatchingInv /\ [AddFilter]_matching => MatchingInv'
  BY DEF MatchingInv, AddFilter, matching
<1> QED BY <1>1, <1>2, PTL DEF MatchingSpec

(* Adding a filter behind the others can only narrow a subpopulation, although *)
(* an absent attribute may end the loop of matchByFilters early, with true for *)
(* the negative operators (filters.go 35-46).                                  *)
THEOREM FiltersNarrow == MatchingSpec => AppendingNarrows
<1>1. MatchingInv /\ [AddFilter]_matching => [AddFilter => (Matched' => Matched)]_matching
  <2> SUFFICES ASSUME MatchingInv, AddFilter, Matched' PROVE Matched
    OBVIOUS
  <2>1. PICK f \in Candidates : filters' = Append(filters, f)
    BY DEF AddFilter
  <2>2. MatchByFilters(Append(filters, f), attributes)
    BY <2>1 DEF Matched, AddFilter
  <2> QED BY <2>2, LongerListNarrows DEF Matched, MatchingInv
<1> QED BY <1>1, MatchingTypes, PTL DEF MatchingSpec, AppendingNarrows

(* When the entity has every attribute the filters name, they are a            *)
(* conjunction, and their order does not matter (filters.go 18-163).            *)
THEOREM PresentFiltersConjoin == MatchingSpec => []PresentIsConjunction
<1>1. MatchingInv => PresentIsConjunction
  <2> SUFFICES ASSUME MatchingInv, attributes # Nil,
                      \A k \in DOMAIN EscapedOnce : EscapedOnce[k].attributeName \in DOMAIN Attributes
               PROVE  Matched <=> \A k \in DOMAIN EscapedOnce : Holds(EscapedOnce[k], Attributes)
    BY DEF PresentIsConjunction
  <2> DEFINE n == Len(filters)
  <2>1. /\ n \in Nat /\ DOMAIN filters = 1..n
        /\ filters = <<>> => n = 0
    BY DEF MatchingInv
  <2>2. DOMAIN EscapedOnce = 1..n /\ \A k \in 1..n : EscapedOnce[k] = Escape(filters[k])
    BY <2>1 DEF EscapedOnce
  <2> HIDE DEF n
  <2>3. AllHold(filters, n, Attributes)
          <=> \A k \in DOMAIN EscapedOnce : Holds(EscapedOnce[k], Attributes)
    BY <2>2 DEF AllHold
  <2>4. ~EndsEarly(filters, n, Attributes)
    BY <2>2 DEF EndsEarly, AbsentAndNegative
  <2>5. filters = <<>> => AllHold(filters, n, Attributes)
    BY <2>1 DEF AllHold
  <2> QED BY <2>1, <2>3, <2>4, <2>5, MatchIs DEF Matched, Attributes
<1> QED BY <1>1, MatchingTypes, PTL

--------------------------------------------------------------------------------
(* Escaping.                                                                   *)

(* The value of a filter has, after escape, a type that escape leaves alone.   *)
LEMMA ValueOnce ==
  ASSUME NEW type, NEW operator, NEW value
  PROVE  EscapeValue(type, operator, EscapeValue(type, operator, value))
           = EscapeValue(type, operator, value)
<1>1. \A kind, v : Scalar(kind, v).kind = kind /\ Array(kind, v).kind = kind
  BY DEF Scalar, Array
<1>2. ASSUME NEW list, list.kind = "list"
      PROVE  \/ EscapeList(type, list).kind \in {"strings", "floats", "bools", "times"} /\ type # "DATE"
             \/ EscapeList(type, list).kind = "times"
             \/ EscapeList(type, list) = list /\ type \notin {"STRING", "NUMBER", "BOOLEAN", "DATE"}
  BY <1>1 DEF EscapeList
<1>3. CASE type = "DATE" /\ value.kind = "string"
  BY <1>1, <1>3 DEF EscapeValue
<1>4. CASE type = "DATE" /\ value.kind = "strings"
  BY <1>1, <1>4 DEF EscapeValue
<1>5. CASE /\ ~(type = "DATE" /\ value.kind \in {"string", "strings"})
           /\ operator \in {"IN", "NOT_IN"} /\ value.kind = "list"
  <2>1. EscapeValue(type, operator, value) = EscapeList(type, value)
    BY <1>5 DEF EscapeValue
  <2>2. CASE EscapeList(type, value) = value
    BY <2>1, <2>2
  <2>3. CASE /\ EscapeList(type, value).kind \in {"strings", "floats", "bools", "times"}
             /\ type = "DATE" => EscapeList(type, value).kind = "times"
    BY <2>1, <2>3 DEF EscapeValue
  <2> QED BY <1>2, <1>5, <2>2, <2>3
<1>6. CASE /\ ~(type = "DATE" /\ value.kind \in {"string", "strings"})
           /\ ~(operator \in {"IN", "NOT_IN"} /\ value.kind = "list")
  BY <1>6 DEF EscapeValue
<1> QED BY <1>3, <1>4, <1>5, <1>6

(* Two fields of a record of four change.                                      *)
LEMMA EscapeIs ==
  ASSUME NEW n, NEW o, NEW t, NEW v
  PROVE  Escape([attributeName |-> n, operator |-> o, type |-> t, value |-> v])
           = [attributeName |-> Lower[n], operator |-> o, type |-> t, value |-> EscapeValue(t, o, v)]
<1> DEFINE f       == [attributeName |-> n, operator |-> o, type |-> t, value |-> v]
           R(x, y) == [attributeName : {x}, operator : {o}, type : {t}, value : {y}]
<1>1. f.attributeName = n /\ f.operator = o /\ f.type = t /\ f.value = v /\ f \in R(n, v)
  OBVIOUS
<1> HIDE DEF f
<1>2. \A x, y : [f EXCEPT !.attributeName = x, !.value = y] \in R(x, y)
  BY <1>1
<1>3. Escape(f) = [f EXCEPT !.attributeName = Lower[n], !.value = EscapeValue(t, o, v)]
  BY <1>1 DEF Escape
<1>4. Escape(f) \in R(Lower[n], EscapeValue(t, o, v))
  BY <1>2, <1>3
<1> QED BY <1>4 DEF f

LEMMA FilterOnce == ASSUME NEW f \in Candidates PROVE Escape(Escape(f)) = Escape(f)
<1> DEFINE n == f.attributeName
           o == f.operator
           t == f.type
           v == f.value
<1>1. f = [attributeName |-> n, operator |-> o, type |-> t, value |-> v] /\ Lower[Lower[n]] = Lower[n]
  BY CandidatesAssumption, NamesAssumption DEF CandidatesAssumption, NamesAssumption
<1> HIDE DEF n, o, t, v
<1>2. Escape(f) = [attributeName |-> Lower[n], operator |-> o, type |-> t,
                   value |-> EscapeValue(t, o, v)]
  BY <1>1, EscapeIs
<1>3. Escape(Escape(f)) = [attributeName |-> Lower[Lower[n]], operator |-> o, type |-> t,
                           value |-> EscapeValue(t, o, EscapeValue(t, o, v))]
  BY <1>2, EscapeIs
<1> QED BY <1>1, <1>2, <1>3, ValueOnce

(* The attributes of an application, and those escapeAttributes makes of them: *)
(* lower-case names, and values of the types it keeps.                         *)
Plain(a) ==
  /\ a = [n \in DOMAIN a |-> a[n]] /\ DOMAIN a \subseteq Names
  /\ \A n \in DOMAIN a : Lower[n] = n /\ a[n] \in Values /\ a[n].kind \in {"float", "bool", "string"}

LEMMA AttributeTypes ==
  ASSUME NEW a \in RawAttributes, a # Nil
  PROVE  DOMAIN a \subseteq Names /\ \A n \in DOMAIN a : a[n] \in Values
<1>1. \A x : IsAttribute(x) => x \in Values
  BY DEF IsAttribute, Values
<1> QED BY <1>1, AttributesAssumption DEF AttributesAssumption

LEMMA ConvertIs ==
  ASSUME NEW x \in Values, x.kind \in {"int", "float32", "float", "bool", "string"}
  PROVE  Convert(x) \in Values /\ Convert(x).kind \in {"float", "bool", "string"}
<1>1. CASE x.kind \in {"int", "float32"}
  <2>1. x \in Numbers
    BY <1>1 DEF Values, Texts, Numbers, Truths, Others
  <2>2. Convert(x) = [x EXCEPT !.kind = "float"]
    BY <1>1 DEF Convert
  <2>3. Convert(x) \in Numbers /\ Convert(x).kind = "float"
    BY <2>1, <2>2 DEF Numbers
  <2> QED BY <2>3 DEF Values
<1>2. CASE x.kind \notin {"int", "float32"}
  BY <1>2 DEF Convert
<1> QED BY <1>1, <1>2

LEMMA EscapedIsPlain == ASSUME NEW a \in RawAttributes PROVE Plain(Escaped(a))
<1>1. CASE a = Nil
  BY <1>1 DEF Escaped, Plain
<1>2. CASE a # Nil
  <2> DEFINE valid == {n \in DOMAIN a : a[n].kind \in {"int", "float32", "float", "bool", "string"}}
             from(n) == CHOOSE m \in valid : Lower[m] = n
             names   == {Lower[m] : m \in valid}
             b       == [n \in names |-> Convert(a[from(n)])]
  <2>1. Escaped(a) = b
    BY <1>2 DEF Escaped, EscapeAttributes
  <2>2. /\ valid \subseteq Names
        /\ \A m \in valid : /\ a[m] \in Values
                            /\ a[m].kind \in {"int", "float32", "float", "bool", "string"}
    BY <1>2, AttributeTypes
  <2>3. ASSUME NEW n \in names
        PROVE  n \in Names /\ Lower[n] = n /\ from(n) \in valid
    <3>1. PICK m \in valid : Lower[m] = n
      OBVIOUS
    <3>2. from(n) \in valid
      BY <3>1
    <3> QED BY <2>2, <3>1, <3>2, NamesAssumption DEF NamesAssumption
  <2> HIDE DEF valid, from, names
  <2>4. \A n \in names : b[n] \in Values /\ b[n].kind \in {"float", "bool", "string"}
    BY <2>2, <2>3, ConvertIs
  <2>5. DOMAIN b = names /\ b = [n \in DOMAIN b |-> b[n]]
    OBVIOUS
  <2> HIDE DEF b
  <2>6. Plain(b)
    BY <2>3, <2>4, <2>5 DEF Plain
  <2> QED BY <2>1, <2>6
<1> QED BY <1>1, <1>2

(* Plain attributes are those escaping does not change.                        *)
LEMMA PlainOnce == ASSUME NEW a, Plain(a) PROVE a # Nil /\ Escaped(a) = a
<1>1. a \in [DOMAIN a -> Values] /\ DOMAIN a \in SUBSET Names
  BY DEF Plain
<1>2. a # Nil
  BY <1>1, AttributesAssumption DEF AttributesAssumption
<1> DEFINE valid == {n \in DOMAIN a : a[n].kind \in {"int", "float32", "float", "bool", "string"}}
           from(n) == CHOOSE m \in valid : Lower[m] = n
           names   == {Lower[m] : m \in valid}
<1>3. valid = DOMAIN a
  BY DEF Plain
<1>4. \A m \in valid : Lower[m] = m
  BY DEF Plain
<1> HIDE DEF valid
<1>5. names = valid /\ \A n \in valid : from(n) = n
  BY <1>4
<1>6. \A n \in valid : Convert(a[n]) = a[n]
  BY <1>3 DEF Plain, Convert
<1>7. EscapeAttributes(a) = [n \in names |-> Convert(a[from(n)])]
  BY DEF EscapeAttributes, valid
<1> HIDE DEF from, names
<1>8. [n \in names |-> Convert(a[from(n)])] = [n \in DOMAIN a |-> a[n]]
  BY <1>3, <1>5, <1>6
<1> QED BY <1>2, <1>7, <1>8 DEF Escaped, Plain

(* Propagated attributes are plain, and propagating again adds nothing.        *)
LEMMA PropagateOnce ==
  ASSUME NEW a, Plain(a), NEW who, who.id \in Strings, who.name \in Strings
  PROVE  /\ Plain(Propagate(who, a))
         /\ \A x : x.id = who.id /\ x.name = who.name =>
              Propagate(x, Escaped(Propagate(who, a))) = Propagate(who, a)
<1> DEFINE P(x) == {"id"} \cup (IF x.name = EmptyName THEN {} ELSE {"name"})
           b    == Propagate(who, a)
<1>1. b = [n \in DOMAIN a \cup P(who) |-> IF n \in DOMAIN a THEN a[n] ELSE Scalar("string", who[n])]
  BY DEF Propagate
<1>2. \A n \in {"id", "name"} : n \in Names /\ Lower[n] = n
  BY PropagatedAssumption DEF PropagatedAssumption
<1>3. \A n \in P(who) : n \in {"id", "name"} /\ who[n] \in Strings
  OBVIOUS
<1>4. \A s \in Strings : Scalar("string", s) \in Values /\ Scalar("string", s).kind = "string"
  BY DEF Scalar, Values, Texts
<1>5. /\ DOMAIN b = DOMAIN a \cup P(who) /\ b = [n \in DOMAIN b |-> b[n]]
      /\ \A n \in DOMAIN a : b[n] = a[n]
      /\ \A n \in P(who) : n \notin DOMAIN a => b[n] = Scalar("string", who[n])
  BY <1>1
<1> HIDE DEF b
<1>6. Plain(b)
  <2>1. ASSUME NEW n \in DOMAIN b
        PROVE  /\ n \in Names /\ Lower[n] = n
               /\ b[n] \in Values /\ b[n].kind \in {"float", "bool", "string"}
    <3>1. CASE n \in DOMAIN a
      BY <1>5, <3>1 DEF Plain
    <3>2. CASE n \notin DOMAIN a
      <4>1. n \in P(who) /\ b[n] = Scalar("string", who[n])
        BY <1>5, <2>1, <3>2
      <4> QED BY <1>2, <1>3, <1>4, <4>1
    <3> QED BY <3>1, <3>2
  <2> QED BY <1>5, <2>1 DEF Plain
<1>7. ASSUME NEW x, x.id = who.id, x.name = who.name PROVE Propagate(x, Escaped(b)) = b
  <2>1. Escaped(b) = b
    BY <1>6, PlainOnce
  <2>2. P(x) = P(who)
    BY <1>7
  <2>3. Propagate(x, b) = [n \in DOMAIN b \cup P(x) |->
                             IF n \in DOMAIN b THEN b[n] ELSE Scalar("string", x[n])]
    BY DEF Propagate
  <2>4. DOMAIN b \cup P(x) = DOMAIN b
    BY <1>5, <2>2
  <2> HIDE DEF P
  <2>5. Propagate(x, b) = [n \in DOMAIN b |-> b[n]]
    BY <2>3, <2>4
  <2> QED BY <1>5, <2>1, <2>5
<1> QED BY <1>6, <1>7 DEF b

(* Groups, entities and events, field by field.                                *)
LEMMA GroupOnce ==
  ASSUME attributes \in RawAttributes, NEW g \in Groups
  PROVE  EscapeGroup(EscapeGroup(g)) = EscapeGroup(g)
<1> DEFINE p == Propagate(g, Escaped(attributes))
           h == EscapeGroup(g)
<1>1. g.id \in Strings /\ g.name \in Strings /\ g.attributes = attributes
  BY IdsAssumption DEF IdsAssumption, Groups
<1>2. \A x : x.id = g.id /\ x.name = g.name => Propagate(x, Escaped(p)) = p
  BY <1>1, EscapedIsPlain, PropagateOnce
<1>3. h = [g EXCEPT !.attributes = p]
  BY <1>1 DEF EscapeGroup
<1> HIDE DEF p
<1>4. h \in [id : {g.id}, type : {g.type}, name : {g.name}, attributes : {p}]
  BY <1>3 DEF Groups
<1> HIDE DEF h
<1>5. EscapeGroup(h) = [h EXCEPT !.attributes = p]
  BY <1>2, <1>4 DEF EscapeGroup
<1>6. EscapeGroup(h) = h
  BY <1>4, <1>5
<1> QED BY <1>6 DEF h

LEMMA EntityOnce ==
  ASSUME attributes \in RawAttributes, NEW e \in {Nil} \cup Subjects
  PROVE  EscapeEntity(EscapeEntity(e)) = EscapeEntity(e)
<1>1. CASE e = Nil
  BY <1>1 DEF EscapeEntity
<1>2. CASE e # Nil
  <2> DEFINE p == Propagate(e, Escaped(attributes))
             t == IF e.type = EmptyType THEN "User" ELSE e.type
             g == IF e.group = Nil THEN Nil ELSE EscapeGroup(e.group)
             x == EscapeEntity(e)
             R == [id : {e.id}, type : {t}, name : {e.name}, attributes : {p}, group : {g}]
  <2>1. /\ e \in Subjects /\ e.id \in Strings /\ e.name \in Strings /\ e.attributes = attributes
        /\ e.group \in {Nil} \cup Groups
    BY <1>2, IdsAssumption DEF IdsAssumption, Subjects
  <2>2. \A y : y.id = e.id /\ y.name = e.name => Propagate(y, Escaped(p)) = p
    BY <2>1, EscapedIsPlain, PropagateOnce
  <2>3. (IF g = Nil THEN Nil ELSE EscapeGroup(g)) = g
    <3>1. CASE e.group = Nil
      BY <3>1
    <3>2. CASE e.group # Nil
      BY <2>1, <3>2, GroupOnce
    <3> QED BY <3>1, <3>2
  <2>4. (IF t = EmptyType THEN "User" ELSE t) = t
    OBVIOUS
  <2>5. x = [e EXCEPT !.attributes = p, !.type = t, !.group = g]
    BY <1>2, <2>1 DEF EscapeEntity
  <2> HIDE DEF p, t, g
  <2>6. x \in R
    BY <2>1, <2>5 DEF Subjects
  <2> HIDE DEF x
  <2>7. x.id = e.id /\ x.name = e.name /\ x.attributes = p /\ x.type = t /\ x.group = g
    BY <2>6
  <2>8. CASE x = Nil
    BY <2>8 DEF EscapeEntity, x
  <2>9. CASE x # Nil
    <3>1. EscapeEntity(x) = [x EXCEPT !.attributes = p, !.type = t, !.group = g]
      BY <2>2, <2>3, <2>4, <2>7, <2>9 DEF EscapeEntity
    <3>2. EscapeEntity(x) \in R
      BY <2>6, <3>1
    <3>3. EscapeEntity(x) = x
      BY <2>6, <3>2
    <3> QED BY <3>3 DEF x
  <2> QED BY <2>8, <2>9
<1> QED BY <1>1, <1>2

LEMMA EventOnce ==
  ASSUME attributes \in RawAttributes, NEW e \in Events
  PROVE  EscapeEvent(EscapeEvent(e)) = EscapeEvent(e)
<1> DEFINE a == Escaped(attributes)
           y == EscapeEntity(e.entity)
           x == EscapeEvent(e)
           R == [name : {e.name}, eventProperties : {a}, entity : {y}]
<1>1. e.eventProperties = attributes /\ e.entity \in {Nil} \cup Subjects
  BY DEF Events
<1>2. Escaped(a) = a /\ EscapeEntity(y) = y
  BY <1>1, EscapedIsPlain, PlainOnce, EntityOnce
<1>3. x = [e EXCEPT !.eventProperties = a, !.entity = y]
  BY <1>1 DEF EscapeEvent
<1> HIDE DEF a, y
<1>4. x \in R
  BY <1>3 DEF Events
<1> HIDE DEF x
<1>5. x.eventProperties = a /\ x.entity = y
  BY <1>4
<1>6. EscapeEvent(x) = [x EXCEPT !.eventProperties = a, !.entity = y]
  BY <1>2, <1>5 DEF EscapeEvent
<1>7. EscapeEvent(x) \in R
  BY <1>4, <1>6
<1>8. EscapeEvent(x) = x
  BY <1>4, <1>7
<1> QED BY <1>8 DEF x

(* Escaping a filter, or an event with its entity, group and attributes, a     *)
(* second time changes nothing (filters.go 31-33, types.go 89-160, 180-205,    *)
(* 258-300 and 350-356).                                                       *)
THEOREM SecondEscapeIsNone == MatchingSpec => []EscapeIsIdempotent
<1>1. MatchingInv => EscapeIsIdempotent
  <2> SUFFICES ASSUME MatchingInv
               PROVE  /\ \A k \in DOMAIN EscapedOnce : Escape(EscapedOnce[k]) = EscapedOnce[k]
                      /\ \A e \in Events : EscapeEvent(EscapeEvent(e)) = EscapeEvent(e)
    BY DEF EscapeIsIdempotent
  <2>1. ASSUME NEW k \in DOMAIN EscapedOnce PROVE Escape(EscapedOnce[k]) = EscapedOnce[k]
    <3>1. k \in DOMAIN filters /\ EscapedOnce[k] = Escape(filters[k])
      BY DEF EscapedOnce
    <3>2. filters[k] \in Candidates
      BY <3>1 DEF MatchingInv
    <3> QED BY <3>1, <3>2, FilterOnce
  <2> QED BY <2>1, EventOnce DEF MatchingInv
<1> QED BY <1>1, MatchingTypes, PTL
--------------------------------------------------------------------------------
(* Evaluating an edited flag.                                                  *)

(* What the rules of evaluateFlag answer.                                      *)
IsOff(r, reason) ==
  r.enabled = FALSE /\ r.sampled = FALSE /\ r.variation = Off /\ r.reason = reason

IsListed(r, variation, reason) ==
  r.enabled = TRUE /\ r.sampled = FALSE /\ r.variation = variation /\ r.reason = reason

IsSampledAs(r, variation, reason) ==
  r.enabled = TRUE /\ r.sampled = TRUE /\ r.variation = variation /\ r.reason = reason

(* The eight rules, each with what keeps those before it away.                 *)
GroupRules(f, e, r) ==
  \/ /\ HasGroup(e) /\ Blacklisted(f, e.group)
     /\ IsOff(r, "GroupBlacklist")
  \/ /\ HasGroup(e) /\ ~Blacklisted(f, e.group) /\ Whitelisted(f, e.group)
     /\ IsListed(r, ListedVariation(f, e.group), "GroupWhitelist")

SamplingRules(f, e, r) ==
  \/ /\ Sampled(0, f, e)
     /\ IsSampledAs(r, SampledVariation(f, e), "IsSampled")
  \/ /\ ~Sampled(0, f, e) /\ HasGroup(e) /\ Sampled(0, f, e.group)
     /\ IsSampledAs(r, SampledVariation(f, e.group), "IsSampledByGroup")
  \/ /\ ~Sampled(0, f, e) /\ ~(HasGroup(e) /\ Sampled(0, f, e.group))
     /\ IsOff(r, "Default")

LEMMA EvaluateIs ==
  ASSUME NEW f, NEW e
  PROVE  LET r == Evaluate(0, f, e)
         IN  \/ f.killSwitchEngaged /\ IsOff(r, "KillSwitchEngaged")
             \/ /\ ~f.killSwitchEngaged
                /\ \/ Blacklisted(f, e) /\ IsOff(r, "IndividualBlacklist")
                   \/ /\ ~Blacklisted(f, e) /\ Whitelisted(f, e)
                      /\ IsListed(r, ListedVariation(f, e), "IndividualWhitelist")
                   \/ /\ ~Blacklisted(f, e) /\ ~Whitelisted(f, e)
                      /\ \/ GroupRules(f, e, r)
                         \/ /\ ~(HasGroup(e) /\ (Blacklisted(f, e.group) \/ Whitelisted(f, e.group)))
                            /\ SamplingRules(f, e, r)
<1>1. \A v, reason : /\ IsOff(Result(f, FALSE, FALSE, Off, reason), reason)
                     /\ IsListed(Result(f, TRUE, FALSE, v, reason), v, reason)
                     /\ IsSampledAs(Result(f, TRUE, TRUE, v, reason), v, reason)
  BY DEF Result, IsOff, IsListed, IsSampledAs
<1> DEFINE r == Evaluate(0, f, e)
<1>2. CASE f.killSwitchEngaged \/ Blacklisted(f, e) \/ Whitelisted(f, e)
  BY <1>1, <1>2 DEF Evaluate
<1>3. CASE ~(f.killSwitchEngaged \/ Blacklisted(f, e) \/ Whitelisted(f, e))
  <2>1. CASE HasGroup(e) /\ (Blacklisted(f, e.group) \/ Whitelisted(f, e.group))
    <3>1. GroupRules(f, e, r)
      BY <1>1, <1>3, <2>1 DEF Evaluate, GroupRules
    <3> QED BY <1>3, <2>1, <3>1
  <2>2. CASE ~(HasGroup(e) /\ (Blacklisted(f, e.group) \/ Whitelisted(f, e.group)))
    <3>1. SamplingRules(f, e, r)
      BY <1>1, <1>3, <2>2 DEF Evaluate, SamplingRules, GroupVariation
    <3> QED BY <1>3, <2>2, <3>1
  <2> QED BY <2>1, <2>2
<1> QED BY <1>2, <1>3

(* The eight reasons differ, and a flag that is on has one of four.            *)
LEMMA ReasonIs ==
  ASSUME NEW f, NEW e
  PROVE  LET r == Evaluate(0, f, e)
         IN  /\ r.reason = "IndividualWhitelist" => r.variation = ListedVariation(f, e)
             /\ r.reason = "GroupBlacklist" => Blacklisted(f, e.group) /\ r.variation = Off
             /\ r.reason = "GroupWhitelist" => /\ ~Blacklisted(f, e.group)
                                               /\ Whitelisted(f, e.group)
                                               /\ r.variation = ListedVariation(f, e.group)
             /\ r.reason = "IsSampled" => r.variation = SampledVariation(f, e)
             /\ r.reason = "IsSampledByGroup" =>
                  /\ ~Blacklisted(f, e.group) /\ ~Whitelisted(f, e.group)
                  /\ r.variation = SampledVariation(f, e.group)
             /\ r.enabled => r.reason \in {"IndividualWhitelist", "GroupWhitelist",
                                           "IsSampled", "IsSampledByGroup"}
BY EvaluateIs DEF IsOff, IsListed, IsSampledAs, GroupRules, SamplingRules

(* What the lists say of the entity itself beats its group and its hash; what  *)
(* they say of its group beats both hashes; a blacklist beats the whitelist of *)
(* the same level (evaluate.go 47-119).                                        *)
THEOREM ListsComeFirst == EditingSpec => []ListsBeatSampling
<1>1. ListsBeatSampling
  <2> DEFINE r         == Outcome(entity)
             black(w)  == Blacklisted(flag, w)
             listed(w) == Blacklisted(flag, w) \/ Whitelisted(flag, w)
             grouped   == HasGroup(entity) /\ listed(entity.group)
  <2> SUFFICES ASSUME ~flag.killSwitchEngaged
               PROVE  /\ listed(entity) => r.enabled = ~black(entity)
                      /\ ~listed(entity) /\ grouped => r.enabled = ~black(entity.group)
                      /\ r.sampled => ~listed(entity) /\ ~grouped
    BY DEF ListsBeatSampling
  <2>1. \/ Blacklisted(flag, entity) /\ IsOff(r, "IndividualBlacklist")
        \/ /\ ~Blacklisted(flag, entity) /\ Whitelisted(flag, entity)
           /\ IsListed(r, ListedVariation(flag, entity), "IndividualWhitelist")
        \/ /\ ~listed(entity)
           /\ GroupRules(flag, entity, r) \/ (~grouped /\ SamplingRules(flag, entity, r))
    BY EvaluateIs DEF Outcome
  <2> HIDE DEF r
  <2> QED BY <2>1 DEF IsOff, IsListed, IsSampledAs, GroupRules, SamplingRules
<1> QED BY <1>1, PTL

(* Members of one group that owe the flag to their group get one variation:    *)
(* it depends on the group alone (evaluate.go 69-119).                         *)
THEOREM MembersGetOneVariation == EditingSpec => []GroupMembersAgree
<1>1. GroupMembersAgree
  BY ReasonIs DEF GroupMembersAgree, Outcome
<1> QED BY <1>1, PTL

(* The edits leave the codename, the hash key and the variations of the flag   *)
(* as they are, and keep the shares on the scale.                              *)
Shaped(f) ==
  /\ f = [codename |-> f.codename, killSwitchEngaged |-> f.killSwitchEngaged,
          hashKey |-> f.hashKey, variations |-> f.variations,
          subpopulations |-> f.subpopulations,
          blacklist |-> f.blacklist, whitelist |-> f.whitelist]
  /\ f.subpopulations = [k \in DOMAIN f.subpopulations |-> f.subpopulations[k]]
  /\ \A k \in DOMAIN f.subpopulations :
       LET sp == f.subpopulations[k]
       IN  /\ sp = [entityType |-> sp.entityType, samplingPercentage |-> sp.samplingPercentage,
                    filters |-> sp.filters]
           /\ sp.samplingPercentage \in 0..Scale

Kept(f) == \E g \in InitialFlags : /\ f.codename = g.codename /\ f.hashKey = g.hashKey
                                   /\ f.variations = g.variations

EditingInv == Shaped(flag) /\ Kept(flag) /\ entity \in Entities

(* One field of a flag changes.                                                *)
LEMMA FieldsStay ==
  ASSUME NEW f, Shaped(f), NEW x
  PROVE  /\ LET g == [f EXCEPT !.killSwitchEngaged = x]
            IN  /\ g.codename = f.codename /\ g.hashKey = f.hashKey /\ g.variations = f.variations
                /\ g.subpopulations = f.subpopulations
                /\ Shaped(g)
         /\ LET g == [f EXCEPT !.blacklist = x]
            IN  /\ g.codename = f.codename /\ g.hashKey = f.hashKey /\ g.variations = f.variations
                /\ g.subpopulations = f.subpopulations
                /\ Shaped(g)
         /\ LET g == [f EXCEPT !.whitelist = x]
            IN  /\ g.codename = f.codename /\ g.hashKey = f.hashKey /\ g.variations = f.variations
                /\ g.subpopulations = f.subpopulations
                /\ Shaped(g)
BY DEF Shaped

(* What Grow changes: one share.                                               *)
Grown(f, g) ==
  /\ g.codename = f.codename /\ g.hashKey = f.hashKey /\ g.variations = f.variations
  /\ g.killSwitchEngaged = f.killSwitchEngaged
  /\ g.blacklist = f.blacklist /\ g.whitelist = f.whitelist
  /\ DOMAIN g.subpopulations = DOMAIN f.subpopulations
  /\ \A k \in DOMAIN f.subpopulations :
       /\ g.subpopulations[k].entityType = f.subpopulations[k].entityType
       /\ g.subpopulations[k].filters = f.subpopulations[k].filters
       /\ g.subpopulations[k].samplingPercentage >= f.subpopulations[k].samplingPercentage

LEMMA GrowIs ==
  ASSUME NEW f, Shaped(f), NEW k \in DOMAIN f.subpopulations,
         f.subpopulations[k].samplingPercentage < Scale
  PROVE  LET g == [f EXCEPT !.subpopulations[k].samplingPercentage = @ + 1]
         IN  Grown(f, g) /\ Shaped(g)
<1> DEFINE sp  == f.subpopulations[k]
           sp2 == [sp EXCEPT !.samplingPercentage = @ + 1]
           sps == [f.subpopulations EXCEPT ![k] = sp2]
           g   == [f EXCEPT !.subpopulations = sps]
<1>1. g = [f EXCEPT !.subpopulations[k].samplingPercentage = @ + 1]
  OBVIOUS
<1>2. /\ sp2.entityType = sp.entityType /\ sp2.filters = sp.filters
      /\ sp2.samplingPercentage = sp.samplingPercentage + 1
      /\ sp2 = [entityType |-> sp2.entityType, samplingPercentage |-> sp2.samplingPercentage,
                filters |-> sp2.filters]
  BY DEF Shaped
<1>3. sp.samplingPercentage \in Nat /\ Scale \in Nat /\ sp.samplingPercentage + 1 \in 0..Scale
  BY HashesAssumption DEF HashesAssumption, Shaped
<1> HIDE DEF sp2
<1>4. /\ DOMAIN sps = DOMAIN f.subpopulations
      /\ sps = [j \in DOMAIN sps |-> sps[j]]
      /\ sps[k] = sp2 /\ \A j \in DOMAIN sps : j # k => sps[j] = f.subpopulations[j]
  BY DEF Shaped
<1> HIDE DEF sps
<1>5. /\ g.codename = f.codename /\ g.hashKey = f.hashKey /\ g.variations = f.variations
      /\ g.killSwitchEngaged = f.killSwitchEngaged
      /\ g.blacklist = f.blacklist /\ g.whitelist = f.whitelist
      /\ g.subpopulations = sps
      /\ g = [codename |-> g.codename, killSwitchEngaged |-> g.killSwitchEngaged,
              hashKey |-> g.hashKey, variations |-> g.variations,
              subpopulations |-> g.subpopulations,
              blacklist |-> g.blacklist, whitelist |-> g.whitelist]
  BY DEF Shaped
<1> HIDE DEF g
<1>6. ASSUME NEW j \in DOMAIN sps
      PROVE  /\ sps[j].entityType = f.subpopulations[j].entityType
             /\ sps[j].filters = f.subpopulations[j].filters
             /\ sps[j].samplingPercentage >= f.subpopulations[j].samplingPercentage
             /\ sps[j] = [entityType |-> sps[j].entityType,
                          samplingPercentage |-> sps[j].samplingPercentage,
                          filters |-> sps[j].filters]
             /\ sps[j].samplingPercentage \in 0..Scale
  <2>1. CASE j = k
    BY <1>2, <1>3, <1>4, <2>1
  <2>2. CASE j # k
    <3>1. sps[j] = f.subpopulations[j] /\ f.subpopulations[j].samplingPercentage \in 0..Scale
      BY <1>4, <2>2 DEF Shaped
    <3>2. f.subpopulations[j] = [entityType |-> f.subpopulations[j].entityType,
                                 samplingPercentage |-> f.subpopulations[j].samplingPercentage,
                                 filters |-> f.subpopulations[j].filters]
      BY <1>4 DEF Shaped
    <3> QED BY <1>3, <3>1, <3>2
  <2> QED BY <2>1, <2>2
<1>7. Grown(f, g)
  BY <1>4, <1>5, <1>6 DEF Grown
<1>8. Shaped(g)
  BY <1>4, <1>5, <1>6 DEF Shaped
<1> QED BY <1>1, <1>7, <1>8

LEMMA EditingTypes == EditingSpec => []EditingInv
<1>1. InitFlag => EditingInv
  <2> SUFFICES ASSUME InitFlag PROVE EditingInv
    OBVIOUS
  <2>1. flag \in InitialFlags /\ entity \in Entities
    BY DEF InitFlag
  <2>2. Shaped(flag)
    BY <2>1, FlagsAssumption DEF FlagsAssumption, Shaped
  <2> QED BY <2>1, <2>2 DEF EditingInv, Kept
<1>2. EditingInv /\ [EditFlag]_evaluating => EditingInv'
  <2> SUFFICES ASSUME EditingInv, [EditFlag]_evaluating PROVE EditingInv'
    OBVIOUS
  <2>1. CASE Grow /\ UNCHANGED entity
    <3>1. PICK k \in DOMAIN flag.subpopulations :
            /\ flag.subpopulations[k].samplingPercentage < Scale
            /\ flag' = [flag EXCEPT !.subpopulations[k].samplingPercentage = @ + 1]
      BY <2>1 DEF Grow
    <3>2. Grown(flag, flag') /\ Shaped(flag')
      BY <3>1, GrowIs DEF EditingInv
    <3> QED BY <2>1, <3>2 DEF EditingInv, Kept, Grown
  <2>2. CASE (Blacklist \/ Whitelist \/ Kill) /\ UNCHANGED entity
    <3>1. PICK x : \/ flag' = [flag EXCEPT !.blacklist = x]
                   \/ flag' = [flag EXCEPT !.whitelist = x]
                   \/ flag' = [flag EXCEPT !.killSwitchEngaged = x]
      BY <2>2 DEF Blacklist, Whitelist, Kill
    <3> DEFINE Kin(g) == /\ g.codename = flag.codename /\ g.hashKey = flag.hashKey
                         /\ g.variations = flag.variations /\ Shaped(g)
    <3>2. /\ Kin([flag EXCEPT !.blacklist = x]) /\ Kin([flag EXCEPT !.whitelist = x])
          /\ Kin([flag EXCEPT !.killSwitchEngaged = x])
      BY FieldsStay DEF EditingInv
    <3>3. Kin(flag')
      BY <3>1, <3>2
    <3> QED BY <2>2, <3>3 DEF EditingInv, Kept
  <2>3. CASE UNCHANGED evaluating
    BY <2>3 DEF EditingInv, Kept, evaluating
  <2> QED BY <2>1, <2>2, <2>3 DEF EditFlag
<1> QED BY <1>1, <1>2, PTL DEF EditingSpec

(* When the probabilities add up to the whole scale, a hash on the scale is    *)
(* reached by some variation, and the first one is chosen.                     *)
LEMMA ChosenIsOwn ==
  ASSUME EditingInv, NEW who \in Who(entity)
  PROVE  \E k \in DOMAIN flag.variations : SampledVariation(flag, who) = flag.variations[k].codename
<1> DEFINE hash    == VariationHash(flag.codename, who.id, who.type)
           vs      == flag.variations
           reached == {k \in DOMAIN vs : hash <= Cumulative(vs)[k]}
<1>1. PICK f \in InitialFlags : flag.codename = f.codename /\ vs = f.variations
  BY DEF EditingInv, Kept
<1>2. /\ Len(vs) \in Nat \ {0} /\ DOMAIN vs = 1..Len(vs) /\ Cumulative(vs)[Len(vs)] = Scale
  BY <1>1, FlagsAssumption DEF FlagsAssumption
<1>3. hash \in 0..Scale /\ Scale \in Nat
  BY <1>1, HashesAssumption DEF HashesAssumption, EditingInv
<1>4. SampledVariation(flag, who)
        = IF reached = {} THEN Off
          ELSE vs[CHOOSE k \in reached : \A j \in reached : k <= j].codename
  BY DEF SampledVariation, ChooseVariation
<1> HIDE DEF hash, vs
<1>5. Len(vs) \in reached /\ reached \in SUBSET Nat /\ reached # {}
  BY <1>2, <1>3
<1>6. \E k \in reached : \A j \in reached : k <= j
  BY <1>5, Least
<1> DEFINE first == CHOOSE k \in reached : \A j \in reached : k <= j
<1>7. first \in reached
  BY <1>6
<1> QED BY <1>4, <1>5, <1>7 DEF vs

LEMMA NoneIsOff ==
  ASSUME EditingInv, NEW k \in DOMAIN flag.variations
  PROVE  flag.variations[k].codename # Off
<1>1. PICK f \in InitialFlags : flag.variations = f.variations
  BY DEF EditingInv, Kept
<1>2. \A j \in DOMAIN f.variations : f.variations[j].codename # Off
  BY <1>1, FlagsAssumption DEF FlagsAssumption
<1> QED BY <1>1, <1>2

(* A flag is off exactly when it is reported disabled, as far as its lists     *)
(* name variations it has, and a sampled entity gets one of the flag's         *)
(* variations whatever its hash (evaluate.go 75-210, 212-219 and 227-236).     *)
THEOREM OutcomesAreConsistent == EditingSpec => []OutcomeIsConsistent
<1>1. EditingInv => OutcomeIsConsistent
  <2> SUFFICES ASSUME EditingInv PROVE OutcomeIsConsistent
    OBVIOUS
  <2> DEFINE r     == Outcome(entity)
             names == {flag.variations[k].codename : k \in DOMAIN flag.variations}
  <2>1. SampledVariation(flag, entity) \in names
    BY ChosenIsOwn DEF Who
  <2>2. HasGroup(entity) => SampledVariation(flag, entity.group) \in names
    BY ChosenIsOwn DEF Who
  <2>3. Off \notin names
    BY NoneIsOff
  <2> HIDE DEF names
  <2>4. \/ r.enabled = FALSE /\ r.sampled = FALSE /\ r.variation = Off
        \/ /\ r.enabled = TRUE /\ r.sampled = FALSE
           /\ r.reason \in {"IndividualWhitelist", "GroupWhitelist"}
        \/ r.enabled = TRUE /\ r.sampled = TRUE /\ r.variation \in names
    BY <2>1, <2>2, EvaluateIs
       DEF Outcome, IsOff, IsListed, IsSampledAs, GroupRules, SamplingRules
  <2> HIDE DEF r
  <2>5. /\ ~r.enabled => r.variation = Off /\ ~r.sampled
        /\ r.sampled => r.variation \in names
        /\ r.enabled /\ r.variation = Off => r.reason \in {"IndividualWhitelist", "GroupWhitelist"}
    BY <2>3, <2>4
  <2> QED BY <2>5 DEF OutcomeIsConsistent, r, names
<1> QED BY <1>1, EditingTypes, PTL

--------------------------------------------------------------------------------
(* Growing a share.                                                            *)

(* Whoever is sampled remains so, because the hash does not depend on the      *)
(* shares.                                                                     *)
LEMMA SampledStays ==
  ASSUME EditingInv, NEW g, Grown(flag, g), Shaped(g), NEW who \in Who(entity),
         Sampled(0, flag, who)
  PROVE  Sampled(0, g, who)
<1> DEFINE hash == SamplingHash(0, flag.hashKey, who.id, who.type)
<1>1. hash \in Nat
  BY HashesAssumption DEF HashesAssumption, EditingInv, Kept
<1>2. PICK k \in DOMAIN flag.subpopulations :
        /\ flag.subpopulations[k].entityType = who.type
        /\ hash < flag.subpopulations[k].samplingPercentage
        /\ MatchByFilters(flag.subpopulations[k].filters, who.attributes)
  BY DEF Sampled
<1>3. /\ g.hashKey = flag.hashKey /\ k \in DOMAIN g.subpopulations
      /\ g.subpopulations[k].entityType = flag.subpopulations[k].entityType
      /\ g.subpopulations[k].filters = flag.subpopulations[k].filters
      /\ g.subpopulations[k].samplingPercentage >= flag.subpopulations[k].samplingPercentage
  BY DEF Grown
<1>4. flag.subpopulations[k].samplingPercentage \in Nat /\ g.subpopulations[k].samplingPercentage \in Nat
  BY <1>3, HashesAssumption DEF HashesAssumption, EditingInv, Shaped
<1> HIDE DEF hash
<1>5. hash < g.subpopulations[k].samplingPercentage
  BY <1>1, <1>2, <1>3, <1>4
<1> QED BY <1>2, <1>3, <1>5 DEF Sampled, hash

(* The lists and the variations take no part in it.                            *)
LEMMA GrownSame ==
  ASSUME NEW f, NEW g, Grown(f, g), NEW who
  PROVE  /\ Blacklisted(g, who) <=> Blacklisted(f, who)
         /\ Whitelisted(g, who) <=> Whitelisted(f, who)
         /\ ListedVariation(g, who) = ListedVariation(f, who)
         /\ SampledVariation(g, who) = SampledVariation(f, who)
BY DEF Grown, Blacklisted, Whitelisted, ListedVariation, SampledVariation

LEMMA GrowGrows ==
  ASSUME EditingInv, Grow
  PROVE  Grown(flag, flag') /\ Shaped(flag')
<1>1. PICK k \in DOMAIN flag.subpopulations :
        /\ flag.subpopulations[k].samplingPercentage < Scale
        /\ flag' = [flag EXCEPT !.subpopulations[k].samplingPercentage = @ + 1]
  BY DEF Grow
<1> QED BY <1>1, GrowIs DEF EditingInv

(* Evaluation of the grown flag, for the same entity.                          *)
LEMMA GrownOutcome ==
  ASSUME EditingInv, NEW g, Grown(flag, g), Shaped(g)
  PROVE  LET r == Evaluate(0, flag, entity)
             s == Evaluate(0, g, entity)
         IN  /\ r.enabled => s.enabled
             /\ r.enabled /\ s.reason = r.reason => s.variation = r.variation
<1> DEFINE r == Evaluate(0, flag, entity)
           s == Evaluate(0, g, entity)
           e == entity
<1>1. /\ Sampled(0, flag, e) => Sampled(0, g, e)
      /\ HasGroup(e) /\ Sampled(0, flag, e.group) => Sampled(0, g, e.group)
  BY SampledStays DEF Who
<1>2. \A who : /\ Blacklisted(g, who) <=> Blacklisted(flag, who)
               /\ Whitelisted(g, who) <=> Whitelisted(flag, who)
               /\ ListedVariation(g, who) = ListedVariation(flag, who)
               /\ SampledVariation(g, who) = SampledVariation(flag, who)
  BY GrownSame
<1>3. g.killSwitchEngaged = flag.killSwitchEngaged
  BY DEF Grown
<1>4. r.enabled => s.enabled
  BY <1>1, <1>2, <1>3, EvaluateIs
     DEF IsOff, IsListed, IsSampledAs, GroupRules, SamplingRules
<1>5. r.enabled /\ s.reason = r.reason => s.variation = r.variation
  <2>1. r.enabled => r.reason \in {"IndividualWhitelist", "GroupWhitelist",
                                   "IsSampled", "IsSampledByGroup"}
    BY ReasonIs
  <2> QED BY <1>2, <2>1, ReasonIs
<1> QED BY <1>4, <1>5

(* Growing the share of a subpopulation never turns a flag off for anyone      *)
(* (evaluate.go 244-251).                                                      *)
THEOREM GrowingIsMonotone == EditingSpec => GrowingKeepsEnabled
<1>1. EditingInv /\ [EditFlag]_evaluating
        => [flag # Nil /\ Grow => (Outcome(entity).enabled => Outcome(entity)'.enabled)]_evaluating
  <2> SUFFICES ASSUME EditingInv, [EditFlag]_evaluating, Grow, evaluating' # evaluating,
                      Outcome(entity).enabled
               PROVE  Outcome(entity)'.enabled
    OBVIOUS
  <2>1. entity' = entity
    BY DEF EditFlag
  <2>2. Outcome(entity)' = Evaluate(0, flag', entity)
    BY <2>1 DEF Outcome
  <2> QED BY <2>2, GrowGrows, GrownOutcome DEF Outcome
<1> QED BY <1>1, EditingTypes, PTL DEF EditingSpec, GrowingKeepsEnabled

(* Growing a share never moves an entity from one variation to another, unless *)
(* it comes to be sampled for itself after having been sampled for its group   *)
(* (evaluate.go 161-197 and 221-242: no share takes part in the keys of the    *)
(* hashes).                                                                    *)
THEOREM GrowingKeepsPlaces == EditingSpec => GrowingKeepsVariation
<1>1. EditingInv /\ [EditFlag]_evaluating
        => [flag # Nil /\ Grow /\ Outcome(entity).enabled
              /\ Outcome(entity)'.reason = Outcome(entity).reason
              => Outcome(entity)'.variation = Outcome(entity).variation]_evaluating
  <2> SUFFICES ASSUME EditingInv, [EditFlag]_evaluating, Grow, evaluating' # evaluating,
                      Outcome(entity).enabled, Outcome(entity)'.reason = Outcome(entity).reason
               PROVE  Outcome(entity)'.variation = Outcome(entity).variation
    OBVIOUS
  <2>1. entity' = entity
    BY DEF EditFlag
  <2>2. Outcome(entity)' = Evaluate(0, flag', entity)
    BY <2>1 DEF Outcome
  <2> QED BY <2>2, GrowGrows, GrownOutcome DEF Outcome
<1> QED BY <1>1, EditingTypes, PTL DEF EditingSpec, GrowingKeepsVariation

--------------------------------------------------------------------------------
(* The arguments of Init.                                                      *)

(* A variable whose argument is given has no part in Init, whatever else is    *)
(* missing or malformed (config_validate.go 27-33).                            *)
THEOREM ArgumentsComeFirst == SettingsSpec => GivenArgumentsPrevail
<1>1. [SetVariable /\ (\A k \in Keys : env'[k] # env[k] => args[k] # Empty)
         => PrepareInitArgs(args, env') = PrepareInitArgs(args, env)]_settings
  <2> SUFFICES ASSUME \A k \in Keys : env'[k] # env[k] => args[k] # Empty
               PROVE  PrepareInitArgs(args, env') = PrepareInitArgs(args, env)
    OBVIOUS
  <2>1. \A k \in Keys : GetVarOrEnv(args, env', k) = GetVarOrEnv(args, env, k)
    BY DEF GetVarOrEnv
  <2>2. "APIKey" \in Keys /\ "LogLevel" \in Keys /\ URLs \subseteq Keys
    BY DEF Keys
  <2>3. \A k \in URLs : PopulateURL(args, env', k) = PopulateURL(args, env, k)
    BY <2>1, <2>2 DEF PopulateURL
  <2>4. [k \in URLs |-> PopulateURL(args, env', k)] = [k \in URLs |-> PopulateURL(args, env, k)]
    BY <2>3
  <2>5. (\E k \in URLs : ~Valid(GetVarOrEnv(args, env', k)))
          <=> \E k \in URLs : ~Valid(GetVarOrEnv(args, env, k))
    BY <2>1, <2>2
  <2> QED BY <2>1, <2>2, <2>4, <2>5 DEF PrepareInitArgs
<1> QED BY <1>1, PTL DEF GivenArgumentsPrevail
================================================================================
