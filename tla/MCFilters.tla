------------------------------- MODULE MCFilters -------------------------------
(* FilterLists over bounded inputs.  One of the three cases of MCEvaluation;   *)
(* in the others there are no filters (Nil).                                   *)
EXTENDS FilterLists

MCStrings == {"", "word", "noon", "noonUTC", "dusk", "de", "us"}
MCDateOf  == [s \in {"noon", "noonUTC", "dusk"} |-> IF s = "dusk" THEN 2 ELSE 1]
MCNames   == {"Age", "age", "born", "ID", "id", "name", "country"}
MCLower   == [n \in MCNames |-> IF n = "Age" THEN "age" ELSE IF n = "ID" THEN "id" ELSE n]

JsonScalars == {Scalar("string", s) : s \in {"word", "noonUTC"}}
                 \cup {Scalar("float", 1), Scalar("bool", TRUE)}

JsonLists == {Array("list", {}), Array("list", {Scalar("string", "noon"), Scalar("string", "word")}),
              Array("list", {Scalar("float", 1), Scalar("float", 2), Scalar("bool", TRUE)})}

RawFilters ==
  [attributeName : {"Age", "born"}, operator : {"IS", "IS_NOT", "LTE", "IN", "NOT_IN"},
   type : {"STRING", "NUMBER", "BOOLEAN", "DATE"}, value : JsonScalars \cup JsonLists]

\* The filters a list is built from: any type with a scalar it can hold or a list.
MCCandidates ==
  {f \in RawFilters :
     IF f.operator \in {"IN", "NOT_IN"} THEN f.value.kind \in {"list", "string"}
     ELSE \/ f.type \in {"STRING", "DATE"} /\ f.value.kind = "string"
          \/ f.type = "NUMBER" /\ f.value.kind = "float"
          \/ f.type = "BOOLEAN" /\ f.value.kind = "bool"}

MCRawAttributes ==
  {Nil, [n \in {} |-> Scalar("bool", TRUE)],
   [n \in {"Age"} |-> Scalar("int", 1)],
   [n \in {"Age", "born"} |-> IF n = "Age" THEN Scalar("float32", 2) ELSE Scalar("string", "noon")],
   [n \in {"age", "born"} |-> IF n = "age" THEN Scalar("bool", TRUE) ELSE Scalar("string", "dusk")],
   [n \in {"age", "ID", "born"} |-> IF n = "age" THEN Scalar("slice", 0) ELSE Scalar("string", "word")]}

Unmatched == filters = Nil /\ attributes = Nil
================================================================================
