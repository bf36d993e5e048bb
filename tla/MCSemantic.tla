----------------------------- MODULE MCSemantic -----------------------------
(* Five nodes: a chapter, three sections, a page.  "u.s." is an acronym of *)
(* "united states", "acme corp" is acme, and acme is named everywhere.  A   *)
(* model may answer with a type outside the taxonomy ("GPE").              *)
EXTENDS SemanticLinks

MCNodes == {"c", "s1", "s2", "s3", "p"}
MCKind == [n \in MCNodes |-> CASE n = "c" -> "Chapter" [] n = "p" -> "Page"
                               [] OTHER -> "Section"]
MCUnits == <<"c.1", "s1.1", "s2.1", "s3.1", "s1.2", "p.1">>
MCNodeOf == [u \in ToSet(MCUnits) |->
  CASE u = "c.1" -> "c" [] u \in {"s1.1", "s1.2"} -> "s1" [] u = "s2.1" -> "s2"
    [] u = "s3.1" -> "s3" [] OTHER -> "p"]

E(text, type) == [text |-> text, type |-> type]
MCAnswers == [u \in ToSet(MCUnits) |->
  CASE u = "s1.1" -> {<<E("u.s.", "LOCATION"), E("acme corp", "ORG")>>}
    [] u = "s1.2" -> {<<E("oil", "PRODUCT"), E("acme", "PRODUCT")>>,
                      <<E("acme corp", "PERSON"), E("opec", "GPE")>>}
    [] u = "s2.1" -> {<<E("united states", "LOCATION"), E("acme", "ORG")>>}
    [] u = "s3.1" -> {<<E("acme", "PRODUCT"), E("oil", "PRODUCT"), E("opec", "GPE")>>}
    [] OTHER -> {<<E("u.s.", "LOCATION"), E("2025", "DATE"), E("acme", "GPE")>>,
                 <<E("oil", ""), E("acme", "ORG")>>}]
MCGrounded == [n \in MCNodes |->
  {"u.s.", "united states", "acme corp", "acme", "oil", "2025", "opec"}]

MCBase(t) == IF t = "acme corp" THEN "acme" ELSE t
MCAlike(a, b) == FALSE
MCLetters(t) == IF t = "u.s." THEN "us" ELSE "none"
MCInitials(t) == IF t \in {"u.s.", "united states"} THEN {"us"} ELSE {}
MCWidth(t) == IF t = "united states" THEN 13 ELSE 4
MCMaxDf(n) == n \div 2 + 1

MCPairs == {{p[1], p[2]}: p \in {q \in MCNodes \X MCNodes: q[1] # q[2]}}
MCSimilarity == [p \in MCPairs |-> IF p \in {{"c", "s1"}, {"s1", "s2"}} THEN 90 ELSE IF "s2" \in p THEN 76 ELSE 20]
MCCloseness == [p \in MCPairs |-> IF "s3" \in p THEN 60 ELSE 30]
MCClusterings == {[n \in MCNodes |-> "A"],
                  [n \in MCNodes |-> IF n = "p" THEN "noise" ELSE IF n = "s2" THEN "B" ELSE "A"]}
\* A section of the outline that contains its own parent.
MCHolds == {<<"c", "s1">>, <<"s1", "s2">>, <<"s2", "s1">>, <<"c", "p">>}
=============================================================================
