---------------------------- MODULE MCRetrieval ----------------------------
(* Two English documents and an Arabic one.  The second English document   *)
(* comes and goes; relations of the graph cross documents and languages.   *)
(* The Arabic question is asked in a conversation about an English         *)
(* document, which its scope must not be.                                  *)
EXTENDS DocumentRetrieval

N(id, doc, kind, says, counts, size, unit, order) ==
  [id |-> id, doc |-> doc, tenant |-> "a", language |-> IF doc = "d3" THEN "ar" ELSE "en",
   kind |-> kind, says |-> says, counts |-> counts, size |-> size, unit |-> unit, order |-> order,
   titled |-> kind # "Page" /\ id # "d2s", summary |-> TRUE,
   addresses |-> IF id = "d1s" THEN {"box 9"} ELSE {}]
MCNodes == {
  N("d1c", "d1", "Chapter", {"farm", "report"}, {}, 4, "", 1),
  N("d1s", "d1", "Section", {"farm", "income", "east"}, {}, 3, "u1", 2),
  N("d1t", "d1", "Section", {"income", "factors"}, {"factors"}, 5, "u1", 3),
  N("d1p", "d1", "Page", {"report", "income", "factors"}, {"pages"}, 6, "u1", 4),
  N("d1q", "d1", "Page", {}, {}, 6, "u1", 5),
  N("d1r", "d1", "Page", {}, {}, 6, "u1", 6),
  N("d2s", "d2", "Section", {"farm", "income", "report"}, {"factors"}, 2, "", 1),
  N("d2p", "d2", "Page", {"report", "income"}, {}, 4, "", 2),
  N("d3s", "d3", "Section", {"farm", "income", "report"}, {"factors"}, 3, "", 1)}
MCEdges == {[from |-> "d1s", to |-> "d2s", weight |-> 1000], [from |-> "d2s", to |-> "d3s", weight |-> 900],
            [from |-> "d1s", to |-> "d1t", weight |-> 800]}
Q(id) ==
  [id |-> id, keywords |-> {"farm", "income"}, phrases |-> {}, precise |-> {}, scopes |-> {},
   nouns |-> {}, counting |-> FALSE, toc |-> FALSE, address |-> "", enumerates |-> FALSE,
   hierarchy |-> FALSE, headings |-> FALSE, synthesis |-> FALSE, overview |-> FALSE,
   contrast |-> FALSE, sides |-> {}, financial |-> "", unit |-> "", spelled |-> {},
   squashed |-> {}, numbers |-> {}, words |-> {}, nameTerms |-> {}]
Vague == [Q("vague") EXCEPT !.keywords = {"report"}]
Plain == Q("plain")
HowMany == [Q("how many") EXCEPT !.keywords = {"factors", "income", "east"}, !.counting = TRUE,
              !.nouns = {"factors"}, !.scopes = {"east"}, !.precise = {"factors"}, !.phrases = {"east"}]
Named == [Q("named") EXCEPT !.keywords = {"farm", "report"}, !.spelled = {"farm report"},
            !.nameTerms = {"farm"}, !.financial = "income"]
Numbered == [Q("numbered") EXCEPT !.numbers = {225}, !.words = {"irs"}, !.synthesis = TRUE,
               !.overview = TRUE, !.contrast = TRUE, !.sides = {{"farm"}, {"income"}}]
Place == [Q("place") EXCEPT !.address = "box 9"]
Headings == [Q("headings") EXCEPT !.enumerates = TRUE, !.headings = TRUE]
Pages == [Q("pages") EXCEPT !.counting = TRUE, !.nouns = {"pages"}, !.unit = "Page"]

MCSimilarity == [q \in {x.id: x \in {Vague, Plain, HowMany, Named, Numbered, Place, Headings, Pages}} |->
  [id \in {n.id: n \in MCNodes} |->
     IF q = "place" THEN 300
     ELSE CASE id = "d1s" -> 620 [] id = "d2s" -> 610 [] id = "d3s" -> 600 [] id = "d1t" -> 500
            [] OTHER -> 450]]

Name(key, several, long, numbers, words) ==
  [key |-> key, several |-> several, long |-> long, size |-> 9, numbers |-> numbers, words |-> words]
MCDocuments == {"d1", "d2", "d3"}
MCDoc == [d \in MCDocuments |->
  [tenant |-> "a", language |-> IF d = "d3" THEN "ar" ELSE "en",
   names |-> CASE d = "d1" -> {Name("income guide", TRUE, TRUE, {225}, {"irs", "p"})}
               [] d = "d2" -> {Name("farm report", TRUE, TRUE, {}, {"farm"})}
               [] OTHER -> {Name("taqrir", FALSE, FALSE, {}, {})},
   titleWords |-> IF d = "d2" THEN {"farm", "report"} ELSE {"income"}]]

English == [tenant |-> "a", language |-> "en", permitted |-> TRUE]
Arabic == [English EXCEPT !.language = "ar"]
Stranger == [English EXCEPT !.permitted = FALSE]
A(q, asker, hint, plain) == [question |-> q, asker |-> asker, hint |-> hint, plain |-> plain]
MCAsks == {
  A(Vague, English, NoDoc, FALSE), A(Plain, English, NoDoc, FALSE), A(Plain, Arabic, "d1", FALSE),
  A(HowMany, English, NoDoc, FALSE), A(Named, English, "d1", FALSE), A(Numbered, English, "d2", FALSE),
  A(Place, English, "d2", FALSE), A(Headings, English, "d1", FALSE), A(Pages, English, "d1", TRUE),
  A(Vague, Stranger, NoDoc, FALSE)}
ThreadSymmetry == Permutations(Threads)
=============================================================================
