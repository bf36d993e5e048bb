-------------------------- MODULE EvidenceRanking ---------------------------
(***************************************************************************)
(* How the hits of the channels become the evidence an answer is written   *)
(* from: the weighted merge, the fusion by rank, the pins that keep what   *)
(* ranking alone would lose, and the other parts of a unit                 *)
(* (retrieval/services/ranking.py, reranker.py, strategies/full_hybrid.py).*)
(***************************************************************************)
EXTENDS EvidenceChannels

CONSTANTS
  MergeCap,         \* the 8 of _merge_retrieval_chunks
  RowLimit,         \* the row limit of a question that is not exhaustive
  FinalLimit,       \* RETRIEVAL_FINAL_LIMIT
  SynthesisLimit,   \* 16: the least a synthesis is given
  EnumerationLimit, \* 18: the least an enumeration is given
  ExhaustiveLimit   \* EXHAUSTIVE_LIMIT

ASSUME RankingAssumption ==
  {MergeCap, RowLimit, FinalLimit, SynthesisLimit, EnumerationLimit, ExhaustiveLimit} \subseteq Nat

NodeAt(id) == CHOOSE n \in Nodes: n.id = id
IsNode(id) == \E n \in Nodes: n.id = id
Ids(hits) == {h.id: h \in ToSet(hits)}
Without(hits, ids) == Only(hits, {i \in DOMAIN hits: hits[i].id \notin ids})
\* sort(key=score, reverse=True): the earlier of two equal items stays first.
ByScore(hits) == Sorted(hits, [i \in DOMAIN hits |-> hits[i].score])
\* The first hit of every id.
Once(hits) == Only(hits, {i \in DOMAIN hits: \A j \in 1..(i - 1): hits[j].id # hits[i].id})

MergeChunks(primary, extra) ==
  Prefix(ByScore(primary \o Once(Without(extra, Ids(primary)))), MergeCap)

----------------------------------------------------------------------------
(* The plan of a question.                                                 *)

Shape(q) ==
  IF q.toc \/ q.address # "" THEN "structural"
  ELSE IF q.enumerates THEN "enumerative"
  ELSE IF q.hierarchy THEN "structural"
  ELSE IF q.counting THEN "aggregation"
  ELSE IF q.overview THEN "thematic" ELSE "factoid"
Exhaustive(q) == q.toc \/ (q.address = "" /\ (q.enumerates \/ q.hierarchy \/ q.counting))
\* What the strategy reads the hierarchy for.
AsksForStructure(q) == Shape(q) = "structural" \/ (Shape(q) = "enumerative" /\ q.headings)

FetchLimit(q) ==
  Max({FinalLimit, IF Exhaustive(q) THEN ExhaustiveLimit ELSE FinalLimit,
       IF q.synthesis THEN SynthesisLimit ELSE 0, IF q.enumerates THEN EnumerationLimit ELSE 0})
Rows(q) == IF Exhaustive(q) THEN ExhaustiveLimit ELSE RowLimit

----------------------------------------------------------------------------
(* Merge and fusion.                                                       *)

Weighted(hits, weight) ==
  [i \in DOMAIN hits |-> [hits[i] EXCEPT !.score = (@ * weight) \div 1000]]
\* Full-text scores, relative to the best one; a page counts for more.
Normalised(hits) ==
  LET best == Max({h.score: h \in ToSet(hits)} \cup {1})
  IN [i \in DOMAIN hits |-> [hits[i] EXCEPT !.score =
        (@ * (IF NodeAt(hits[i].id).kind = "Page" THEN 1196 ELSE 920)) \div best]]
Upsert(merged, h) ==
  IF h.id \in Ids(merged)
  THEN [i \in DOMAIN merged |->
          IF merged[i].id = h.id THEN [h EXCEPT !.score = Max({@, merged[i].score})] ELSE merged[i]]
  ELSE Append(merged, h)
Boost(q, h) ==
  LET n == NodeAt(h.id)
      named == IF n.titled THEN 1080 ELSE 1000
      said == 1000 + Min({450, 70 * Cardinality(q.keywords \cap n.says)})
  IN [h EXCEPT !.score = (@ * named * said) \div 1000000]

MergeAndRank(q, c) ==
  LET wide == q.synthesis /\ ~q.contrast
      lexical == IF q.contrast THEN 1100 ELSE IF q.synthesis THEN 820 ELSE 1000
      all == Weighted(c.vector, IF wide THEN 1150 ELSE 1000) \o Normalised(c.fulltext)
             \o Weighted(c.graph, IF wide THEN 1200 ELSE 1000) \o Weighted(c.lexical, lexical)
             \o Weighted(c.chapters, 1250)
      merged == FoldLeft(Upsert, <<>>, all)
  IN Prefix(ByScore([i \in DOMAIN merged |-> Boost(q, merged[i])]), FetchLimit(q))

\* Reciprocal rank fusion: an item counts by its places in the channels.
Fused(c, id) ==
  LET places(hits) == LET ranked == ByScore(hits) IN {i \in DOMAIN ranked: ranked[i].id = id}
      earned(hits) == MapThenSumSet(LAMBDA i: 1000000 \div (60 + i), places(hits))
  IN MapThenSumSet(LAMBDA name: earned(c[name]),
                   {"vector", "fulltext", "graph", "lexical", "chapters"})
Rerank(items, c) ==
  IF Len(items) < 2 THEN items ELSE Sorted(items, [i \in DOMAIN items |-> Fused(c, items[i].id)])

----------------------------------------------------------------------------
(* Pins.                                                                   *)

\* The pinned hits first, then the rest, cut at the limit.
Above(pinned, items, limit) ==
  Prefix(Once(pinned) \o Without(items, Ids(pinned)), limit)
Raised(hits, by) == [i \in DOMAIN hits |-> [hits[i] EXCEPT !.score = @ + by]]

PinStrongVector(items, vector, limit) ==
  LET ranked == Prefix(ByScore(vector), 3)
      keep == Only(ranked, {i \in DOMAIN ranked: 100 * ranked[i].score >= 95 * ranked[1].score})
      missing == Without(keep, Ids(items))
  IN IF items = <<>> \/ missing = <<>> THEN items ELSE Prefix(missing \o items, limit)

ShortestFirst(hits) == Sorted(hits, [i \in DOMAIN hits |-> -NodeAt(hits[i].id).size])
PinPrecision(q, items, lexical, limit) ==
  LET said == Only(lexical, {i \in DOMAIN lexical: q.precise \cap NodeAt(lexical[i].id).says # {}})
      short == ShortestFirst(said)
  IN IF said = <<>> THEN items ELSE Above(Raised(Prefix(short, 3), 550), items, limit)

\* A comparison needs text that names both of its sides.
PinContrast(q, items, lexical, limit) ==
  LET both == Only(lexical, {i \in DOMAIN lexical:
                               \A side \in q.sides: side \cap NodeAt(lexical[i].id).says # {}})
      short == ShortestFirst(both)
  IN IF Cardinality(q.sides) < 2 \/ both = <<>> THEN items
     ELSE Above(Raised(Prefix(short, 2), 500), items, limit)

\* Text with figures first; then the better score, then the shorter text.
FiguresFirst(hits, scored) ==
  LET key(h) == (IF NodeAt(h.id).counts = {} THEN 0 ELSE 1000000)
                + (IF scored THEN 10 * h.score ELSE 0) - NodeAt(h.id).size
  IN Sorted(hits, [i \in DOMAIN hits |-> key(hits[i])])
PinFirmwide(items, hits, limit) ==
  IF hits = <<>> THEN items ELSE Above(Raised(FiguresFirst(hits, FALSE), 10000), items, limit)
PinScope(items, hits, limit) ==
  IF hits = <<>> THEN items ELSE Above(Raised(FiguresFirst(hits, TRUE), 10000), items, limit)

PinKeywordLeader(items, keyword, limit) ==
  IF keyword = <<>> \/ items = <<>> \/ keyword[1].id \in Ids(Prefix(items, limit)) THEN items
  ELSE Above(Raised(<<keyword[1]>>, 10000), items, limit)

----------------------------------------------------------------------------
(* The whole pass of full_hybrid.retrieve after the scope is known.        *)

Gathered(q, corpus, doc, asker, seeds, phrase, keyword, scope, quantity) ==
  [vector |-> seeds,
   fulltext |-> FulltextSeeds(q, corpus, doc, asker),
   graph |-> Expanded(seeds, corpus, doc, asker),
   keyword |-> keyword, scope |-> scope, quantity |-> quantity,
   lexical |-> MergeChunks(MergeChunks(MergeChunks(phrase, keyword), scope), quantity),
   chapters |-> IF q.overview THEN ChapterSummaries(corpus, doc, asker) ELSE <<>>,
   summaries |-> FinancialSummaries(corpus, doc, asker, q.financial)]
Channels(q, corpus, doc, docs, asker, lexicalOnly, up) ==
  Gathered(q, corpus, doc, asker,
    IF lexicalOnly THEN <<>> ELSE VectorSeeds(q, corpus, doc, asker, SeedLimit, up),
    PhraseHits(q, corpus, docs, asker, Rows(q)), KeywordHits(q, corpus, docs, asker, Rows(q)),
    ScopeHits(q, corpus, doc, asker), QuantityHits(q, corpus, doc, asker))

LastPin(c, items, limit) ==
  IF c.scope = <<>> /\ c.quantity = <<>> THEN PinKeywordLeader(items, c.keyword, limit) ELSE items
\* Mutant of PinAll: what scopes the question is pinned, what counts is not.
PinAllButNumbers(q, c, items, limit) ==
  LastPin(c, PinScope(PinFirmwide(PinPrecision(q, items, c.lexical, limit), c.summaries, limit),
                      c.scope, limit), limit)
PinAll(q, c, items, limit) ==
  LET precise == PinPrecision(q, items, c.lexical, limit)
      sides == IF q.synthesis THEN PinContrast(q, precise, c.lexical, limit) ELSE precise
      scoped == PinScope(PinFirmwide(sides, c.summaries, limit), c.scope, limit)
  IN LastPin(c, PinScope(scoped, c.quantity, limit), limit)
Pinned(q, c) ==
  PinAll(q, c, PinStrongVector(Rerank(MergeAndRank(q, c), c), c.vector, FetchLimit(q)), FetchLimit(q))

\* What survived brings the other parts of its units, under the cap of the
\* merge.
WithUnits(q, items, corpus, asker) ==
  LET siblings == UnitSiblings(Ids(items), corpus, asker)
  IN IF siblings = <<>> THEN items
     ELSE Prefix(MergeChunks(items, siblings), FetchLimit(q) + Len(siblings))
=============================================================================
