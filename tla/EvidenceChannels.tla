-------------------------- MODULE EvidenceChannels --------------------------
(***************************************************************************)
(* The reads that collect evidence for a question about the documents:     *)
(* keyword, phrase, scope and quantity search, the vector and full-text    *)
(* seeds and their expansion in the graph, the summaries, the parts of a   *)
(* unit, and the structural reads (retrieval/services/lexical.py,          *)
(* graph_seeds.py, structural.py, chapter_summary.py,                      *)
(* financial_summary.py).  A text is the set of words it says and the set  *)
(* of nouns a numeral stands before; scores are in thousandths.            *)
(***************************************************************************)
EXTENDS Integers, FiniteSets, Sequences, SequencesExt, FiniteSetsExt

CONSTANTS
  Nodes,            \* the text-bearing nodes of every document, as records
  Edges,            \* relations of the graph: records from, to, weight
  Similarity,       \* Similarity[q][id]: cosine of a question and an embedded node
  Backend,          \* VECTOR_STORE_BACKEND: "memory" or "qdrant"
  MultiTenant,      \* MULTI_TENANCY_ENABLED
  MultiLingual,     \* more than one language is configured
  DefaultLanguage,  \* DEFAULT_LANGUAGE
  SeedLimit,        \* _VECTOR_SEED_LIMIT
  FulltextLimit,    \* _FULLTEXT_LIMIT
  ScopeLimit,       \* _SCOPE_PHRASE_LIMIT
  QuantityLimit,    \* _QUANTITY_LIMIT
  SiblingLimit      \* LIMIT 12 of expand_unit_siblings

\* Ids are unique, and the limits are numbers.
ASSUME ChannelsAssumption ==
  /\ IsFiniteSet(Nodes) /\ IsFiniteSet(Edges) /\ \A m, n \in Nodes: m.id = n.id => m = n
  /\ {SeedLimit, FulltextLimit, ScopeLimit, QuantityLimit, SiblingLimit} \subseteq Nat

NoDoc == "none"

----------------------------------------------------------------------------
(* Helpers.                                                                *)

Prefix(seq, n) == SubSeq(seq, 1, Min({n, Len(seq)}))
\* The items of a set of records key, item, the largest key first.
Inserted(x, seq) ==
  LET before == Cardinality({i \in DOMAIN seq: seq[i].key >= x.key})
  IN SubSeq(seq, 1, before) \o <<x>> \o SubSeq(seq, before + 1, Len(seq))
Arranged(keyed) ==
  LET seq == FoldSet(Inserted, <<>>, keyed) IN [i \in DOMAIN seq |-> seq[i].item]
\* Some items of a sequence, and all of them by the key of their places: of
\* two with the same key the earlier one stays first.
Only(seq, places) == Arranged({[key |-> -i, item |-> seq[i]]: i \in places})
Sorted(seq, key) == Arranged({[key |-> Len(seq) * key[i] - i, item |-> seq[i]]: i \in DOMAIN seq})
\* Rows in any order.
Unordered(S) == Arranged({[key |-> 0, item |-> x]: x \in S})
\* ORDER BY key DESC LIMIT n.
Best(n, S, key) == Prefix(Arranged({[key |-> key[x], item |-> x]: x \in S}), n)
\* The natural logarithm of 1 .. 8, in thousandths.
Ln == <<0, 693, 1099, 1386, 1609, 1792, 1946, 2079>>

TenantOk(x, asker) == MultiTenant => x.tenant = asker.tenant
LanguageOk(x, asker) == MultiLingual => x.language = asker.language
\* Nodes of the documents `docs`, or of every document when it is empty.
Readable(corpus, docs, asker) ==
  {n \in Nodes: /\ n.doc \in corpus
                /\ docs = {} \/ n.doc \in docs
                /\ TenantOk(n, asker) /\ LanguageOk(n, asker)}
Scope(doc) == {doc} \ {NoDoc}
Hit(n, score) == [id |-> n.id, score |-> score]
HitsOf(seq, score) == [i \in DOMAIN seq |-> Hit(seq[i], score[seq[i]])]

----------------------------------------------------------------------------
(* Lexical search.                                                         *)

Known(q, read) == {k \in q.keywords: \E n \in read: k \in n.says}
Uses(read, k) == Cardinality({n \in read: k \in n.says})
Rarity(q, read, n) ==
  LET most == Max({Uses(read, x): x \in Known(q, read)})
  IN MapThenSumSet(LAMBDA k: (10 * most) \div Uses(read, k), Known(q, read) \cap n.says)
KeywordHits(q, corpus, docs, asker, limit) ==
  LET read == Readable(corpus, docs, asker)
      matched(n) == Cardinality(Known(q, read) \cap n.says)
      hits == {n \in read: matched(n) >= 2}
  IN IF Cardinality(q.keywords) < 2 THEN <<>>
     ELSE HitsOf(Best(limit, hits, [n \in hits |-> 100 * Rarity(q, read, n) - n.size]),
                 [n \in hits |-> 880 + 60 * Min({matched(n), 4}) + Min({Rarity(q, read, n), 200})])

PhraseHits(q, corpus, docs, asker, limit) ==
  LET said(n) == Cardinality(q.phrases \cap n.says)
      hits == {n \in Readable(corpus, docs, asker): said(n) > 0}
  IN HitsOf(Best(limit, hits, [n \in hits |-> 100 * said(n) - n.size]),
            [n \in hits |-> 900 + 80 * said(n) + IF n.size < 3 THEN 120 ELSE 0])

\* A phrase may scope the search only when at most a quarter of the text says it.
Scoping(q, read) ==
  {p \in q.scopes: Uses(read, p) > 0 /\ 4 * Uses(read, p) <= Cardinality(read)}
ScopeWeight(q, read, n) ==
  MapThenSumSet(LAMBDA p: Ln[Cardinality(read)] - Ln[Uses(read, p)] + 1000, Scoping(q, read) \cap n.says)
ScopeHits(q, corpus, doc, asker) ==
  LET read == Readable(corpus, Scope(doc), asker)
      hits == {n \in read: Scoping(q, read) \cap n.says # {}}
  IN HitsOf(Best(ScopeLimit, hits, [n \in hits |-> 100 * ScopeWeight(q, read, n) + n.size]),
            [n \in hits |-> 1000 + ScopeWeight(q, read, n)])

QuantityHits(q, corpus, doc, asker) ==
  LET counted(n) == Cardinality(q.nouns \cap n.counts)
      hits == {n \in Readable(corpus, Scope(doc), asker): counted(n) > 0}
  IN IF ~q.counting THEN <<>>
     ELSE HitsOf(Best(QuantityLimit, hits, [n \in hits |-> 100 * counted(n) + n.size]),
                 [n \in hits |-> 1000 + 1000 * counted(n)])

\* The other parts of the units some of `ids` are parts of.
OtherParts(ids, corpus, asker) ==
  LET hits == {n \in Nodes: n.id \in ids /\ n.unit # "" /\ n.doc \in corpus}
  IN {n \in Nodes: /\ \E h \in hits: n.unit = h.unit /\ n.doc = h.doc /\ n # h
                   /\ TenantOk(n, asker) /\ LanguageOk(n, asker)}
UnitSiblings(ids, corpus, asker) ==
  LET parts == OtherParts(ids, corpus, asker)
  IN HitsOf(Best(SiblingLimit, parts, [n \in parts |-> -n.order]), [n \in parts |-> 9000])

----------------------------------------------------------------------------
(* Vector and full-text seeds, and the graph around them.                  *)

Embedded == {n \in Nodes: n.kind \in {"Chapter", "Section"}}
\* The index returns its nearest nodes first; the filters come after it.
IndexLimit(limit, doc) == IF doc = NoDoc THEN limit ELSE 8 * limit

NativeSeeds(q, corpus, doc, asker, limit) ==
  LET near == [n \in Embedded |-> Similarity[q.id][n.id]]
      top == ToSet(Best(IndexLimit(limit, doc), {n \in Embedded: n.doc \in corpus}, near))
  IN HitsOf(Best(limit, top \cap Readable(corpus, Scope(doc), asker), near), near)

\* The external store is asked with the document's id in the place of the
\* language: its own filter holds the tenant alone, and the graph is asked
\* for nodes in the language `doc`.
StoreSeeds(q, corpus, doc, asker, limit) ==
  LET near == [n \in Embedded |-> Similarity[q.id][n.id]]
      top == Best(limit, {n \in Embedded: /\ n.doc \in corpus
                                          /\ asker.tenant # "" => n.tenant = asker.tenant}, near)
      named == [asker EXCEPT !.language = doc]
  IN HitsOf(Only(top, {i \in DOMAIN top: TenantOk(top[i], asker) /\ LanguageOk(top[i], named)}), near)

\* A store that does not answer yields no seed.
VectorSeeds(q, corpus, doc, asker, limit, up) ==
  IF ~up THEN <<>>
  ELSE IF Backend = "qdrant" THEN StoreSeeds(q, corpus, doc, asker, limit)
  ELSE NativeSeeds(q, corpus, doc, asker, limit)

FulltextSeeds(q, corpus, doc, asker) ==
  LET found == [n \in Nodes |-> 1000 * Cardinality(q.keywords \cap n.says)]
      top == ToSet(Best(IndexLimit(FulltextLimit, doc),
                        {n \in Nodes: n.doc \in corpus /\ found[n] > 0}, found))
  IN HitsOf(Best(FulltextLimit, top \cap Readable(corpus, Scope(doc), asker), found), found)

Beside(id) == {[id |-> e.to, weight |-> e.weight]: e \in {x \in Edges: x.from = id}}
              \cup {[id |-> e.from, weight |-> e.weight]: e \in {x \in Edges: x.to = id}}
\* Mutant of Expanded: the neighbours are not held to the document.
ExpandedAnywhere(seeds, corpus, doc, asker) ==
  LET read == Readable(corpus, {}, asker)
  IN Unordered({h \in UNION {{[id |-> b.id, score |-> (s.score * 880 * b.weight) \div 1000000]:
                              b \in Beside(s.id)}: s \in ToSet(seeds)}:
               \E n \in read: n.id = h.id})
\* One and two hops from the seeds that are sections, of any document; what
\* they lead to must be of the scope.  A hit carries its seed's score, decayed
\* by the hops and the weight of the last edge.
Expanded(seeds, corpus, doc, asker) ==
  LET read == Readable(corpus, Scope(doc), asker)
      sections == {s \in ToSet(seeds): \E n \in Readable(corpus, {}, asker):
                                          n.id = s.id /\ n.kind = "Section"}
      one(s) == {[id |-> b.id, score |-> (s.score * 880 * b.weight) \div 1000000]: b \in Beside(s.id)}
      two(s) == UNION {{[id |-> b.id, score |-> (s.score * 774 * b.weight) \div 1000000]:
                          b \in {x \in Beside(m.id): x.id # s.id}}: m \in Beside(s.id)}
  IN Unordered({h \in UNION {one(s) \cup two(s): s \in sections}: \E n \in read: n.id = h.id})

----------------------------------------------------------------------------
(* Summaries and structure.                                                *)

InOrder(S, limit) == Best(limit, S, [n \in S |-> -n.order])
ChapterSummaries(corpus, doc, asker) ==
  IF doc = NoDoc THEN <<>>
  ELSE HitsOf(InOrder({n \in Readable(corpus, {doc}, asker): n.kind = "Chapter" /\ n.summary}, 12),
              [n \in Nodes |-> 900])
FinancialSummaries(corpus, doc, asker, topic) ==
  IF doc = NoDoc THEN <<>>
  ELSE HitsOf(InOrder({n \in Readable(corpus, {doc}, asker):
                         n.kind \in {"Section", "Chapter"} /\ topic \in n.says}, 5),
              [n \in Nodes |-> 1000])

\* The headings of a document, in one item; read in the default language,
\* whatever the asker's is.
Outline(corpus, doc, asker) ==
  LET headings == {n \in Readable(corpus, {doc}, [asker EXCEPT !.language = DefaultLanguage]):
                     n.kind \in {"Chapter", "Section"} /\ n.titled}
  IN IF headings = {} THEN <<>> ELSE <<[id |-> "outline", score |-> 1000]>>

\* The units of one kind, counted in the graph, in the default language too.
CountUnits(q, corpus, doc, asker) ==
  LET units == {n \in Readable(corpus, {doc}, [asker EXCEPT !.language = DefaultLanguage]):
                  n.kind = q.unit /\ (n.kind \in {"Chapter", "Section"} => n.titled)}
  IN IF units = {} THEN <<>> ELSE <<[id |-> "graph_count", score |-> 1000]>>

ByAddress(q, corpus, doc, asker) ==
  HitsOf(InOrder({n \in Readable(corpus, {doc}, [asker EXCEPT !.language = DefaultLanguage]):
                    q.address \in n.addresses}, 8),
         [n \in Nodes |-> 1000])
=============================================================================
