--------------------------- MODULE DocumentScope ----------------------------
(***************************************************************************)
(* Which document is a question about?  The names of the documents, the    *)
(* documents the nearest text belongs to, how many documents use a word,   *)
(* and the tiers of the resolver (retrieval/services/document_resolver.py, *)
(* candidate_docs.py, term_stats.py, strategies/vector_first_hybrid.py).   *)
(***************************************************************************)
EXTENDS EvidenceRanking

CONSTANTS
  Documents,        \* document ids
  Doc,              \* Doc[d]: tenant, language, names, titleWords of a document
  ProbeSize,        \* PROBE_K
  SimilarityFloor,  \* MIN_TOP_SIMILARITY, in thousandths
  CandidateLimit,   \* MAX_CANDIDATE_DOCS
  FewestDocuments,  \* _MIN_DOCS_FOR_DF
  GenericPercent    \* MAX_GENERIC_DOC_FREQUENCY, in percent

----------------------------------------------------------------------------
(* Names.                                                                  *)

\* The asker's documents: those its tenant and its language may reach.
Reach(corpus, asker) ==
  {d \in corpus: TenantOk(Doc[d], asker) /\ LanguageOk(Doc[d], asker)}
\* An id or title of several words the question spells out, of one document.
ExactReference(q, corpus, asker) ==
  LET spelled == {d \in Reach(corpus, asker):
                    \E name \in Doc[d].names: name.several /\ name.key \in q.spelled}
  IN IF Cardinality(spelled) = 1 THEN CHOOSE d \in spelled: TRUE ELSE NoDoc

\* The index of names holds every tenant's documents.
NameIndex(corpus) ==
  UNION {{[doc |-> d, name |-> name]: name \in Doc[d].names}: d \in corpus}
NameScore(q, name) ==
  IF name.long /\ name.key \in q.squashed THEN 1000 + name.size
  ELSE IF name.numbers # {} /\ name.numbers \subseteq q.numbers
       THEN LET shared == Cardinality(name.words \cap q.words)
            IN IF shared = 0 THEN 0 ELSE 10 * Cardinality(name.numbers) + shared
  ELSE 0
NamedDocument(q, index, asker) ==
  LET read == {e \in index: LanguageOk(Doc[e.doc], asker) /\ NameScore(q, e.name) > 0}
  IN IF read = {} THEN NoDoc
     ELSE (CHOOSE e \in read: \A x \in read: NameScore(q, x.name) <= NameScore(q, e.name)).doc

\* A thread's document that is still there for this asker.
Validated(hint, corpus, asker) == hint \in Reach(corpus, asker)

----------------------------------------------------------------------------
(* The documents of the nearest text.                                      *)

\* A document counts by its best chunk; more chunks add at most half.
ChunkScore(places) ==
  ((1000000 \div (60 + Min(places))) * (1000 + (500 * Ln[Cardinality(places)]) \div 5303)) \div 1000
Relative(ranked) ==
  LET likely == Only(ranked, {i \in DOMAIN ranked: 100 * ranked[i].score >= 15 * ranked[1].score})
  IN [i \in DOMAIN likely |->
        [doc |-> likely[i].doc, relative |-> (100 * likely[i].score) \div ranked[1].score]]
DocumentsOf(hits) ==
  IF hits = <<>> THEN <<>>
  ELSE IF hits[1].near < SimilarityFloor THEN <<>>
  ELSE LET scored == {[doc |-> d, score |-> ChunkScore({i \in DOMAIN hits: hits[i].doc = d})]:
                        d \in {hits[i].doc: i \in DOMAIN hits}}
       IN Relative(Best(CandidateLimit, scored, [x \in scored |-> x.score]))
Candidates(q, corpus, asker, up) ==
  LET probed == {n \in Embedded: /\ n.doc \in corpus
                                 /\ asker.tenant # "" => TenantOk(n, asker)
                                 /\ LanguageOk(n, asker)}
      near == {[doc |-> n.doc, id |-> n.id, near |-> Similarity[q.id][n.id]]: n \in probed}
  IN IF up THEN DocumentsOf(Best(ProbeSize, near, [h \in near |-> h.near]))
     ELSE <<>>

----------------------------------------------------------------------------
(* Words that single nothing out.                                          *)

\* The gate asks for no tenant: with tenancy on its table is empty.
SampledDocuments(corpus, language) ==
  {d \in Reach(corpus, [tenant |-> "", language |-> language]): \E n \in Nodes: n.doc = d}
\* Percentage of the sampled documents that use the question's rarest word,
\* or -1 when there are too few documents to tell.  An inflected word and
\* its stem are one word here.
RarestShare(q, sampled) ==
  LET uses(k) == Cardinality({d \in sampled: \E n \in Nodes: n.doc = d /\ k \in n.says})
  IN IF sampled = {} \/ Cardinality(sampled) < FewestDocuments THEN -1
     ELSE Min({(100 * uses(k)) \div Cardinality(sampled): k \in q.keywords})
CannotBePlaced(q, sampled) ==
  Cardinality(q.keywords) < 2 \/ RarestShare(q, sampled) >= GenericPercent

----------------------------------------------------------------------------
(* The tiers of the resolver.                                              *)

\* Distinctive terms, weighted by the log of their rarity; a term of the
\* title outweighs any count.
TermScores(terms, docs) ==
  LET count(d, t) == Cardinality({n \in Nodes: n.doc = d /\ t \in n.says})
      uses(t) == Cardinality({d \in docs: count(d, t) > 0 \/ t \in Doc[d].titleWords})
      weight(t) == IF uses(t) = 0 THEN 0 ELSE Ln[Cardinality(docs)] - Ln[uses(t)] + 100
      score(d) == MapThenSumSet(
        LAMBDA t: (IF t \in Doc[d].titleWords THEN 1000 * weight(t) ELSE 0)
                  + (Ln[count(d, t) + 1] * weight(t)) \div 1000, terms)
  IN [d \in docs |-> score(d)]
Top(scores) == CHOOSE d \in DOMAIN scores: \A e \in DOMAIN scores: scores[e] <= scores[d]
\* The first two are closer than AMBIGUITY_LEAD.
NearTie(scores) ==
  \E d, e \in DOMAIN scores: /\ d # e /\ scores[e] > 0 /\ d = Top(scores)
                             /\ 2 * scores[d] < 3 * scores[e]
Distinctive(terms, docs) ==
  \E t \in terms: LET users == {d \in docs: \/ t \in Doc[d].titleWords
                                           \/ \E n \in Nodes: n.doc = d /\ t \in n.says}
                  IN users # {} /\ users # docs
TermWinner(scores) ==
  IF DOMAIN scores = {} THEN NoDoc
  ELSE IF scores[Top(scores)] > 0 THEN Top(scores) ELSE NoDoc
\* A clear majority of the twelve nearest nodes.
Majority(owners) ==
  LET votes(d) == Cardinality({i \in DOMAIN owners: owners[i] = d})
      clear == {d \in ToSet(owners): /\ votes(d) >= Max({3, Len(owners) \div 2})
                                     /\ \A e \in ToSet(owners) \ {d}: 2 * votes(d) >= 3 * votes(e)}
  IN IF Len(owners) < 3 \/ clear = {} THEN NoDoc ELSE CHOOSE d \in clear: TRUE
OwnersOf(seeds) == [i \in DOMAIN seeds |-> NodeAt(seeds[i].id).doc]
VectorMajority(q, corpus, asker, up) ==
  Majority(OwnersOf(VectorSeeds(q, corpus, NoDoc, asker, 12, up)))
Largest(docs) ==
  LET sections(d) == Cardinality({n \in Nodes: n.doc = d /\ n.kind = "Section"})
      owners == {d \in docs: sections(d) > 0}
  IN IF owners = {} THEN NoDoc
     ELSE CHOOSE d \in owners: \A e \in owners: sections(e) <= sections(d)
FirstFound(tiers) ==
  LET found == SelectSeq(tiers, LAMBDA d: d # NoDoc)
  IN IF found = <<>> THEN NoDoc ELSE Head(found)

\* resolve_document_for_query.  The named tiers and the vote are asked
\* without the asker's language; the last tiers are asked with it.
Stated(named, spelled, thread) ==
  FirstFound(<<IF NearTie(named) THEN NoDoc ELSE TermWinner(named), spelled, thread>>)
Guessed(terms, broad, vote, docs) ==
  FirstFound(<<IF Distinctive(terms, docs) THEN TermWinner(broad) ELSE NoDoc,
               vote, TermWinner(broad), Largest(docs)>>)
Decided(named, stated, guessed) ==
  IF stated # NoDoc THEN stated ELSE IF NearTie(named) THEN NoDoc ELSE guessed
InDefault(asker) == [asker EXCEPT !.language = DefaultLanguage]
NamedScores(q, corpus, asker) == TermScores(q.nameTerms, Reach(corpus, InDefault(asker)))
Resolve(q, corpus, asker, hint, up) ==
  LET named == NamedScores(q, corpus, asker)
      docs == Reach(corpus, asker)
      thread == IF Validated(hint, corpus, InDefault(asker)) THEN hint ELSE NoDoc
  IN Decided(named,
       Stated(named, ExactReference(q, corpus, InDefault(asker)), thread),
       Guessed(q.keywords, TermScores(q.keywords, docs),
               VectorMajority(q, corpus, InDefault(asker), up), docs))

\* candidates_for_query: the documents of a near tie, in the default language.
Tied(named) ==
  IF NearTie(named) THEN Best(10, {d \in DOMAIN named: named[d] > 0}, named) ELSE <<>>
Offered(q, corpus, asker) == Tied(NamedScores(q, corpus, asker))
=============================================================================
