------------------------- MODULE DocumentRetrieval -------------------------
(***************************************************************************)
(* Answering questions from the documents while the corpus changes:        *)
(* retrieve and _scope_for_query of strategies/vector_first_hybrid.py and  *)
(* strategies/full_hybrid.py, hybrid_retrieve of mixins/hybrid.py and the  *)
(* two nodes of retrieval/graph.py.  One strategy object serves every      *)
(* thread of the process: its name index is built once, its scope cache    *)
(* is shared, and its verdicts on a scope are kept per thread.             *)
(***************************************************************************)
EXTENDS DocumentScope

CONSTANTS
  Threads,          \* worker threads that answer questions
  Asks,             \* what may be asked: records question, asker, hint, plain
  Changing,         \* documents that are ingested and deleted meanwhile
  Strategy,         \* HYBRID_STRATEGY
  StoreStates,      \* subset of BOOLEAN: may the vector store be down?
  CacheLimit,       \* the 256 of the scope cache
  AmbiguousLead,    \* AMBIGUOUS_LEAD_RATIO, in percent
  MaxAsks,          \* bound: questions of a behaviour
  MaxChanges        \* bound: ingests and deletes of a behaviour

\* Items that stand for no text of the graph.
Markers == {"access_denied", "underspecified", "graph_outline", "outline", "graph_count"}

\* The text of a document carries the document's own tenant and language,
\* and an asker has a tenant: DEFAULT_TENANT_ID when none is given.
ASSUME RetrievalAssumption ==
  /\ NoDoc \notin Documents /\ Changing \subseteq Documents
  /\ \A n \in Nodes: /\ n.id \notin Markers /\ n.doc \in Documents
                     /\ n.tenant = Doc[n.doc].tenant /\ n.language = Doc[n.doc].language
  /\ \A a \in Asks: /\ DOMAIN a.asker = {"tenant", "language", "permitted"}
                    /\ a.asker.tenant # ""
  /\ {ProbeSize, CandidateLimit, CacheLimit} \subseteq Nat

VARIABLES
  corpus,           \* documents with an active revision
  names,            \* <<>>, or the corpus the index of names was built from
  terms,            \* terms[language]: <<>>, or the documents that were sampled
  cache,            \* _scope_cache: records key, docs
  verdict,          \* verdict[t]: what the thread last noted of a vector scope
  request,          \* request[t]: the question a thread is at
  asked, changes    \* counters of the bounds

vars == <<corpus, names, terms, cache, verdict, request, asked, changes>>

Languages == {a.asker.language: a \in Asks} \cup {DefaultLanguage}
VectorFirst == Strategy = "graph_rag_vector_first"
NoVerdict == [ambiguous |-> FALSE, underspecified |-> FALSE, candidates |-> <<>>]
Item(id) == <<[id |-> id, score |-> 0]>>

\* moved: documents that came or went since the question was asked; seen:
\* the corpus its evidence was read from; own: the candidates this request
\* itself found.
Idle == [stage |-> "idle", answer |-> "", offered |-> <<>>]
Asked(a) ==
  [stage |-> "asked", q |-> a.question, asker |-> a.asker, hint |-> a.hint, plain |-> a.plain,
   structural |-> VectorFirst /\ AsksForStructure(a.question), doc |-> NoDoc, docs |-> {},
   evidence |-> <<>>, offered |-> <<>>, moved |-> {}, seen |-> {}, own |-> <<>>]

Working == {t \in Threads: request[t].stage \notin {"idle", "answered", "failed"}}

\* The two ways on once the documents are chosen.
Placed(r, doc, docs) ==
  [r EXCEPT !.doc = doc, !.docs = docs, !.stage = IF r.structural THEN "structure" ELSE "fetch"]
Goes(t, stage) == request' = [request EXCEPT ![t].stage = stage]

Init ==
  /\ corpus \in {Documents, Documents \ Changing}
  /\ names = <<>> /\ terms = [l \in Languages |-> <<>>] /\ cache = {}
  /\ verdict = [t \in Threads |-> NoVerdict]
  /\ request = [t \in Threads |-> Idle]
  /\ asked = 0 /\ changes = 0

----------------------------------------------------------------------------
(* The question, and the gate in front of it.                              *)

Ask(t) ==
  /\ t \notin Working /\ asked < MaxAsks
  /\ \E a \in Asks: request' = [request EXCEPT ![t] = Asked(a)]
  /\ asked' = asked + 1
  /\ UNCHANGED <<corpus, names, terms, cache, verdict, changes>>

\* access_denied_response: one marker item, before any strategy runs.
Deny(t) ==
  /\ request[t].stage = "asked" /\ ~request[t].asker.permitted
  /\ request' = [request EXCEPT ![t].stage = "generate", ![t].evidence = Item("access_denied")]
  /\ UNCHANGED <<corpus, names, terms, cache, verdict, asked, changes>>

Admit(t) ==
  /\ request[t].stage = "asked" /\ request[t].asker.permitted
  /\ Goes(t, IF ~VectorFirst THEN "resolve"
             ELSE IF request[t].hint = NoDoc /\ Shape(request[t].q) # "structural"
                  THEN "gate" ELSE "exact")
  /\ UNCHANGED <<corpus, names, terms, cache, verdict, asked, changes>>

\* A question with neither a thread, nor a word that places it, nor a name:
\* the reader is asked which document is meant.
DocsOf(found) == [i \in DOMAIN found |-> found[i].doc]
FirstDocs(found) == Prefix(DocsOf(found), 5)
NamesNow == IF names = <<>> THEN <<corpus>> ELSE names
Gate(t) ==
  LET r == request[t]
      few == Cardinality(r.q.keywords) < 2
      table == IF terms[r.asker.language] = <<>>
               THEN <<SampledDocuments(corpus, r.asker.language)>> ELSE terms[r.asker.language]
      placed == ~few /\ ~CannotBePlaced(r.q, table[1])
      named == NamedDocument(r.q, NameIndex(NamesNow[1]), r.asker) # NoDoc
  IN /\ r.stage = "gate"
     /\ terms' = IF few THEN terms ELSE [terms EXCEPT ![r.asker.language] = table]
     /\ names' = IF placed THEN names ELSE NamesNow
     /\ IF placed \/ named THEN Goes(t, "exact")
        ELSE \E up \in StoreStates: \E found \in {Candidates(r.q, corpus, r.asker, up)}:
               request' = [request EXCEPT ![t].stage = "generate", ![t].own = FirstDocs(found),
                                          ![t].offered = FirstDocs(found),
                                          ![t].evidence = Item("underspecified")]
     /\ UNCHANGED <<corpus, cache, verdict, asked, changes>>

----------------------------------------------------------------------------
(* Which documents: the tiers of _scope_for_query, one read each.          *)

\* Mutant of ScopeByReference: the document of the conversation comes first.
ThreadFirst(t) ==
  LET r == request[t]
      d == IF Validated(r.hint, corpus, r.asker) THEN r.hint
           ELSE ExactReference(r.q, corpus, r.asker)
  IN /\ r.stage = "exact"
     /\ IF d = NoDoc THEN Goes(t, "named")
        ELSE request' = [request EXCEPT ![t] = Placed(@, d, {d})]
     /\ UNCHANGED <<corpus, names, terms, cache, verdict, asked, changes>>
\* A document the question spells out.
ScopeByReference(t) ==
  LET d == ExactReference(request[t].q, corpus, request[t].asker)
  IN /\ request[t].stage = "exact"
     /\ IF d = NoDoc THEN Goes(t, "named")
        ELSE request' = [request EXCEPT ![t] = Placed(@, d, {d})]
     /\ UNCHANGED <<corpus, names, terms, cache, verdict, asked, changes>>

\* A document whose name the question holds in another spelling.
ScopeByName(t) ==
  LET d == NamedDocument(request[t].q, NameIndex(NamesNow[1]), request[t].asker)
  IN /\ request[t].stage = "named"
     /\ names' = NamesNow
     /\ IF d = NoDoc THEN Goes(t, "thread")
        ELSE request' = [request EXCEPT ![t] = Placed(@, d, {d})]
     /\ UNCHANGED <<corpus, terms, cache, verdict, asked, changes>>

\* The document of the conversation.
ScopeByThread(t) ==
  LET d == request[t].hint
  IN /\ request[t].stage = "thread"
     /\ IF d = NoDoc \/ ~Validated(d, corpus, request[t].asker) THEN Goes(t, "cached")
        ELSE request' = [request EXCEPT ![t] = Placed(@, d, {d})]
     /\ UNCHANGED <<corpus, names, terms, cache, verdict, asked, changes>>

\* Mutant of CacheKey: the language is not part of the key.
LanguageBlindKey(r) ==
  [tenant |-> r.asker.tenant, language |-> DefaultLanguage, query |-> r.q.id]
CacheKey(r) == [tenant |-> r.asker.tenant, language |-> r.asker.language, query |-> r.q.id]
ScopeByCache(t) ==
  LET hits == {e \in cache: e.key = CacheKey(request[t])}
  IN /\ request[t].stage = "cached"
     /\ IF hits = {} THEN Goes(t, "vector")
        ELSE \E e \in hits:
               request' = [request EXCEPT ![t] = Placed(@, Head(e.docs), ToSet(e.docs))]
     /\ UNCHANGED <<corpus, names, terms, cache, verdict, asked, changes>>

\* The documents of the nearest text; a store that is down, or text that is
\* not near, leaves the choice to the resolver.
Remembered(key, docs) ==
  LET kept == IF Cardinality(cache) > CacheLimit THEN {} ELSE {e \in cache: e.key # key}
  IN kept \cup {[key |-> key, docs |-> docs]}
VerdictOn(q, found) ==
  [underspecified |-> Cardinality(q.keywords) < 2,
   ambiguous |-> Len(found) > 1 /\ found[2].relative >= AmbiguousLead,
   candidates |-> FirstDocs(found)]
ScopedTo(r, docs, candidates) ==
  [Placed(r, Head(docs), ToSet(docs)) EXCEPT !.own = candidates]
ScopeByVector(t) ==
  LET r == request[t]
  IN /\ r.stage = "vector"
     /\ \E up \in StoreStates: \E found \in {Candidates(r.q, corpus, r.asker, up)}:
          IF found = <<>>
          THEN Goes(t, "resolve") /\ UNCHANGED <<cache, verdict>>
          ELSE /\ verdict' = [verdict EXCEPT ![t] = VerdictOn(r.q, found)]
               /\ cache' = Remembered(CacheKey(r), DocsOf(found))
               /\ request' = [request EXCEPT ![t] = ScopedTo(r, DocsOf(found), FirstDocs(found))]
     /\ UNCHANGED <<corpus, names, terms, asked, changes>>

ScopeByResolver(t) ==
  /\ request[t].stage = "resolve"
  /\ \E up \in StoreStates:
       LET d == Resolve(request[t].q, corpus, request[t].asker, request[t].hint, up)
       IN request' = [request EXCEPT ![t] = Placed(@, d, Scope(d))]
  /\ UNCHANGED <<corpus, names, terms, cache, verdict, asked, changes>>

----------------------------------------------------------------------------
(* The evidence.                                                           *)

\* The hierarchy of one document; without a document, or when it has no such
\* place, the question is scoped and searched again like any other.
ReadStructure(t) ==
  LET r == request[t]
      items == IF r.docs = {} THEN <<>>
               ELSE IF Exhaustive(r.q) THEN Outline(corpus, r.doc, r.asker)
               ELSE ByAddress(r.q, corpus, r.doc, r.asker)
      verbatim == Exhaustive(r.q) /\ r.q.headings
  IN /\ r.stage = "structure"
     /\ request' = [request EXCEPT ![t] =
          IF items = <<>>
          THEN [r EXCEPT !.structural = FALSE, !.doc = NoDoc, !.docs = {}, !.stage = "exact"]
          ELSE [r EXCEPT !.stage = "generate", !.seen = corpus,
                         !.evidence = IF verbatim THEN Item("graph_outline") ELSE items]]
     /\ UNCHANGED <<corpus, names, terms, cache, verdict, asked, changes>>

\* The verdict a response carries is the one the thread noted last.
Doubtful(v) == v.ambiguous \/ v.underspecified
Fetch(t) ==
  LET r == request[t]
      counts == VectorFirst /\ Shape(r.q) = "aggregation" /\ r.doc # NoDoc
  IN /\ r.stage = "fetch"
     /\ \E up \in StoreStates:
          \E c \in {Channels(r.q, corpus, r.doc, r.docs, r.asker, r.plain, up)}:
            request' = [request EXCEPT ![t] =
              [r EXCEPT !.stage = IF counts THEN "count" ELSE "generate", !.seen = corpus,
                        !.evidence = WithUnits(r.q, Pinned(r.q, c), corpus, r.asker),
                        !.offered = IF Doubtful(verdict[t]) THEN verdict[t].candidates ELSE <<>>]]
     /\ UNCHANGED <<corpus, names, terms, cache, verdict, asked, changes>>

\* embed_future.result() raises: the question fails.
EmbeddingFails(t) ==
  /\ request[t].stage = "fetch" /\ ~request[t].plain /\ FALSE \in StoreStates
  /\ request' = [request EXCEPT ![t] = [Idle EXCEPT !.stage = "failed"]]
  /\ UNCHANGED <<corpus, names, terms, cache, verdict, asked, changes>>

\* A count is taken from the graph; else the outline goes before the text.
Count(t) ==
  LET r == request[t]
      counted == CountUnits(r.q, corpus, r.doc, r.asker)
  IN /\ r.stage = "count"
     /\ request' = [request EXCEPT ![t].stage = "generate",
          ![t].evidence = IF counted # <<>> THEN counted ELSE Outline(corpus, r.doc, r.asker) \o @]
     /\ UNCHANGED <<corpus, names, terms, cache, verdict, asked, changes>>

\* What the evidence makes of the answer: a marker or a fact of the graph is
\* returned as it is, before anything is written from the text.
AnswerFrom(r) ==
  LET ids == Ids(r.evidence)
  IN CASE "underspecified" \in ids -> "which document"
       [] "graph_outline" \in ids -> "outline"
       [] "graph_count" \in ids -> "count"
       [] "access_denied" \in ids -> "denied"
       [] ids = {} -> "nothing found"
       [] OTHER -> "written"
\* retrieve_node adds the candidates of the resolver where the strategy had
\* none and no document was found; generate_node answers.
Generate(t) ==
  LET r == request[t]
  IN /\ r.stage = "generate"
     /\ request' = [request EXCEPT ![t] =
          [stage |-> "answered", answer |-> AnswerFrom(r),
           offered |-> IF r.offered = <<>> /\ r.hint = NoDoc /\ r.doc = NoDoc
                       THEN Offered(r.q, corpus, r.asker) ELSE r.offered]]
     /\ UNCHANGED <<corpus, names, terms, cache, verdict, asked, changes>>

----------------------------------------------------------------------------
(* The rest of the system.                                                 *)

\* An ingest or a delete of one document.
CorpusChanges ==
  /\ changes < MaxChanges
  /\ \E d \in Changing:
       /\ corpus' = IF d \in corpus THEN corpus \ {d} ELSE corpus \cup {d}
       /\ request' = [t \in Threads |->
            IF t \in Working THEN [request[t] EXCEPT !.moved = @ \cup {d}] ELSE request[t]]
  /\ changes' = changes + 1
  /\ UNCHANGED <<names, terms, cache, verdict, asked>>

\* The term statistics are as old as their time to live.
TermsExpire ==
  /\ \E l \in Languages: terms[l] # <<>> /\ terms' = [terms EXCEPT ![l] = <<>>]
  /\ UNCHANGED <<corpus, names, cache, verdict, request, asked, changes>>

Serve(t) ==
  \/ Deny(t) \/ Admit(t) \/ Gate(t)
  \/ ScopeByReference(t) \/ ScopeByName(t) \/ ScopeByThread(t) \/ ScopeByCache(t)
  \/ ScopeByVector(t) \/ ScopeByResolver(t)
  \/ ReadStructure(t) \/ Fetch(t) \/ EmbeddingFails(t) \/ Count(t) \/ Generate(t)

Next ==
  \/ \E t \in Threads: Ask(t) \/ Serve(t)
  \/ CorpusChanges \/ TermsExpire

Spec == Init /\ [][Next]_vars
----------------------------------------------------------------------------
(* Properties.                                                             *)

Read(r) == {NodeAt(id): id \in {x \in Ids(r.evidence): IsNode(x)}}
HasEvidence(r) == r.stage \in {"count", "generate"}

\* Whatever the channels, the expansion in the graph, the pins and the parts
\* of units bring in, an answer is written from text of the documents the
\* question was placed in, of the asker's tenant and, where it was searched
\* for, in the asker's language: full_hybrid.retrieve, "Scope
\* vector/fulltext/graph-expand to a single document".
EvidenceIsOfTheScope ==
  \A t \in Threads: LET r == request[t] IN HasEvidence(r) =>
    \A n \in Read(r): /\ r.docs = {} \/ n.doc \in r.docs
                      /\ TenantOk(n, r.asker)
                      /\ r.structural \/ LanguageOk(n, r.asker)

\* A question that spells out one document is answered from that document,
\* whatever the conversation was about, a cached scope or the index of names
\* says: vector_first_hybrid._scope_for_query, "A document named in THIS
\* question outranks the one the thread was discussing".
Spelled(q) == {d \in Documents: \E name \in Doc[d].names: name.several /\ name.key \in q.spelled}
NamedDocumentWins ==
  \A t \in Threads: LET r == request[t] IN
    /\ r.stage \in {"structure", "fetch", "count", "generate"}
    /\ VectorFirst /\ r.moved \cap Spelled(r.q) = {}
    /\ Ids(r.evidence) \cap {"access_denied", "underspecified"} = {}
    => r.doc = ExactReference(r.q, corpus, r.asker) \/ ExactReference(r.q, corpus, r.asker) = NoDoc

\* What is remembered for one tenant and language holds no document of
\* another, and the cache stays small: _scope_for_query, "Without it the
\* first caller's language wins for every later caller asking the same words".
CacheIsScoped ==
  /\ Cardinality(cache) <= CacheLimit + 1
  /\ \A e \in cache: /\ e.docs # <<>>
                     /\ \A d \in ToSet(e.docs): LanguageOk(Doc[d], e.key) /\ TenantOk(Doc[d], e.key)

\* A counting question is answered from text that puts a number on what is
\* counted, when the document it was placed in has such text: no other pin,
\* no cut and no other part of a unit takes its place.
NumberIsRead ==
  \A t \in Threads: LET r == request[t] IN
    /\ r.stage \in {"count", "generate"} /\ r.seen # {} /\ ~r.structural /\ r.q.counting
    /\ "graph_count" \notin Ids(r.evidence)
    /\ QuantityHits(r.q, r.seen, r.doc, r.asker) # <<>>
    => \E n \in Read(r): n.counts \cap r.q.nouns # {}

----------------------------------------------------------------------------
(* What the code says of itself and does not keep.                         *)

\* The candidates a response carries were found for its question:
\* vector_first_hybrid.__init__, "one request's 'low confidence' verdict
\* appeared on another's answer, which is worse than not reporting it".
CandidatesAreItsOwn ==
  \A t \in Threads: request[t].stage = "generate" => request[t].offered \in {<<>>, request[t].own}
=============================================================================
