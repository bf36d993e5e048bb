--------------------------- MODULE SemanticLinks ---------------------------
(***************************************************************************)
(* The semantic axis of one document (Axis2Builder.build and then          *)
(* ChapterSummaryBuilder.build): embeddings, entities from batches of text *)
(* in a pool of threads, the edges computed from both, relations a chat    *)
(* model sees in pairs of nodes, and a summary of every chapter.           *)
(*                                                                         *)
(* A batch is a sequence of units, a unit a piece of a node's text.  A     *)
(* batch whose answer cannot be parsed is cut in two by its own thread,    *)
(* half after half; a rate limit ends the thread's work.  The main thread  *)
(* merges what the threads return in the order they finish.                *)
(***************************************************************************)
EXTENDS EntityLinks

CONSTANTS
  Nodes, Kind,        \* nodes and their kinds
  Units, NodeOf,      \* the pieces of text in document order, their nodes
  Answers,            \* the entities a model may see in a unit
  Grounded,           \* the texts that occur in a node
  BatchSize, NerThreads, MaxEntities,
  Similarity, Closeness, Clusterings, Noise, Faint,
  Similar, Contradicting, CategoryFloor,   \* thresholds, in percent
  Pairs,              \* AXIS2_MAX_LLM_PAIRS
  PairThreads, Relations, GroundEdges,
  Holds               \* CONTAINS edges below the chapters

\* A model answers with a list, every piece of text is of a node, and how
\* close two nodes are is a number.
ASSUME SemanticAssumption ==
  /\ IsFiniteSet(Nodes) /\ BatchSize \in Nat \ {0} /\ {MaxEntities, Pairs} \subseteq Nat
  /\ Units \in Seq(ToSet(Units)) /\ \A u \in ToSet(Units): NodeOf[u] \in Nodes
  /\ \A u \in ToSet(Units): \A answer \in Answers[u]: answer \in Seq(ToSet(answer))
  /\ \A p \in PairsOf(Nodes): Similarity[p] \in Int
  /\ Contradicting \in Int /\ \A n \in 0..Cardinality(Nodes): MaxDf(n) \in Int

VARIABLES
  phase,      \* "embed", "ner", "link", "pairs", "summaries", "done"
  embedded,   \* the nodes with an embedding
  waiting,    \* batches no thread has taken
  working,    \* threads: [batch, todo, got], todo a sequence of batches
  finished,   \* batches whose thread has returned: [batch, got]
  failed,     \* the batches whose thread raised
  entities,   \* entities of a node, in the order they were merged
  types,      \* types of a node's entities
  edges,      \* edges of the three kinds that need no model
  asking,     \* pairs no thread has taken, best first
  judging,    \* pairs a thread is at: [pair, edge], edge or NoEdge
  judged,     \* edges a model saw
  summarised  \* chapters with a summary, chapters left: [with, left]

nerVars == <<waiting, working, finished, failed, entities, types>>
pairVars == <<asking, judging, judged>>
vars == <<phase, embedded, edges, summarised, nerVars, pairVars>>

NoEdge == [rel |-> "NONE"]

---------------------------------------------------------------------------
(* Pieces *)

Linked == {n \in Nodes: Kind[n] \in {"Chapter", "Section"}}

Batches ==
  LET units == FoldLeft(LAMBDA acc, u: IF Kind[NodeOf[u]] \in {"Section", "Page"}
                                       THEN Append(acc, u) ELSE acc,
                        <<>>, Units)
      count == (Len(units) + BatchSize - 1) \div BatchSize
  IN [i \in 1..count |->
        SubSeq(units, (i - 1) * BatchSize + 1, Min({i * BatchSize, Len(units)}))]

\* What one answered call adds: the grounded entities of its units, in order.
Found(batch, answer) ==
  LET Grounds(acc, n, e) ==
        IF e.text \in Grounded[n] THEN Append(acc, [node |-> n, entity |-> e]) ELSE acc
  IN FoldLeft(LAMBDA acc, u: FoldLeft(LAMBDA a, e: Grounds(a, NodeOf[u], e), acc, answer[u]),
              <<>>, batch)

\* Mutant of Extended: what a batch found replaces what the node has.
Replaced(old, n, got) ==
  IF \E i \in 1..Len(got): got[i].node = n
  THEN LET own == SelectSeq(got, LAMBDA g: g.node = n) IN
         [i \in 1..Len(own) |-> own[i].entity.text]
  ELSE old

\* Entities a node gains when one batch is merged: none twice.
Extended(old, n, got) ==
  FoldLeft(LAMBDA acc, g: IF g.node # n \/ \E i \in 1..Len(acc): acc[i] = g.entity.text
                          THEN acc ELSE Append(acc, g.entity.text),
           old, got)

\* A later type replaces an earlier one.
Retyped(old, n, got) ==
  FoldLeft(LAMBDA acc, g: IF g.node # n \/ g.entity.type = "" THEN acc
                          ELSE (g.entity.text :> g.entity.type) @@ acc,
           old, got)

---------------------------------------------------------------------------
(* The calls *)

Init ==
  /\ phase = "embed"
  /\ embedded = {}
  /\ waiting = <<>> /\ working = {} /\ finished = {} /\ failed = {}
  /\ entities = [n \in Nodes |-> <<>>]
  /\ types = [n \in Nodes |-> <<>>]
  /\ edges = [similar |-> {}, shares |-> {}, category |-> {}]
  /\ asking = <<>> /\ judging = {} /\ judged = {}
  /\ summarised = [with |-> {}, left |-> {}]

\* An embedding call that fails ends the build without an edge; the caller
\* goes on to the summaries.
Embed ==
  /\ phase = "embed"
  /\ \/ /\ embedded' = Linked
        /\ phase' = "ner"
        /\ waiting' = Batches
        /\ UNCHANGED summarised
     \/ /\ phase' = "summaries"
        /\ summarised' = [summarised EXCEPT !.left = {n \in Nodes: Kind[n] = "Chapter"}]
        /\ UNCHANGED <<embedded, waiting>>
  /\ UNCHANGED <<working, finished, failed, entities, types, edges, pairVars>>

StartBatch ==
  /\ phase = "ner" /\ waiting # <<>> /\ Cardinality(working) < NerThreads
  /\ working' = working \cup
       {[batch |-> Head(waiting), todo |-> <<Head(waiting)>>, got |-> <<>>]}
  /\ waiting' = Tail(waiting)
  /\ UNCHANGED <<phase, embedded, finished, failed, entities, types, edges,
                 pairVars, summarised>>

\* The thread goes on with what is left of its batch, or returns.
Continue(t, todo, got) ==
  IF todo = <<>>
  THEN /\ working' = working \ {t}
       /\ finished' = finished \cup {[batch |-> t.batch, got |-> got]}
  ELSE /\ working' = (working \ {t}) \cup {[t EXCEPT !.todo = todo, !.got = got]}
       /\ UNCHANGED finished

Answered(t) ==
  \E answer \in [ToSet(Head(t.todo)) -> UNION {Answers[u]: u \in ToSet(Head(t.todo))}]:
    /\ \A u \in DOMAIN answer: answer[u] \in Answers[u]
    /\ Continue(t, Tail(t.todo), t.got \o Found(Head(t.todo), answer))
    /\ UNCHANGED failed

Halves(batch) ==
  LET mid == Len(batch) \div 2 IN
    <<SubSeq(batch, 1, mid), SubSeq(batch, mid + 1, Len(batch))>>

\* Mutant of Unparsable: a single unit is cut in two as well.
AlwaysHalved(t) ==
  /\ Continue(t, Halves(Head(t.todo)) \o Tail(t.todo), t.got)
  /\ UNCHANGED failed

Unparsable(t) ==
  /\ Continue(t, (IF Len(Head(t.todo)) > 1 THEN Halves(Head(t.todo)) ELSE <<>>)
                   \o Tail(t.todo), t.got)
  /\ UNCHANGED failed

\* The exception leaves the thread with everything its batch had so far.
RateLimited(t) ==
  /\ working' = working \ {t}
  /\ failed' = failed \cup {t.batch}
  /\ UNCHANGED finished

NerCall ==
  \E t \in working:
    /\ Answered(t) \/ Unparsable(t) \/ RateLimited(t)
    /\ UNCHANGED <<phase, embedded, waiting, entities, types, edges, pairVars,
                   summarised>>

Merge ==
  \E f \in finished:
    /\ finished' = finished \ {f}
    /\ entities' = [n \in Nodes |-> Extended(entities[n], n, f.got)]
    /\ types' = [n \in Nodes |-> Retyped(types[n], n, f.got)]
    /\ UNCHANGED <<phase, embedded, waiting, working, failed, edges, pairVars,
                   summarised>>

\* All batches are in: a node keeps its first MaxEntities entities.
EndNer ==
  /\ phase = "ner" /\ waiting = <<>> /\ working = {} /\ finished = {}
  /\ entities' = [n \in Nodes |->
                    SubSeq(entities[n], 1, Min({MaxEntities, Len(entities[n])}))]
  /\ phase' = "link"
  /\ UNCHANGED <<embedded, waiting, working, finished, failed, types, edges,
                 pairVars, summarised>>

---------------------------------------------------------------------------
(* Edges *)

\* The nodes that are clustered, with the signal they are clustered on.
Clustered(mentions) ==
  IF /\ Cardinality(NodesIn(mentions)) >= 3
     /\ Cardinality({Entity(m): m \in mentions}) >= 2
  THEN [on |-> "entities", nodes |-> NodesIn(mentions) \ Faint]
  ELSE [on |-> "embeddings", nodes |-> embedded]

\* _build_category_edges, with any of the labellings the clusterer may give.
CategoryEdges(mentions, label) ==
  LET c == Clustered(mentions) IN
    IF Cardinality(c.nodes) < 3 THEN {}
    ELSE SameCategory(c.nodes, label, Noise,
                      IF c.on = "entities" THEN Closeness ELSE Similarity,
                      IF c.on = "entities" THEN CategoryFloor ELSE Similar)

\* Mutant of PairsToAsk: a pair may come from either pool.
BothPools(shares) ==
  LET close == {[ends |-> p, score |-> Similarity[p]]:
                  p \in {q \in PairsOf(embedded): Similarity[q] >= Contradicting}}
      asked == ByScore(close) \o ByScore(shares)
  IN [i \in 1..Min({Pairs, Len(asked)}) |-> asked[i].ends]

\* Two pools: the closest pairs, and pairs that share an entity without
\* being close, at most a third of the calls.
PairsToAsk(shares) ==
  LET close == {[ends |-> p, score |-> Similarity[p]]:
                  p \in {q \in PairsOf(embedded): Similarity[q] >= Contradicting}}
      bridges == {[ends |-> e.ends, score |-> e.score]:
                    e \in {s \in shares: /\ s.ends \subseteq embedded
                                         /\ Similarity[s.ends] < Contradicting}}
      slots == Min({Cardinality(bridges), Pairs \div 3})
      First(s, k) == [i \in 1..Min({k, Len(s)}) |-> s[i].ends]
  IN First(ByScore(close), Pairs - slots) \o First(ByScore(bridges), slots)

Link ==
  /\ phase = "link"
  /\ \E mentions \in {Resolved(Mentions(entities, types))}:
       \E shares \in {SharesEntity(mentions)}, label \in Clusterings:
         /\ edges' \in {[similar |-> TopPairs(embedded, Similarity, Similar),
                         shares |-> shares,
                         category |-> CategoryEdges(mentions, label)]}
         /\ asking' \in {PairsToAsk(shares)}
  /\ phase' = "pairs"
  /\ UNCHANGED <<embedded, nerVars, judging, judged, summarised>>

---------------------------------------------------------------------------
(* Relations between two nodes *)

AskPair ==
  /\ phase = "pairs" /\ asking # <<>> /\ Cardinality(judging) < PairThreads
  /\ judging' = judging \cup {[pair |-> Head(asking), edge |-> NoEdge]}
  /\ asking' = Tail(asking)
  /\ UNCHANGED <<phase, embedded, nerVars, edges, judged, summarised>>

\* The model names a relation it is confident of, or the pair has none: the
\* answer NONE, a low confidence and any failure look the same.
Relate(j) ==
  /\ j.edge = NoEdge
  /\ \/ \E src \in j.pair, rel \in Relations:
          LET edge == [rel |-> rel, src |-> src,
                       tgt |-> CHOOSE n \in j.pair: n # src]
          IN IF GroundEdges
             THEN /\ judging' = (judging \ {j}) \cup {[j EXCEPT !.edge = edge]}
                  /\ UNCHANGED judged
             ELSE /\ judging' = judging \ {j}
                  /\ judged' = judged \cup {edge}
     \/ /\ judging' = judging \ {j}
        /\ UNCHANGED judged

\* A second call that is shown the two texts only; a failure refuses.
Ground(j) ==
  /\ j.edge # NoEdge
  /\ \E supported \in BOOLEAN:
       judged' = judged \cup (IF supported THEN {j.edge} ELSE {})
  /\ judging' = judging \ {j}

JudgePair ==
  \E j \in judging:
    /\ Relate(j) \/ Ground(j)
    /\ UNCHANGED <<phase, embedded, nerVars, edges, asking, summarised>>

EndPairs ==
  /\ phase = "pairs" /\ asking = <<>> /\ judging = {}
  /\ phase' = "summaries"
  /\ summarised' = [summarised EXCEPT !.left = {n \in Nodes: Kind[n] = "Chapter"}]
  /\ UNCHANGED <<embedded, nerVars, edges, pairVars>>

---------------------------------------------------------------------------
(* Summaries of chapters *)

\* The walk over the CONTAINS edges keeps the nodes it has seen.
Below(chapter) ==
  LET reach[i \in 0..Cardinality(Nodes)] ==
        IF i = 0 THEN {e[2]: e \in {c \in Holds: c[1] = chapter}}
        ELSE reach[i - 1] \cup {e[2]: e \in {c \in Holds: c[1] \in reach[i - 1]}}
  IN reach[Cardinality(Nodes)]

SectionsOf(chapter) == {n \in Below(chapter): Kind[n] = "Section"}

\* A chapter without sections is not summarised, nor one whose call fails.
Summarise ==
  /\ phase = "summaries"
  /\ \E c \in summarised.left, answered \in BOOLEAN:
       summarised' = [left |-> summarised.left \ {c},
                      with |-> summarised.with \cup
                        (IF answered /\ SectionsOf(c) # {} THEN {c} ELSE {})]
  /\ UNCHANGED <<phase, embedded, nerVars, edges, pairVars>>

Finish ==
  /\ phase = "summaries" /\ summarised.left = {}
  /\ phase' = "done"
  /\ UNCHANGED <<embedded, nerVars, edges, pairVars, summarised>>

Rest == phase = "done" /\ UNCHANGED vars

Next ==
  \/ Embed \/ StartBatch \/ NerCall \/ Merge \/ EndNer \/ Link
  \/ AskPair \/ JudgePair \/ EndPairs \/ Summarise \/ Finish \/ Rest

\* Threads run, and a call to a model returns or raises.
Spec == Init /\ [][Next]_vars /\ WF_vars(Next)

---------------------------------------------------------------------------
(* Properties *)

\* What a batch adds to a node stays when later batches of the same node are
\* merged, in whatever order the threads return (_extract_entities).
MergingLosesNothing ==
  [][phase' = "ner" =>
       \A n \in Nodes: ToSet(entities[n]) \subseteq ToSet(entities'[n])]_vars

\* No node has more edges of one kind than the cap, however many nodes are
\* close to it or share its entities (_cap_edges_by_degree).
DegreesAreBounded ==
  \A kind \in DOMAIN edges, n \in Nodes: Degree(edges[kind], n) <= DegreeCap

IsPervasive(naming) ==
  LET total == Cardinality({n \in Nodes: entities[n] # <<>>}) IN
    total >= MinEntityNodes /\ Cardinality(naming) > Max({1, MaxDf(total)})

\* Two nodes share an entity only if both still name it, by one of its
\* spellings and with its type, and not more nodes of the document name it
\* than an informative entity may have: counted over all types of the
\* taxonomy, over its own type only when that is outside it.  No more
\* entities of one type of the taxonomy tie two nodes than the cap
\* (_resolve_canonical_entities, _informative_entities,
\* _dedupe_enumeration_types).
Named == Resolved(Mentions(entities, types))
SharedEntitiesAreSpecific ==
  \A e \in edges.shares:
    /\ \A shared \in e.shared:
         /\ \A n \in e.ends: [node |-> n, text |-> shared.text, type |-> shared.type] \in Named
         /\ shared.type \notin NonTopicalTypes
         /\ ~IsPervasive({m.node: m \in {x \in Named: BaseText(x) = BaseText(shared)}})
    /\ \A type \in EntityTypes:
         Cardinality({shared \in e.shared: shared.type = type}) <= SameTypeCap

\* "it must never be allowed to affect how OFTEN that entity is judged to
\* appear": a pervasive name ties no nodes, whatever types its spellings have
\* (the docstring of _entity_base_text).  The code does not keep this: a type
\* outside the taxonomy, or a suffix left on a text that is alone among its
\* type, counts apart.
PervasiveNamesTieNothing ==
  \A e \in edges.shares: \A shared \in e.shared:
    ~IsPervasive({n \in Nodes: Base(shared.text) \in {Base(t): t \in ToSet(entities[n])}})

\* A pair of nodes is judged at most once, though two pools propose pairs,
\* and the calls stay within their budget (_build_llm_edges).
OneVerdictPerPair ==
  /\ \A e, f \in judged: {e.src, e.tgt} = {f.src, f.tgt} => e = f
  /\ Cardinality(judged) + Cardinality(judging) + Len(asking) <= Pairs

\* What the ranking of edges and the rules for entities promise together: an
\* edge is specific, a node is not flooded, and no pair costs two calls.
LinksAreSound == SharedEntitiesAreSpecific /\ DegreesAreBounded /\ OneVerdictPerPair

\* Threads, splits and refusals included, the build ends.
BuildEnds == <>(phase = "done")
=============================================================================
