---------------------------- MODULE EntityLinks ----------------------------
(***************************************************************************)
(* The edges of the semantic axis that need no model call                  *)
(* (src/unstructured/semantic/axis2.py): the greedy choice of edges under  *)
(* a cap on every node's degree, the canonical form of an entity, and      *)
(* which entities are informative enough to tie two nodes.                 *)
(*                                                                         *)
(* A text is a lower-cased string.  What the regular expressions and       *)
(* difflib compute of a text is a constant operator: its form without a    *)
(* possessive and a company's suffix, the letters of a dotted acronym, the *)
(* initials of an expansion, and which forms are spelled alike.            *)
(***************************************************************************)
EXTENDS Integers, FiniteSets, Sequences, SequencesExt, FiniteSetsExt

CONSTANTS
  Base(_),          \* a text without possessives and corporate suffix
  Alike(_, _),      \* two forms share a prefix and are 92% similar
  Letters(_),       \* the letters of a dotted acronym, or NoLetters
  Initials(_),      \* the initials of a form of several words: a set
  Width(_),         \* the length of a form
  NoLetters,
  EntityTypes,      \* _ENTITY_TYPES: the types the model is asked for
  NonTopicalTypes,  \* _NON_TOPICAL_ENTITY_TYPES: dates
  NonTopicalTexts,  \* phrases of the filing type, continents
  MaxDf(_),         \* in how many of n nodes an entity may occur
  MinEntityNodes,   \* _ENTITY_GENERICITY_MIN_NODES
  MinSharable,      \* _ANCHOR_DISTINCTIVENESS_MIN_ENTITIES
  SameTypeCap,      \* _ENUMERATION_SAME_TYPE_CAP
  DegreeCap         \* AXIS2_MAX_SIMILARITY_EDGES_PER_NODE

ASSUME CapAssumption == {DegreeCap, SameTypeCap} \subseteq Nat

\* An entity without a type has the type "".
ASSUME TaxonomyAssumption == NonTopicalTypes \subseteq EntityTypes /\ "" \notin EntityTypes

---------------------------------------------------------------------------
(* Edges under a cap: candidates are records [ends |-> {a, b}, score |-> s] *)

Listed(S) == FoldSet(LAMBDA x, seq: Append(seq, x), <<>>, S)

\* Highest score first; among equals the order is that of the scan.
Ranked(c, seq) ==
  InsertAt(seq, 1 + Cardinality({i \in DOMAIN seq: seq[i].score >= c.score}), c)
ByScore(candidates) == FoldSet(Ranked, <<>>, candidates)

Degree(edges, n) == Cardinality({e \in edges: n \in e.ends})

\* Mutant of CapByDegree: every node picks its own best candidates.
OwnPicks(candidates) ==
  {c \in candidates: \E n \in c.ends:
     Cardinality({d \in candidates: n \in d.ends /\ d.score > c.score}) < DegreeCap}

CapByDegree(candidates) ==
  FoldLeft(LAMBDA chosen, c:
             IF \A n \in c.ends: Degree(chosen, n) < DegreeCap
             THEN chosen \cup {c} ELSE chosen,
           {}, ByScore(candidates))

PairsOf(S) == {p \in SUBSET S: Cardinality(p) = 2}

\* The pairs of nodes at least that close, each once.
TopPairs(nodes, closeness, floor) ==
  CapByDegree({[ends |-> p, score |-> closeness[p]]:
                 p \in {q \in PairsOf(nodes): closeness[q] >= floor}})

---------------------------------------------------------------------------
(* Canonical entities.  A partition is a set of blocks of forms.           *)

Block(partition, k) == CHOOSE b \in partition: k \in b

Join(partition, a, b) ==
  (partition \ {Block(partition, a), Block(partition, b)})
    \cup {Block(partition, a) \cup Block(partition, b)}

SpelledAlike(keys) ==
  FoldSet(LAMBDA pair, partition: Join(partition, pair[1], pair[2]),
          {{k}: k \in keys},
          {p \in keys \X keys: p[1] # p[2] /\ Alike(p[1], p[2])})

\* A dotted acronym joins the one cluster that has its letters as initials;
\* the letters of a dotted form are initials of their own, so another
\* spelling of the acronym counts as a cluster too.
WithAcronyms(keys, partition) ==
  FoldLeft(LAMBDA acc, k:
             LET clusters ==
                   {Block(acc, m): m \in {x \in keys: Letters(k) \in Initials(x)}}
                     \ {Block(acc, k)}
             IN IF Letters(k) # NoLetters /\ Cardinality(clusters) = 1
                THEN Join(acc, k, CHOOSE m \in UNION clusters: TRUE)
                ELSE acc,
           partition, Listed(keys))

Clusters(texts) ==
  LET keys == {Base(t): t \in texts} IN WithAcronyms(keys, SpelledAlike(keys))

Longest(forms) == CHOOSE f \in forms: \A g \in forms: Width(f) >= Width(g)

\* _canonicalize_entities for the texts of one type: a text alone among its
\* type is left as it is, suffix included.
Canonical(texts, t) ==
  IF Cardinality(texts) < 2 THEN t ELSE Longest(Block(Clusters(texts), Base(t)))

---------------------------------------------------------------------------
(* Entities of a document.  A mention is a record [node, text, type].      *)

\* entities[n] is the sequence of n's entities, types[n] the function from
\* their texts to their types.
TypeOf(types, n, t) == IF t \in DOMAIN types[n] THEN types[n][t] ELSE ""

Mentions(entities, types) ==
  UNION {{[node |-> n, text |-> t, type |-> TypeOf(types, n, t)]:
            t \in ToSet(entities[n])}: n \in DOMAIN entities}

\* _resolve_canonical_entities: every type has a vocabulary of its own, and
\* the type stays part of the entity.
Resolved(mentions) ==
  {[m EXCEPT !.text = Canonical({x.text: x \in {y \in mentions: y.type = m.type}}, m.text)]:
     m \in mentions}

Entity(m) == [text |-> m.text, type |-> m.type]
NodesIn(mentions) == {m.node: m \in mentions}
NodesOf(mentions, e) == NodesIn({m \in mentions: Entity(m) = e})

\* An entity is read back from its display, "text (TYPE)": a type outside
\* EntityTypes, which a model may answer with, stays part of the text.
ReadType(e) == IF e.type \in EntityTypes THEN e.type ELSE ""
BaseText(e) == [text |-> e.text, rest |-> IF e.type \in EntityTypes THEN "" ELSE e.type]

NonTopical(e) ==
  \/ ReadType(e) \in NonTopicalTypes
  \/ BaseText(e).rest = "" /\ e.text \in NonTopicalTexts

\* Mutant of Informative: an entity is judged by the nodes of its own type.
InformativeByType(mentions) ==
  {e \in {Entity(m): m \in mentions}:
     Cardinality(NodesOf(mentions, e)) <= MaxDf(Cardinality(NodesIn(mentions)))}

\* An entity is judged by the nodes with the same base text.
Informative(mentions) ==
  LET total == Cardinality(NodesIn(mentions))
      Naming(base) == NodesIn({m \in mentions: BaseText(m) = base})
  IN {Entity(m): m \in {x \in mentions:
        /\ ~NonTopical(x)
        /\ total >= MinEntityNodes =>
             Cardinality(Naming(BaseText(x))) <= Max({1, MaxDf(total)})}}

\* A score that falls with the number of nodes, as the logarithm does.
Rarity(mentions, e) ==
  (60 * (Cardinality(NodesIn(mentions)) + 1)) \div (Cardinality(NodesOf(mentions, e)) + 1)

\* _dedupe_enumeration_types: at most SameTypeCap entities of one type; what
\* reads as untyped is not capped.
WithoutEnumerations(shared) ==
  UNION {LET same == {e \in shared: ReadType(e) = type} IN
           IF type = "" \/ Cardinality(same) <= SameTypeCap THEN same
           ELSE ToSet(SubSeq(Listed(same), 1, SameTypeCap)):
         type \in {ReadType(e): e \in shared}}

\* Four times the lower quartile (linearly interpolated) of the rarity of
\* the entities that two nodes can share.
Floor(mentions, sharable) ==
  IF Cardinality(sharable) < MinSharable THEN 0
  ELSE LET ranked == Reverse(ByScore({[score |-> Rarity(mentions, e), of |-> e]: e \in sharable}))
           at == 1 + (Len(ranked) - 1) \div 4
           above == (Len(ranked) - 1) % 4
       IN 4 * ranked[at].score
            + (IF above = 0 THEN 0
               ELSE above * (ranked[at + 1].score - ranked[at].score))

\* Four times the score of a pair: the strongest entity counts in full, the
\* others a quarter each.
Strength(mentions, shared) ==
  3 * Max({Rarity(mentions, e): e \in shared})
    + MapThenSumSet(LAMBDA e: Rarity(mentions, e), shared)

\* _build_entity_edges
SharesEntity(mentions) ==
  LET informative == Informative(mentions)
      sharable == {e \in informative: Cardinality(NodesOf(mentions, e)) >= 2}
      floor == Floor(mentions, sharable)
      pairs == {[ends |-> p,
                 shared |-> WithoutEnumerations(
                   {e \in sharable: p \subseteq NodesOf(mentions, e)})]:
                  p \in PairsOf(NodesIn(mentions))}
      anchored == {p \in pairs: \E e \in p.shared: 4 * Rarity(mentions, e) >= floor}
  IN CapByDegree({[ends |-> p.ends, shared |-> p.shared,
                   score |-> Strength(mentions, p.shared)]: p \in anchored})

\* _build_category_edges: the edges of every cluster of a clustering, the
\* nodes labelled as noise left out.
SameCategory(nodes, label, noise, closeness, floor) ==
  UNION {TopPairs({n \in nodes: label[n] = c}, closeness, floor):
           c \in {label[n]: n \in nodes} \ {noise}}
=============================================================================
