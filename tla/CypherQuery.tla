----------------------------- MODULE CypherQuery -----------------------------
(***************************************************************************)
(* A generated Cypher query as the structured retriever sees it: the path  *)
(* of its MATCH clause, the properties it reads, the slips of the model    *)
(* that a repair removes and those that only a new generation does. The    *)
(* repairs of cypher/repair.py, the tenant filters of                      *)
(* cypher/tenant_injection.py and the checks of cypher/validator.py are    *)
(* operators on it.                                                        *)
(*                                                                         *)
(* A query is a record                                                     *)
(*   nodes     the variables and labels of its path, in order              *)
(*   hops      the relationship between each node and the next, with the   *)
(*             direction of its arrow                                      *)
(*   scoped    the variables whose clause names their tenant_id            *)
(*   reads     the properties it reads, as <<variable, property>>          *)
(*   slips     wording that the repairs know                               *)
(*   idiom     whether it uses SQL that no repair removes                  *)
(*   dated     whether it keeps the year of the question                   *)
(*   figure    whether it returns one aggregate or a list of rows          *)
(*   takes     whether it takes a parameter from an earlier step           *)
(* A schema is the sequence of triples <<label, relationship, label>> of   *)
(* the RELATIONSHIP TYPES section of the schema text.                      *)
(***************************************************************************)
EXTENDS Integers, SequencesExt

CONSTANTS
    MultiTenancy,   \* MULTI_TENANCY_ENABLED
    Exempt,         \* TENANT_EXEMPT_LABELS
    Unlabelled      \* the label of a node written without one

Slips == {"paren", "pattern_alias", "round", "regroup", "bare_with", "rel_field", "loose_field"}

\* A path has one node more than hops.
IsQuery(q) ==
    /\ DOMAIN q = {"nodes", "hops", "scoped", "reads", "slips", "idiom", "dated", "figure", "takes"}
    /\ q.nodes \in Seq(ToSet(q.nodes)) /\ q.hops \in Seq(ToSet(q.hops))
    /\ Len(q.nodes) = Len(q.hops) + 1

ASSUME QueryAssumption == MultiTenancy \in BOOLEAN /\ Unlabelled \notin Exempt

Vars(q) == {n.var : n \in ToSet(q.nodes)}
LabelOf(q, v) == (CHOOSE n \in ToSet(q.nodes) : n.var = v).label

\* The i-th relationship as <<node it starts from, type, node it leads to>>.
EdgeAt(q, i) ==
    IF q.hops[i].dir = "fwd" THEN <<q.nodes[i], q.hops[i].rel, q.nodes[i + 1]>>
    ELSE <<q.nodes[i + 1], q.hops[i].rel, q.nodes[i]>>

Triple(e) == <<e[1].label, e[2], e[3].label>>

\* Every hop of the path is one the schema has.
Agrees(q, schema) == \A i \in DOMAIN q.hops : Triple(EdgeAt(q, i)) \in ToSet(schema)

----------------------------------------------------------------------------
(* Repair of the path. *)

\* An arrow that points from t's target to its source, or the same with the
\* arrow to the left.
WrongForward(q, t) ==
    {i \in DOMAIN q.hops : /\ q.hops[i] = [rel |-> t[2], dir |-> "fwd"]
                           /\ q.nodes[i].label = t[3] /\ q.nodes[i + 1].label = t[1]}
WrongReverse(q, t) ==
    {i \in DOMAIN q.hops : /\ q.hops[i] = [rel |-> t[2], dir |-> "rev"]
                           /\ q.nodes[i].label = t[1] /\ q.nodes[i + 1].label = t[3]}

\* re.sub replaces from left to right, and a match starts after the last.
Disjoint(places) ==
    LET hit[i \in Nat] == i \in places /\ ~hit[i - 1] IN {i \in places : hit[i]}

\* A sequence, as a value that TLC need not evaluate again, and F(x) with x
\* evaluated once.
Evaluated(s) == SubSeq(s, 1, Len(s))
Once(F(_), x) == CHOOSE y \in {F(z) : z \in {x}} : TRUE

SwapNodes(q, places) ==
    [q EXCEPT !.nodes = Evaluated([j \in DOMAIN @ |-> IF j \in places THEN @[j + 1]
                                                      ELSE IF j - 1 \in places THEN @[j - 1] ELSE @[j]])]
TurnArrows(q, places) ==
    [q EXCEPT !.hops = Evaluated([i \in DOMAIN @ |-> IF i \in places THEN [@[i] EXCEPT !.dir = "fwd"]
                                                     ELSE @[i]])]

\* Mutant of FixedBy: the two ends of the triple are mixed up.
FixedBackwards(q0, t) ==
    Once(LAMBDA q : SwapNodes(q, Disjoint(WrongForward(q, <<t[3], t[2], t[1]>>))), q0)

\* Both replacements for one triple of the schema.
FixedBy(q0, t) ==
    Once(LAMBDA q : TurnArrows(q, Disjoint(WrongReverse(q, t))),
         Once(LAMBDA q : SwapNodes(q, Disjoint(WrongForward(q, t))), q0))

\* fix_relationship_directions: for each triple of the schema in turn.
Directed(q, schema) == FoldLeft(FixedBy, q, schema)

\* _shortest_schema_path: the triples of a shortest path of at most four hops;
\* the empty path when there is none or the labels are equal.
ShortestPath(from, to, schema) ==
    LET Paths(n) == {p \in [1..n -> ToSet(schema)] :
                        /\ p[1][1] = from /\ p[n][3] = to
                        /\ \A i \in 1..(n - 1) : p[i][3] = p[i + 1][1]}
        lengths == {n \in 1..4 : Paths(n) # {}}
    IN  IF from = to \/ lengths = {} THEN <<>>
        ELSE CHOOSE p \in Paths(Min(lengths)) : TRUE

\* The variable of a label on an inserted hop: the path's own, or a new one.
VarFor(q, label) ==
    LET own == SelectSeq(q.nodes, LAMBDA n : n.label = label)
    IN  IF own # <<>> THEN own[1].var ELSE label

\* _repair_invalid_edges on a path of one hop: it is written again as arrows
\* to the right, from the first node of the text to the target of the arrow.
PathRewritten(q, schema) ==
    LET e == EdgeAt(q, 1)
        Way == IF Triple(e) \in ToSet(schema) THEN <<>>
               ELSE ShortestPath(e[1].label, e[3].label, schema)
        Along(way) ==
            LET hops == IF way = <<>> THEN <<e[2]>> ELSE [i \in DOMAIN way |-> way[i][2]]
                between == [i \in 1..(Len(hops) - 1) |-> [var |-> VarFor(q, way[i][3]), label |-> way[i][3]]]
            IN  [q EXCEPT !.nodes = <<q.nodes[1]>> \o between \o <<e[3]>>,
                          !.hops = Evaluated([i \in DOMAIN hops |-> [rel |-> hops[i], dir |-> "fwd"]])]
    IN  Once(Along, Way)

\* repair_schema_paths: paths of several hops are left alone, and so
\* _repair_hanging_reverse_paths, whose pattern has two hops, finds nothing.
PathRepaired(q, schema) ==
    IF schema # <<>> /\ Len(q.hops) = 1 THEN PathRewritten(q, schema) ELSE q

----------------------------------------------------------------------------
(* Repair of the wording. *)

Without(q, slip) == [q EXCEPT !.slips = @ \ {slip}]

WithoutExtraParen(q) == Without(q, "paren")             \* AS x) AS y
WithoutPatternAlias(q) == Without(q, "pattern_alias")   \* MATCH (:Label) AS r
WithRoundPrecision(q) == Without(q, "round")            \* round(avg(x))
WithoutRegrouping(q) == Without(q, "regroup")           \* RETURN k, avg(rev)
WithAliases(q) == Without(q, "bare_with")               \* WITH n.prop
WithBoundFields(q) == Without(q, "rel_field")           \* a.REL.prop, REL bound

\* The nodes whose clause must require the tenant: all but those with a label
\* of the deployment's own.
NeedFilter(q) == {n.var : n \in {x \in ToSet(q.nodes) : x.label \notin Exempt}}

\* inject_tenant_filters.  A node counts as scoped when its clause names its
\* tenant_id: the code takes any mention for a filter and ANDs its own to the
\* WHERE as it stands.  What a WHERE with OR or a negation then selects is
\* outside the model.
Injected(q) == [q EXCEPT !.scoped = @ \cup NeedFilter(q)]

Worded(q) ==
    WithBoundFields(WithAliases(WithoutRegrouping(WithRoundPrecision(
        WithoutPatternAlias(WithoutExtraParen(q))))))
Repaired(q0, schema) ==
    Once(LAMBDA q : PathRepaired(q, schema), Once(LAMBDA q : Directed(q, schema), Worded(q0)))
Scoped(q0) == IF MultiTenancy THEN Once(Injected, q0) ELSE q0

\* Mutant of Normalized: the filters are injected before the path is repaired,
\* so that the nodes of an inserted hop have none.
NormalizedTooEarly(q, schema) == Repaired(Scoped(q), schema)

\* normalize_generated_cypher
Normalized(q, schema) == Scoped(Repaired(q, schema))

----------------------------------------------------------------------------
(* Checks before a query is run. *)

\* missing_tenant_filter_issue
UnscopedVars(q) == NeedFilter(q) \ q.scoped

\* sql_cypher_issue with _with_missing_alias_issue
SqlIssue(q) ==
    \/ q.idiom
    \/ q.slips \cap {"paren", "bare_with", "rel_field", "loose_field"} # {}
    \/ MultiTenancy /\ UnscopedVars(q) # {}

\* unknown_label_issue; an empty set of labels turns it off.
UnknownLabels(q, labels) ==
    IF labels = {} THEN {} ELSE {n.label : n \in ToSet(q.nodes)} \ (labels \cup {Unlabelled})

\* unknown_property_issue: only for variables whose label the schema knows.
UnknownReads(q, props) ==
    {x \in q.reads : /\ x[1] \in Vars(q)
                     /\ LabelOf(q, x[1]) \in DOMAIN props
                     /\ x[2] \notin props[LabelOf(q, x[1])]}

HasIssue(q, labels, props) ==
    SqlIssue(q) \/ UnknownLabels(q, labels) # {} \/ UnknownReads(q, props) # {}

\* dropped_year_filter_issue: a traversal without the year of the question.
DropsYear(q, year) == year /\ q.hops # <<>> /\ ~q.dated

----------------------------------------------------------------------------
(* What Neo4j does with it: a graph is the labels with their properties and *)
(* the triples that have instances.                                         *)

\* A syntax error, or a variable that the path does not bind.
Fails(q) ==
    \/ q.idiom \/ q.slips \cap {"paren", "pattern_alias", "bare_with", "rel_field", "loose_field"} # {}
    \/ \E x \in q.reads : x[1] \notin Vars(q)

Matches(q, graph) ==
    Agrees(q, graph.schema) /\ \A n \in ToSet(q.nodes) : n.label \in DOMAIN graph.props \cup {Unlabelled}

\* An aggregate is one row whether anything matched or not, zero or null when
\* nothing did or the property does not exist.
RowsOf(q, graph) ==
    LET hit == Matches(q, graph)
    IN  IF q.figure
        THEN IF hit /\ UnknownReads(q, graph.props) = {} THEN {"figure"} ELSE {"zero"}
        ELSE IF hit THEN {"none", "list"} ELSE {"none"}
=============================================================================
