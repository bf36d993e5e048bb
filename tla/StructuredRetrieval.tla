------------------------- MODULE StructuredRetrieval -------------------------
(***************************************************************************)
(* Questions to the business graph: StructuredRetriever with its schema    *)
(* cache, the Text-to-Cypher pipeline, the multistep planner and executor, *)
(* and the confidence of the answer. Requests share one SchemaProvider,    *)
(* which a finished ingestion job clears, and one cache of the role's      *)
(* access. What the model generates is chosen from Generated.              *)
(***************************************************************************)
EXTENDS CypherQuery, TLC

CONSTANTS
    Requests,       \* concurrent questions
    Asked,          \* the questions asked together, as functions from Requests, and
                    \* the version of the graph at the time
    Graphs,         \* the graph at each of its versions, a sequence
    Generated,      \* queries that the model writes
    Plans,          \* plans of the multistep planner, sequences of queries
    NoQuery,        \* no query
    NoQuestion,     \* no question
    None,           \* an empty field of the cache
    MaxAttempts,    \* STRUCTURED_CYPHER_MAX_ATTEMPTS
    SqlRetries,     \* STRUCTURED_CYPHER_SQL_LLM_RETRIES
    EmptyRetries,   \* STRUCTURED_EMPTY_RESULT_LLM_RETRIES, at most the two hints
    StepAttempts,   \* STRUCTURED_MULTISTEP_STEP_ATTEMPTS
    EmptyFallback,  \* STRUCTURED_EMPTY_MULTISTEP_FALLBACK
    VerifyEnabled,  \* STRUCTURED_VERIFY_ENABLED
    MaxFaults       \* bound on exceptions from Neo4j

ASSUME StructuredAssumption ==
    /\ MaxAttempts \in Nat \ {0} /\ SqlRetries \in Nat /\ EmptyRetries \in 0..2
    /\ StepAttempts \in Nat \ {0} /\ EmptyFallback \in BOOLEAN /\ VerifyEnabled \in BOOLEAN
    /\ \A a \in Asked : a.graph \in 1..Len(Graphs)
    /\ NoQuery \notin Generated /\ Plans \subseteq Seq(Generated) /\ \A p \in Plans : Len(p) \in 1..4
    /\ \A q \in Generated : IsQuery(q) /\ q.scoped \subseteq Vars(q)
    /\ Graphs \in Seq(ToSet(Graphs))
    /\ \A g \in ToSet(Graphs) : g.schema \in Seq(ToSet(g.schema))

VARIABLES
    graph,      \* the version of the graph
    cache,      \* SchemaProvider: version read into each field, or None
    access,     \* StructuredRbac: "unknown" until first asked
    req,        \* the requests
    faults,
    overlapped, \* history: an introspection was underway at the last clear
    cleared     \* history: the version of the graph at the last clear

vars == <<graph, cache, access, req, faults, overlapped, cleared>>

Versions == DOMAIN Graphs
Fields == {"text", "labels", "props", "numeric"}
Question == [shape: {"schema", "ambiguous", "nested", "plain"}, year: BOOLEAN, counts: BOOLEAN]

\* Where a request is. "numeric" to "props" read the schema cache.
Reading == {"numeric", "text", "prompt", "labels", "props"}
Places == {"new", "route", "plan", "access", "generate", "precheck", "execute", "directions",
           "direct", "hints", "verify", "prepare", "step", "answer", "ended"} \cup Reading

Fresh == [at |-> "new", question |-> NoQuestion,
          path |-> "query", fetch |-> "no", nodes |-> 0, rels |-> 0,
          text |-> None, labels |-> None, props |-> None,
          first |-> NoQuery, q |-> NoQuery, tries |-> 0, runs |-> 0, regens |-> 0,
          tried |-> NoQuery, hint |-> 0,
          plan |-> <<>>, found |-> FALSE, rows |-> "none", result |-> "none", low |-> FALSE]

Init ==
    /\ cache = [f \in Fields |-> None]
    /\ access = "unknown"
    /\ \E a \in Asked :
        /\ req = [r \in Requests |-> [Fresh EXCEPT !.question = a.questions[r]]]
        /\ graph = a.graph /\ cleared = a.graph
    /\ faults = 0 /\ overlapped = FALSE

At(r, place) == req[r].at = place
To(r, place) == req' = [req EXCEPT ![r].at = place]
Ends(r, result) == req' = [req EXCEPT ![r].at = "answer", ![r].result = result]

Faults == faults < MaxFaults /\ faults' = faults + 1
Unshared == UNCHANGED <<graph, cache, access, overlapped, cleared>>
Local == Unshared /\ UNCHANGED faults

----------------------------------------------------------------------------
(* The schema cache. *)

\* Rows are loaded, or an ingestion job writes nodes of a new type.
GraphChanges ==
    /\ graph < Len(Graphs)
    /\ graph' = graph + 1
    /\ UNCHANGED <<cache, access, req, faults, overlapped, cleared>>

Introspecting == {r \in Requests : req[r].fetch # "no"}

\* Mutant of Emptied: the property sets are not reset.
EmptiedInPart == [cache EXCEPT !["text"] = None, !["labels"] = None, !["numeric"] = None]

\* SchemaProvider.clear_cache
Emptied == [f \in Fields |-> None]

\* A job that ended: IngestionManager._clear_structured_query_caches.
ClearCache ==
    /\ cleared < graph
    /\ cache' = Emptied
    /\ overlapped' = (Introspecting # {})
    /\ cleared' = graph
    /\ UNCHANGED <<graph, access, req, faults>>

\* The field that each place reads, and where the request goes from there.
FieldAt == [numeric |-> "numeric", text |-> "text", prompt |-> "text",
            labels |-> "labels", props |-> "props"]
After(r) ==
    LET single == req[r].path = "query"
    IN  CASE At(r, "numeric") -> "text"
          [] At(r, "text") -> IF req[r].question.shape = "schema" THEN "answer" ELSE "route"
          [] At(r, "prompt") -> IF single THEN "generate" ELSE "labels"
          [] At(r, "labels") -> "props"
          [] At(r, "props") -> IF single THEN "precheck" ELSE "prepare"

\* What a place keeps of the value it read. A question about a number that
\* several properties could be ends in a request for clarification.
Kept(r, value) ==
    IF At(r, "numeric") THEN
        IF req[r].question.shape = "ambiguous" /\ value # None
        THEN [req EXCEPT ![r].at = "answer", ![r].result = "clarification"]
        ELSE [req EXCEPT ![r].at = After(r)]
    ELSE [req EXCEPT ![r].at = After(r), ![r][FieldAt[req[r].at]] = value, ![r].fetch = "no",
                     ![r].result = IF @ = "none" /\ After(r) = "answer" THEN "schema" ELSE @]

\* fetch() does nothing when the text and the labels are there.
Skips == cache["text"] # None /\ cache["labels"] # None

\* A value that is cached; also known_properties() when fetch() skips, which
\* then returns an empty set.
ReadCache(r) ==
    /\ req[r].at \in Reading /\ req[r].fetch = "no"
    /\ IF FieldAt[req[r].at] = "text" THEN Skips ELSE Skips \/ cache[FieldAt[req[r].at]] # None
    /\ req' = Kept(r, cache[FieldAt[req[r].at]])
    /\ Local

\* fetch(): node types first ...
FetchNodes(r) ==
    /\ req[r].at \in Reading /\ req[r].fetch = "no"
    /\ ~Skips /\ (FieldAt[req[r].at] # "text" => cache[FieldAt[req[r].at]] = None)
    /\ req' = [req EXCEPT ![r].fetch = "labels", ![r].nodes = graph]
    /\ Local

\* ... whose labels and numeric properties are stored at once ...
StoreLabels(r) ==
    /\ req[r].fetch = "labels"
    /\ cache' = [cache EXCEPT !["labels"] = req[r].nodes, !["numeric"] = req[r].nodes]
    /\ req' = [req EXCEPT ![r].fetch = "rels"]
    /\ UNCHANGED <<graph, access, faults, overlapped, cleared>>

\* ... then the relationship patterns, the values and the descriptions, in
\* queries of their own ...
FetchPatterns(r) ==
    /\ req[r].fetch = "rels"
    /\ req' = [req EXCEPT ![r].fetch = "props", ![r].rels = graph]
    /\ Local

\* Mutant of FetchFails: the introspection is not given up.
FetchFailsOpen(r) ==
    /\ req[r].fetch \in {"no", "rels"} /\ req[r].at \in Reading
    /\ req[r].fetch = "no" => ~Skips
    /\ Faults
    /\ req' = [req EXCEPT ![r].at = "ended", ![r].result = "failed"]
    /\ Unshared

FetchFails(r) ==
    /\ req[r].fetch \in {"no", "rels"} /\ req[r].at \in Reading
    /\ req[r].fetch = "no" => ~Skips
    /\ Faults
    /\ req' = [req EXCEPT ![r].at = "ended", ![r].fetch = "no", ![r].result = "failed"]
    /\ Unshared

\* ... and the properties and the text last.
StoreProperties(r) ==
    /\ req[r].fetch = "props"
    /\ cache' = [cache EXCEPT !["props"] = req[r].nodes]
    /\ req' = [req EXCEPT ![r].fetch = "text"]
    /\ UNCHANGED <<graph, access, faults, overlapped, cleared>>

\* fetch() returns the text it built; the other readers read their field
\* again, which may have been cleared.
StoreText(r) ==
    /\ req[r].fetch = "text"
    /\ cache' = [cache EXCEPT !["text"] = req[r].rels]
    /\ req' = [Kept(r, IF FieldAt[req[r].at] = "text" THEN req[r].rels
                       ELSE cache[FieldAt[req[r].at]]) EXCEPT ![r].fetch = "no"]
    /\ UNCHANGED <<graph, access, faults, overlapped, cleared>>

\* The schema that a request holds; None reads as empty.
Schema(r) == Graphs[req[r].text].schema
Labels(r) == IF req[r].labels = None THEN {} ELSE DOMAIN Graphs[req[r].labels].props
Props(r) == IF req[r].props = None THEN <<>> ELSE Graphs[req[r].props].props

Norm(r, q0) == Once(LAMBDA q : Normalized(q, Schema(r)), q0)
Issue(r, q) == HasIssue(q, Labels(r), Props(r))

----------------------------------------------------------------------------
(* The way of a question. *)

\* retrieve_node: a question about the schema reads it, every other question
\* starts in needs_clarification.
Ask(r) ==
    /\ At(r, "new")
    /\ req[r].question # NoQuestion
    /\ To(r, IF req[r].question.shape = "schema" THEN "text" ELSE "numeric")
    /\ Local

\* StructuredRetriever.retrieve: the wording asks for a plan, and a hint from
\* feedback, when there is one, decides instead.
Route(r) ==
    /\ At(r, "route")
    /\ \E hint \in {"none", "text2cypher_first", "multistep_first"} :
        LET plan == CASE hint = "none" -> req[r].question.shape = "nested"
                      [] hint = "text2cypher_first" -> FALSE
                      [] hint = "multistep_first" -> TRUE
        IN  req' = [req EXCEPT ![r].at = IF plan THEN "plan" ELSE "access",
                               ![r].path = IF plan THEN "gate" ELSE "query"]
    /\ Local

\* can_query: asked of the graph once for the life of the process.
CheckAccess(r) ==
    /\ At(r, "access")
    /\ \E allowed \in IF access = "unknown" THEN {"yes", "no"} ELSE {access} :
        /\ access' = allowed
        /\ IF allowed = "yes" THEN To(r, "prompt") ELSE Ends(r, "denied")
    /\ UNCHANGED <<graph, cache, faults, overlapped, cleared>>

Replies == Generated \cup {NoQuery}

\* The model writes a query, nothing, or that the data does not exist.
Generate(r) ==
    /\ At(r, "generate")
    /\ \/ \E g \in Generated :
            req' = [req EXCEPT ![r].at = "labels", ![r].first = g, ![r].q = Norm(r, g)]
       \/ Ends(r, "no_such_data")
       \/ req' = [req EXCEPT ![r].at = IF EmptyFallback THEN "plan" ELSE "answer", ![r].path = "fallback"]
    /\ Local

\* One turn of the loop that repairs or regenerates a query with an issue; a
\* reply that is no query, or the same, leaves it as it is.
Precheck(r) ==
    /\ At(r, "precheck")
    /\ LET q == req[r].q
           n == Norm(r, q)
           goOn == [req EXCEPT ![r].at = "execute", ![r].tries = 0, ![r].regens = 0]
       IN  IF ~Issue(r, q) \/ req[r].tries > Max({1, SqlRetries}) THEN req' = goOn
           ELSE IF n # q /\ ~Issue(r, n)
           THEN req' = [req EXCEPT ![r].q = n, ![r].tries = @ + 1]
           ELSE IF req[r].regens >= SqlRetries THEN req' = goOn
           ELSE \E f \in Replies :
                req' = IF f \in {NoQuery, q} THEN goOn
                       ELSE [req EXCEPT ![r].q = Norm(r, f), ![r].tries = @ + 1, ![r].regens = @ + 1]
    /\ Local

----------------------------------------------------------------------------
(* StructuredCypherExecutor.run *)

\* Mutant of MayRegenerate: an off-by-one.
MayRegenerateOnceMore(r) == req[r].regens <= MaxAttempts

MayRegenerate(r) == req[r].regens < MaxAttempts

\* What _regenerate may return: the repaired query when that has no issue.
Regenerated(r) ==
    LET n == Norm(r, req[r].q)
    IN  IF n # req[r].q /\ ~Issue(r, n) THEN {n} ELSE Replies

\* Mutant of Fixes: a regeneration does not count.
FixesUncounted(r, f) ==
    req' = IF f \in {NoQuery, req[r].q} THEN [req EXCEPT ![r].at = "answer", ![r].result = "error"]
           ELSE [req EXCEPT ![r].q = f]

Fixes(r, f) ==
    req' = IF f \in {NoQuery, req[r].q}
           THEN [req EXCEPT ![r].regens = @ + 1, ![r].at = "answer", ![r].result = "error"]
           ELSE [req EXCEPT ![r].regens = @ + 1, ![r].q = f]

\* A query with an issue is not run.
ExecutorRefuses(r) ==
    /\ At(r, "execute") /\ Issue(r, req[r].q)
    /\ LET n == Norm(r, req[r].q)
       IN  IF n # req[r].q /\ ~Issue(r, n) THEN req' = [req EXCEPT ![r].q = n]
           ELSE IF ~MayRegenerate(r) THEN Ends(r, "error")
           ELSE \E f \in Regenerated(r) : Fixes(r, f)
    /\ Local

Spent(r) == req[r].runs >= MaxAttempts

Attempted(r) == [req EXCEPT ![r].runs = @ + 1, ![r].first = NoQuery]

ExecutorRuns(r) ==
    /\ At(r, "execute") /\ ~Issue(r, req[r].q)
    /\ ~Fails(req[r].q)
    /\ \E rows \in RowsOf(req[r].q, Graphs[graph]) :
        req' = [Attempted(r) EXCEPT ![r].at = "directions", ![r].rows = rows, ![r].runs = 0, ![r].regens = 0]
    /\ Local

\* The last execution is the grace execution, after which nothing is
\* generated any more.
ExecutorFails(r) ==
    /\ At(r, "execute") /\ ~Issue(r, req[r].q)
    /\ IF Fails(req[r].q) THEN UNCHANGED faults ELSE Faults
    /\ LET n == Norm(r, req[r].q)
           failed == [Attempted(r) EXCEPT ![r].at = "answer", ![r].result = "error"]
       IN  IF Spent(r) THEN req' = failed
           ELSE IF n # req[r].q THEN req' = [Attempted(r) EXCEPT ![r].q = n]
           ELSE IF ~MayRegenerate(r) THEN req' = failed
           ELSE \E f \in Regenerated(r) :
                req' = [(IF f \in {NoQuery, req[r].q} THEN failed ELSE [Attempted(r) EXCEPT ![r].q = f])
                        EXCEPT ![r].regens = @ + 1]
    /\ Unshared

----------------------------------------------------------------------------
(* After the executor: no rows are tried again. *)

Tries(r, q) == [req EXCEPT ![r].at = "direct", ![r].tried = q, ![r].tries = 0]

\* The directions of the arrows alone.
FixDirections(r) ==
    /\ At(r, "directions")
    /\ LET corrected == Directed(req[r].q, Schema(r))
       IN  req' = IF req[r].rows = "none" /\ corrected # req[r].q
                  THEN Tries(r, corrected) ELSE [req EXCEPT ![r].at = "hints"]
    /\ Local

\* The next of EMPTY_RESULT_HINTS, with the fallback model.
Hint(r) ==
    /\ At(r, "hints")
    /\ IF req[r].rows # "none" \/ req[r].hint >= EmptyRetries THEN To(r, "verify")
       ELSE \E f \in Replies :
            req' = IF f \in {NoQuery, req[r].q} THEN [req EXCEPT ![r].hint = @ + 1]
                   ELSE [Tries(r, Norm(r, f)) EXCEPT ![r].hint = @ + 1]
    /\ Local

\* _execute_cypher_rows: no check, two attempts. What it tried becomes the
\* query of the answer when it returned rows, and after a hint also when it
\* returned none.
DirectRuns(r) ==
    /\ At(r, "direct") /\ ~Fails(req[r].tried)
    /\ \E rows \in RowsOf(req[r].tried, Graphs[graph]) :
        req' = [req EXCEPT ![r].at = "hints", ![r].rows = rows,
                           ![r].q = IF rows # "none" \/ req[r].hint > 0 THEN req[r].tried ELSE @,
                           ![r].tried = NoQuery, ![r].tries = 0]
    /\ Local

DirectFails(r) ==
    /\ At(r, "direct")
    /\ IF Fails(req[r].tried) THEN UNCHANGED faults ELSE Faults
    /\ LET q == req[r].tried
           n == Norm(r, q)
           gone == [req EXCEPT ![r].at = "hints", ![r].tried = NoQuery, ![r].tries = 0]
           again(x) == [req EXCEPT ![r].tried = x, ![r].tries = 1]
       IN  IF req[r].tries = 1 THEN req' = gone
           ELSE IF n # q THEN req' = again(n)
           ELSE \E f \in Replies : req' = IF f \in {NoQuery, q} THEN gone ELSE again(Norm(r, f))
    /\ Unshared

\* _substitution_check: a single number may measure something else.
Verify(r) ==
    /\ At(r, "verify")
    /\ \/ IF req[r].rows = "none"
          THEN req' = [req EXCEPT ![r].at = IF EmptyFallback THEN "plan" ELSE "answer", ![r].path = "fallback"]
          ELSE Ends(r, "rows")
       \/ req[r].rows \in {"zero", "figure"} /\ Ends(r, "no_such_data")
    /\ Local

----------------------------------------------------------------------------
(* The multistep plan. *)

\* MultiStepPlanner.plan; without one the gate goes on to a single query and
\* the fallback gives the empty answer.
Plan(r) ==
    /\ At(r, "plan")
    /\ \/ \E p \in Plans : req' = [req EXCEPT ![r].at = "access", ![r].plan = p]
       \/ IF req[r].path = "gate" THEN req' = [req EXCEPT ![r].at = "access", ![r].path = "query"]
          ELSE To(r, "answer")
    /\ Local

\* A step is repaired, regenerated once when it has an issue and once when it
\* drops the year; what comes of that is not checked again.
PrepareStep(r) ==
    /\ At(r, "prepare")
    /\ LET q == Norm(r, Head(req[r].plan))
           n == Norm(r, q)
           Written(x, replies) == {Norm(r, f) : f \in replies \ {NoQuery}} \cup {x}
           checked == IF ~Issue(r, q) THEN {q}
                      ELSE IF n # q /\ ~Issue(r, n) THEN {n} ELSE Written(n, Replies)
       IN  \E c \in checked :
           \E d \in IF DropsYear(c, req[r].question.year) THEN Written(c, Replies) ELSE {c} :
               req' = [req EXCEPT ![r].at = "step", ![r].q = d, ![r].tries = 0]
    /\ Local

\* A parameter that no earlier step gave a value to is an error of Neo4j.
StepFails(r) == Fails(req[r].q) \/ (req[r].q.takes /\ ~req[r].found)

StepRuns(r) ==
    /\ At(r, "step") /\ ~StepFails(r)
    /\ \E rows \in RowsOf(req[r].q, Graphs[graph]) :
        req' = [req EXCEPT ![r].plan = Tail(@), ![r].found = @ \/ rows # "none", ![r].rows = rows,
                           ![r].at = IF Len(req[r].plan) = 1 THEN "answer" ELSE "prepare",
                           ![r].result = IF Len(req[r].plan) = 1 THEN "rows" ELSE @]
    /\ Local

StepRetries(r) ==
    /\ At(r, "step")
    /\ IF StepFails(r) THEN UNCHANGED faults ELSE Faults
    /\ LET q == req[r].q
           n == Norm(r, q)
           gaveUp == [req EXCEPT ![r].at = "answer", ![r].result = "step_error"]
           again(x) == IF req[r].tries + 1 >= StepAttempts THEN gaveUp
                       ELSE [req EXCEPT ![r].q = x, ![r].tries = @ + 1]
       IN  IF n # q THEN req' = again(n)
           ELSE \E f \in Replies :
                req' = IF f \in {NoQuery, q} THEN gaveUp ELSE again(Norm(r, f))
    /\ Unshared

----------------------------------------------------------------------------
(* The answer. *)

\* check_answer_sanity and compute_confidence: a blank aggregate, and a plan
\* whose last step found nothing, unless the question asks for a count.
Doubtful(r) ==
    ~req[r].question.counts
    /\ (req[r].rows = "zero" \/ (req[r].path # "query" /\ req[r].rows = "none"))

\* generate_node
Answer(r) ==
    /\ At(r, "answer")
    /\ \E verdict \in IF VerifyEnabled /\ ~Doubtful(r) THEN BOOLEAN ELSE {FALSE} :
        req' = [req EXCEPT ![r] = [Fresh EXCEPT
                    !.at = "ended", !.question = req[r].question, !.result = req[r].result,
                    !.low = CASE req[r].result \in {"clarification", "schema"} -> FALSE
                             [] req[r].result = "none" -> ~req[r].question.counts
                             [] req[r].result \in {"denied", "error"} -> TRUE
                             [] OTHER -> Doubtful(r) \/ verdict]]
    /\ Local

RunQuery(r) ==
    \/ Generate(r) \/ Precheck(r) \/ ExecutorRefuses(r) \/ ExecutorRuns(r)
    \/ ExecutorFails(r) \/ FixDirections(r) \/ Hint(r) \/ DirectRuns(r) \/ DirectFails(r) \/ Verify(r)
RunPlan(r) == Plan(r) \/ PrepareStep(r) \/ StepRuns(r) \/ StepRetries(r)
ReadSchema(r) ==
    \/ ReadCache(r) \/ FetchNodes(r) \/ StoreLabels(r) \/ FetchPatterns(r) \/ FetchFails(r)
    \/ StoreProperties(r) \/ StoreText(r)

Step(r) == Ask(r) \/ Route(r) \/ CheckAccess(r) \/ ReadSchema(r) \/ RunQuery(r) \/ RunPlan(r) \/ Answer(r)

Next == GraphChanges \/ ClearCache \/ \E r \in Requests : Step(r)

Spec == Init /\ [][Next]_vars

\* Every call returns or raises, and the code loops until it has an answer.
FairSpec == Spec /\ \A r \in Requests : WF_vars(Step(r))

----------------------------------------------------------------------------
(* Properties. *)

\* Types; an introspection is underway only in the places that read the schema,
\* and a query is there before its labels are.
StructuredTypeOK ==
    /\ graph \in Versions /\ cleared \in 1..graph
    /\ \A f \in Fields : cache[f] \in Versions \cup {None}
    /\ access \in {"unknown", "yes", "no"}
    /\ \A r \in Requests :
        /\ req[r].at \in Places /\ req[r].question \in Question \cup {NoQuestion}
        /\ req[r].fetch \in {"no", "labels", "rels", "props", "text"}
        /\ req[r].path \in {"query", "gate", "fallback"}
        /\ req[r].fetch # "no" => req[r].at \in Reading
        /\ req[r].at = "labels" /\ req[r].path = "query" => req[r].q # NoQuery

\* The query that the next step of a request runs.
Runs(r, q) ==
    \/ At(r, "execute") /\ q = req[r].q /\ ~Issue(r, q)
    \/ At(r, "direct") /\ q = req[r].tried
    \/ At(r, "step") /\ q = req[r].q

\* Every query that reaches the graph names the tenant on every node of the
\* clause that needs it, whichever of the six places ran it: the executor, its
\* retries, the direction fix, the hints, and the steps of a plan, which are
\* not checked again after a repair.
ExecutedQueriesAreScoped ==
    \A r \in Requests : \A q \in {req[r].q, req[r].tried} :
        MultiTenancy /\ Runs(r, q) => UnscopedVars(q) = {}

\* The executor runs at most one query more than its budget, the grace
\* execution, and asks for at most its budget of new queries.
ExecutorWithinBudget ==
    \A r \in Requests : req[r].runs <= MaxAttempts + 1 /\ req[r].regens <= Max({MaxAttempts, SqlRetries})

RightAsWritten(r) ==
    /\ req[r].first # NoQuery /\ req[r].first.slips = {}
    /\ Agrees(req[r].first, Schema(r)) /\ ~Issue(r, Injected(req[r].first))

EntersExecutor(r) == At(r, "execute") /\ req[r].runs = 0 /\ req[r].regens = 0

\* A generated query whose arrows all point to the right along the schema,
\* between different labels, and that no check objects to, is run as it was
\* written but for the tenant filters: the chain of repairs leaves it alone.
ForwardQueriesRunAsWritten ==
    \A r \in Requests :
        /\ EntersExecutor(r) /\ RightAsWritten(r)
        /\ \A i \in DOMAIN req[r].first.hops :
            /\ req[r].first.hops[i].dir = "fwd"
            /\ req[r].first.nodes[i].label # req[r].first.nodes[i + 1].label
        => req[r].q = Injected(req[r].first)

\* What fix_relationship_directions says of itself, "(:A)-[:R]->(:B) allows
\* (a:A)-[:R]->(b:B) or (b:B)<-[:R]-(a:A). Only flip explicit wrong
\* traversals": the same of every query that agrees with the schema.
AllowedQueriesRunAsWritten ==
    \A r \in Requests :
        EntersExecutor(r) /\ RightAsWritten(r) => req[r].q = Injected(req[r].first)

\* After a job cleared the cache with no introspection underway, no field
\* still holds what was read before: the labels that queries are checked
\* against, the properties, the numeric properties and the prompt's text.
CacheForgetsOldGraph ==
    ~overlapped => \A f \in Fields : cache[f] # None => cache[f] >= cleared

\* Every question is answered or fails: the loops of the pre-check, the
\* executor, the hints and the steps end whatever the model writes, although
\* a repair may undo what another repair did.
StructuredQuestionsEnd ==
    \A r \in Requests : req[r].question # NoQuestion ~> At(r, "ended")

=============================================================================
