--------------------- MODULE StructuredRetrieval_proofs ---------------------
(***************************************************************************)
(* Proofs about StructuredRetrieval: the schema cache that concurrent      *)
(* questions share, and the tenant filters of the queries they run, for    *)
(* every set of requests, graph and generated query, and every setting of  *)
(* the budgets. A fold over the schema is reasoned about as a function on  *)
(* the sets of its places, by induction over a set of numbers.             *)
(***************************************************************************)
EXTENDS StructuredRetrieval, WellFoundedInduction, TLAPS

FieldsOfRequest ==
    {"at", "question", "path", "fetch", "nodes", "rels", "text", "labels", "props", "first", "q",
     "tries", "runs", "regens", "tried", "hint", "plan", "found", "rows", "result", "low"}

\* Requests are records.
Shaped ==
    /\ req = [r \in Requests |-> req[r]]
    /\ \A r \in Requests : DOMAIN req[r] = FieldsOfRequest

\* Nothing that is cached was read before the version v.
CachedSince(v) == \A f \in Fields : cache[f] # None => cache[f] >= v

\* What an introspection has read, and will store, was read since then too.
ReadSince(r, v) ==
    /\ req[r].fetch \in {"labels", "rels", "props", "text"} => req[r].nodes >= v
    /\ req[r].fetch \in {"props", "text"} => req[r].rels >= v

CacheInvariant ==
    /\ graph \in Nat /\ cleared \in Nat /\ cleared <= graph
    /\ cache = [f \in Fields |-> cache[f]]
    /\ Shaped
    /\ \A r \in Requests : req[r].fetch \in {"no", "labels", "rels", "props", "text"}
    /\ ~overlapped => CachedSince(cleared) /\ \A r \in Requests : ReadSince(r, cleared)

----------------------------------------------------------------------------
(* Steps that leave the cache alone. *)

\* The request r goes on, and its introspection as it was, or it has none.
GoesOn(r) ==
    /\ req' = [q \in Requests |-> IF q = r THEN req'[r] ELSE req[q]]
    /\ DOMAIN req'[r] = FieldsOfRequest
    /\ \/ req'[r].fetch = "no"
       \/ /\ req'[r].fetch = req[r].fetch
          /\ req'[r].nodes = req[r].nodes /\ req'[r].rels = req[r].rels

\* It takes no part in what the cache holds.
LEMMA GoingOn ==
  ASSUME CacheInvariant, NEW r \in Requests, GoesOn(r), UNCHANGED <<graph, cache, overlapped, cleared>>
  PROVE  CacheInvariant'
PROOF
  <1>1. Shaped'
    BY DEF CacheInvariant, Shaped, GoesOn
  <1>2. \A q \in Requests : req'[q].fetch \in {"no", "labels", "rels", "props", "text"}
    BY DEF CacheInvariant, GoesOn
  <1>3. ASSUME NEW q \in Requests, ReadSince(q, cleared) PROVE ReadSince(q, cleared)'
    BY <1>3 DEF ReadSince, GoesOn
  <1>4. CachedSince(cleared) => CachedSince(cleared)'
    BY DEF CachedSince
  <1> QED BY <1>1, <1>2, <1>3, <1>4 DEF CacheInvariant

\* The way to a query.
LEMMA WayGoesOn ==
  ASSUME Shaped, NEW r \in Requests, Ask(r) \/ Route(r) \/ CheckAccess(r) \/ Generate(r) \/ Precheck(r)
  PROVE  GoesOn(r)
PROOF
  <1>1. DOMAIN req[r] = FieldsOfRequest /\ req = [q \in Requests |-> req[q]]
    BY DEF Shaped
  <1>2. CASE Ask(r)
    BY <1>1, <1>2 DEF Ask, To, GoesOn, FieldsOfRequest
  <1>3. CASE Route(r)
    <2>1. PICK at, path : req' = [req EXCEPT ![r].at = at, ![r].path = path]
      BY <1>3 DEF Route
    <2> QED BY <1>1, <2>1 DEF GoesOn, FieldsOfRequest
  <1>4. CASE CheckAccess(r)
    BY <1>1, <1>4 DEF CheckAccess, To, Ends, GoesOn, FieldsOfRequest
  <1>5. CASE Generate(r)
    <2>1. CASE \E g \in Generated :
                 req' = [req EXCEPT ![r].at = "labels", ![r].first = g, ![r].q = Norm(r, g)]
      BY <1>1, <2>1 DEF GoesOn, FieldsOfRequest
    <2>2. CASE Ends(r, "no_such_data")
      BY <1>1, <2>2 DEF Ends, GoesOn, FieldsOfRequest
    <2>3. CASE req' = [req EXCEPT ![r].at = IF EmptyFallback THEN "plan" ELSE "answer", ![r].path = "fallback"]
      BY <1>1, <2>3 DEF GoesOn, FieldsOfRequest
    <2> QED BY <1>5, <2>1, <2>2, <2>3 DEF Generate
  <1>6. CASE Precheck(r)
    <2>1. CASE req' = [req EXCEPT ![r].at = "execute", ![r].tries = 0, ![r].regens = 0]
      BY <1>1, <2>1 DEF GoesOn, FieldsOfRequest
    <2>2. CASE req' = [req EXCEPT ![r].q = Norm(r, req[r].q), ![r].tries = @ + 1]
      BY <1>1, <2>2 DEF GoesOn, FieldsOfRequest
    <2>3. CASE \E f \in Replies : req' = [req EXCEPT ![r].q = Norm(r, f), ![r].tries = @ + 1, ![r].regens = @ + 1]
      BY <1>1, <2>3 DEF GoesOn, FieldsOfRequest
    <2> QED BY <1>6, <2>1, <2>2, <2>3 DEF Precheck
  <1> QED BY <1>2, <1>3, <1>4, <1>5, <1>6

\* The executor.
LEMMA ExecutorGoesOn ==
  ASSUME Shaped, NEW r \in Requests, ExecutorRefuses(r) \/ ExecutorRuns(r) \/ ExecutorFails(r)
  PROVE  GoesOn(r)
PROOF
  <1>1. DOMAIN req[r] = FieldsOfRequest /\ req = [q \in Requests |-> req[q]]
    BY DEF Shaped
  <1> DEFINE ran == [req EXCEPT ![r].runs = @ + 1, ![r].first = NoQuery]
             failed == [ran EXCEPT ![r].at = "answer", ![r].result = "error"]
  <1>2. CASE ExecutorRefuses(r)
    <2>1. CASE req' = [req EXCEPT ![r].q = Norm(r, req[r].q)]
      BY <1>1, <2>1 DEF GoesOn, FieldsOfRequest
    <2>2. CASE Ends(r, "error")
      BY <1>1, <2>2 DEF Ends, GoesOn, FieldsOfRequest
    <2>3. CASE \E f \in Regenerated(r) : Fixes(r, f)
      <3>1. PICK f \in Regenerated(r) : Fixes(r, f)
        BY <2>3
      <3>2. CASE req' = [req EXCEPT ![r].regens = @ + 1, ![r].at = "answer", ![r].result = "error"]
        BY <1>1, <3>2 DEF GoesOn, FieldsOfRequest
      <3>3. CASE req' = [req EXCEPT ![r].regens = @ + 1, ![r].q = f]
        BY <1>1, <3>3 DEF GoesOn, FieldsOfRequest
      <3> QED BY <3>1, <3>2, <3>3 DEF Fixes
    <2> QED BY <1>2, <2>1, <2>2, <2>3 DEF ExecutorRefuses
  <1>3. CASE ExecutorRuns(r)
    <2>1. PICK rows : req' = [ran EXCEPT ![r].at = "directions", ![r].rows = rows, ![r].runs = 0, ![r].regens = 0]
      BY <1>3 DEF ExecutorRuns, Attempted
    <2> QED BY <1>1, <2>1 DEF GoesOn, FieldsOfRequest
  <1>4. CASE ExecutorFails(r)
    <2>1. CASE req' = failed
      BY <1>1, <2>1 DEF GoesOn, FieldsOfRequest
    <2>2. CASE \E n : req' = [ran EXCEPT ![r].q = n]
      BY <1>1, <2>2 DEF GoesOn, FieldsOfRequest
    <2>3. CASE req' = [failed EXCEPT ![r].regens = @ + 1]
      BY <1>1, <2>3 DEF GoesOn, FieldsOfRequest
    <2>4. CASE \E f : req' = [[ran EXCEPT ![r].q = f] EXCEPT ![r].regens = @ + 1]
      BY <1>1, <2>4 DEF GoesOn, FieldsOfRequest
    <2> QED BY <1>4, <2>1, <2>2, <2>3, <2>4 DEF ExecutorFails, Attempted
  <1> QED BY <1>2, <1>3, <1>4

\* What is tried when a query returned no rows.
LEMMA RetryGoesOn ==
  ASSUME Shaped, NEW r \in Requests,
         FixDirections(r) \/ Hint(r) \/ DirectRuns(r) \/ DirectFails(r) \/ Verify(r)
  PROVE  GoesOn(r)
PROOF
  <1>1. DOMAIN req[r] = FieldsOfRequest /\ req = [q \in Requests |-> req[q]]
    BY DEF Shaped
  <1>2. ASSUME NEW q, req' = Tries(r, q) PROVE GoesOn(r)
    BY <1>1, <1>2 DEF Tries, GoesOn, FieldsOfRequest
  <1>3. CASE FixDirections(r)
    <2>1. CASE req' = [req EXCEPT ![r].at = "hints"]
      BY <1>1, <2>1 DEF GoesOn, FieldsOfRequest
    <2> QED BY <1>2, <1>3, <2>1 DEF FixDirections
  <1>4. CASE Hint(r)
    <2>1. CASE To(r, "verify")
      BY <1>1, <2>1 DEF To, GoesOn, FieldsOfRequest
    <2>2. CASE req' = [req EXCEPT ![r].hint = @ + 1]
      BY <1>1, <2>2 DEF GoesOn, FieldsOfRequest
    <2>3. CASE \E q : req' = [Tries(r, q) EXCEPT ![r].hint = @ + 1]
      BY <1>1, <2>3 DEF Tries, GoesOn, FieldsOfRequest
    <2> QED BY <1>4, <2>1, <2>2, <2>3 DEF Hint
  <1>5. CASE DirectRuns(r)
    <2>1. PICK rows : req' = [req EXCEPT ![r].at = "hints", ![r].rows = rows,
                                ![r].q = IF rows # "none" \/ req[r].hint > 0 THEN req[r].tried ELSE @,
                                ![r].tried = NoQuery, ![r].tries = 0]
      BY <1>5 DEF DirectRuns
    <2> QED BY <1>1, <2>1 DEF GoesOn, FieldsOfRequest
  <1>6. CASE DirectFails(r)
    <2>1. CASE req' = [req EXCEPT ![r].at = "hints", ![r].tried = NoQuery, ![r].tries = 0]
      BY <1>1, <2>1 DEF GoesOn, FieldsOfRequest
    <2>2. CASE \E q : req' = [req EXCEPT ![r].tried = q, ![r].tries = 1]
      BY <1>1, <2>2 DEF GoesOn, FieldsOfRequest
    <2> QED BY <1>6, <2>1, <2>2 DEF DirectFails
  <1>7. CASE Verify(r)
    <2>1. CASE Ends(r, "rows") \/ Ends(r, "no_such_data")
      BY <1>1, <2>1 DEF Ends, GoesOn, FieldsOfRequest
    <2>2. CASE req' = [req EXCEPT ![r].at = IF EmptyFallback THEN "plan" ELSE "answer", ![r].path = "fallback"]
      BY <1>1, <2>2 DEF GoesOn, FieldsOfRequest
    <2> QED BY <1>7, <2>1, <2>2 DEF Verify
  <1> QED BY <1>3, <1>4, <1>5, <1>6, <1>7

\* Plans, and the answer.
LEMMA PlanGoesOn ==
  ASSUME Shaped, NEW r \in Requests, RunPlan(r) \/ Answer(r)
  PROVE  GoesOn(r)
PROOF
  <1>1. DOMAIN req[r] = FieldsOfRequest /\ req = [q \in Requests |-> req[q]]
    BY DEF Shaped
  <1>2. CASE Plan(r)
    <2>1. CASE \E p \in Plans : req' = [req EXCEPT ![r].at = "access", ![r].plan = p]
      BY <1>1, <2>1 DEF GoesOn, FieldsOfRequest
    <2>2. CASE req' = [req EXCEPT ![r].at = "access", ![r].path = "query"] \/ To(r, "answer")
      BY <1>1, <2>2 DEF To, GoesOn, FieldsOfRequest
    <2> QED BY <1>2, <2>1, <2>2 DEF Plan
  <1>3. CASE PrepareStep(r)
    <2>1. PICK d : req' = [req EXCEPT ![r].at = "step", ![r].q = d, ![r].tries = 0]
      BY <1>3 DEF PrepareStep
    <2> QED BY <1>1, <2>1 DEF GoesOn, FieldsOfRequest
  <1>4. CASE StepRuns(r)
    <2>1. PICK rows : req' = [req EXCEPT ![r].plan = Tail(@), ![r].found = @ \/ rows # "none", ![r].rows = rows,
                                ![r].at = IF Len(req[r].plan) = 1 THEN "answer" ELSE "prepare",
                                ![r].result = IF Len(req[r].plan) = 1 THEN "rows" ELSE @]
      BY <1>4 DEF StepRuns
    <2> QED BY <1>1, <2>1 DEF GoesOn, FieldsOfRequest
  <1>5. CASE StepRetries(r)
    <2>1. CASE req' = [req EXCEPT ![r].at = "answer", ![r].result = "step_error"]
      BY <1>1, <2>1 DEF GoesOn, FieldsOfRequest
    <2>2. CASE \E x : req' = [req EXCEPT ![r].q = x, ![r].tries = @ + 1]
      BY <1>1, <2>2 DEF GoesOn, FieldsOfRequest
    <2> QED BY <1>5, <2>1, <2>2 DEF StepRetries
  <1>6. CASE Answer(r)
    <2> DEFINE low(verdict) == CASE req[r].result \in {"clarification", "schema"} -> FALSE
                                 [] req[r].result = "none" -> ~req[r].question.counts
                                 [] req[r].result \in {"denied", "error"} -> TRUE
                                 [] OTHER -> Doubtful(r) \/ verdict
               ended(verdict) == [Fresh EXCEPT !.at = "ended", !.question = req[r].question,
                                               !.result = req[r].result, !.low = low(verdict)]
    <2>1. PICK verdict \in BOOLEAN : req' = [req EXCEPT ![r] = ended(verdict)]
      BY <1>6, Zenon DEF Answer
    <2> HIDE DEF low
    <2>2. DOMAIN Fresh = FieldsOfRequest /\ Fresh.fetch = "no"
      BY DEF Fresh, FieldsOfRequest
    <2>3. DOMAIN ended(verdict) = FieldsOfRequest /\ ended(verdict).fetch = "no"
      BY <2>2 DEF FieldsOfRequest
    <2> QED BY <1>1, <2>1, <2>3 DEF GoesOn
  <1> QED BY <1>2, <1>3, <1>4, <1>5, <1>6 DEF RunPlan

----------------------------------------------------------------------------
(* Steps of the cache. *)

\* A question that has what it reads goes on.
LEMMA KeptGoesOn ==
  ASSUME Shaped, NEW r \in Requests, NEW value, req' = Kept(r, value), req[r].fetch = "no",
         req[r].at \in Reading
  PROVE  GoesOn(r)
PROOF
  <1>1. DOMAIN req[r] = FieldsOfRequest /\ req = [q \in Requests |-> req[q]]
    BY DEF Shaped
  <1>2. CASE At(r, "numeric")
    <2>1. \/ \E at, result : req' = [req EXCEPT ![r].at = at, ![r].result = result]
          \/ \E at : req' = [req EXCEPT ![r].at = at]
      BY <1>2 DEF Kept
    <2> QED BY <1>1, <2>1, ZenonT(60) DEF GoesOn, FieldsOfRequest
  <1>3. CASE ~At(r, "numeric")
    <2> DEFINE field == FieldAt[req[r].at]
    <2>1. field \in {"text", "labels", "props"}
      BY <1>3 DEF FieldAt, At, Reading
    <2>2. req' = [req EXCEPT ![r].at = After(r), ![r][field] = value, ![r].fetch = "no",
                             ![r].result = IF @ = "none" /\ After(r) = "answer" THEN "schema" ELSE @]
      BY <1>3 DEF Kept
    <2> HIDE DEF field
    <2> QED BY <1>1, <2>1, <2>2 DEF GoesOn, FieldsOfRequest
  <1> QED BY <1>2, <1>3

\* fetch() reads at the version of the moment, which is no older than the
\* last clear, and stores only what it has read.
LEMMA IntrospectionStep ==
  ASSUME CacheInvariant, NEW r \in Requests,
         FetchNodes(r) \/ StoreLabels(r) \/ FetchPatterns(r) \/ StoreProperties(r)
  PROVE  CacheInvariant'
PROOF
  <1>1. /\ DOMAIN req[r] = FieldsOfRequest /\ req = [q \in Requests |-> req[q]]
        /\ graph \in Nat /\ cleared \in Nat /\ graph >= cleared
        /\ cache = [f \in Fields |-> cache[f]]
    BY DEF CacheInvariant, Shaped
  <1>2. UNCHANGED <<graph, overlapped, cleared>>
    BY DEF FetchNodes, StoreLabels, FetchPatterns, StoreProperties, Local, Unshared
  <1>3. /\ req' = [q \in Requests |-> IF q = r THEN req'[r] ELSE req[q]]
        /\ DOMAIN req'[r] = FieldsOfRequest
        /\ req'[r].fetch \in {"labels", "rels", "props", "text"}
    BY <1>1 DEF FetchNodes, StoreLabels, FetchPatterns, StoreProperties, FieldsOfRequest
  <1>4. Shaped' /\ \A q \in Requests : req'[q].fetch \in {"no", "labels", "rels", "props", "text"}
    BY <1>1, <1>3 DEF CacheInvariant, Shaped
  <1>5. cache' = [f \in Fields |-> cache'[f]]
    BY <1>1 DEF FetchNodes, StoreLabels, FetchPatterns, StoreProperties, Local, Unshared, Fields
  <1>6. ASSUME ReadSince(r, cleared) PROVE ReadSince(r, cleared)'
    <2>1. CASE FetchNodes(r)
      <3>1. req'[r].fetch = "labels" /\ req'[r].nodes = graph
        BY <1>1, <2>1 DEF FetchNodes, FieldsOfRequest
      <3> QED BY <1>1, <1>2, <3>1 DEF ReadSince
    <2>2. CASE StoreLabels(r)
      <3>1. req[r].fetch = "labels" /\ req'[r].fetch = "rels" /\ req'[r].nodes = req[r].nodes
        BY <1>1, <2>2 DEF StoreLabels, FieldsOfRequest
      <3> QED BY <1>2, <1>6, <3>1 DEF ReadSince
    <2>3. CASE FetchPatterns(r)
      <3>1. /\ req[r].fetch = "rels" /\ req'[r].fetch = "props"
            /\ req'[r].nodes = req[r].nodes /\ req'[r].rels = graph
        BY <1>1, <2>3 DEF FetchPatterns, FieldsOfRequest
      <3> QED BY <1>1, <1>2, <1>6, <3>1 DEF ReadSince
    <2>4. CASE StoreProperties(r)
      <3>1. /\ req[r].fetch = "props" /\ req'[r].fetch = "text"
            /\ req'[r].nodes = req[r].nodes /\ req'[r].rels = req[r].rels
        BY <1>1, <2>4 DEF StoreProperties, FieldsOfRequest
      <3> QED BY <1>2, <1>6, <3>1 DEF ReadSince
    <2> QED BY <2>1, <2>2, <2>3, <2>4
  <1>7. ASSUME ReadSince(r, cleared), CachedSince(cleared) PROVE CachedSince(cleared)'
    <2>1. CASE FetchNodes(r) \/ FetchPatterns(r)
      BY <1>2, <1>7, <2>1 DEF FetchNodes, FetchPatterns, Local, Unshared, CachedSince
    <2>2. CASE StoreLabels(r) \/ StoreProperties(r)
      BY <1>1, <1>2, <1>7, <2>2 DEF StoreLabels, StoreProperties, ReadSince, CachedSince, Fields
    <2> QED BY <2>1, <2>2
  <1>8. ASSUME NEW q \in Requests, q # r, ReadSince(q, cleared) PROVE ReadSince(q, cleared)'
    BY <1>2, <1>3, <1>8 DEF ReadSince
  <1> QED BY <1>1, <1>2, <1>4, <1>5, <1>6, <1>7, <1>8 DEF CacheInvariant

\* The text is the last field that fetch() stores.
LEMMA StoreTextStep ==
  ASSUME CacheInvariant, NEW r \in Requests, StoreText(r)
  PROVE  CacheInvariant'
PROOF
  <1> DEFINE value == IF FieldAt[req[r].at] = "text" THEN req[r].rels ELSE cache[FieldAt[req[r].at]]
             kept == Kept(r, value)
  <1>1. /\ DOMAIN req[r] = FieldsOfRequest /\ req = [q \in Requests |-> req[q]]
        /\ cache = [f \in Fields |-> cache[f]]
    BY DEF CacheInvariant, Shaped
  <1>2. /\ req[r].fetch = "text" /\ UNCHANGED <<graph, overlapped, cleared>>
        /\ cache' = [cache EXCEPT !["text"] = req[r].rels]
        /\ req' = [kept EXCEPT ![r].fetch = "no"]
    BY DEF StoreText
  <1>3. kept = [q \in Requests |-> IF q = r THEN kept[r] ELSE req[q]] /\ DOMAIN kept[r] = FieldsOfRequest
    <2> HIDE DEF value
    <2>1. CASE At(r, "numeric")
      <3>1. \/ kept = [req EXCEPT ![r].at = "answer", ![r].result = "clarification"]
            \/ kept = [req EXCEPT ![r].at = After(r)]
        BY <2>1 DEF Kept
      <3> QED BY <1>1, <3>1 DEF FieldsOfRequest
    <2>2. CASE ~At(r, "numeric")
      <3> DEFINE field == FieldAt[req[r].at]
      <3>1. kept = [req EXCEPT ![r].at = After(r), ![r][field] = value, ![r].fetch = "no",
                               ![r].result = IF @ = "none" /\ After(r) = "answer" THEN "schema" ELSE @]
        BY <2>2 DEF Kept
      <3> HIDE DEF field, kept
      <3> QED BY <1>1, <3>1 DEF FieldsOfRequest
    <2> QED BY <2>1, <2>2
  <1> HIDE DEF kept, value
  <1>4. /\ req' = [q \in Requests |-> IF q = r THEN req'[r] ELSE req[q]]
        /\ DOMAIN req'[r] = FieldsOfRequest /\ req'[r].fetch = "no"
    BY <1>2, <1>3 DEF FieldsOfRequest
  <1>5. Shaped' /\ \A q \in Requests : req'[q].fetch \in {"no", "labels", "rels", "props", "text"}
    BY <1>4 DEF CacheInvariant, Shaped
  <1>6. cache' = [f \in Fields |-> cache'[f]]
    BY <1>1, <1>2
  <1>7. ASSUME ReadSince(r, cleared), CachedSince(cleared) PROVE CachedSince(cleared)'
    BY <1>1, <1>2, <1>7 DEF ReadSince, CachedSince, Fields
  <1>8. ASSUME NEW q \in Requests, ReadSince(q, cleared) PROVE ReadSince(q, cleared)'
    BY <1>2, <1>4, <1>8 DEF ReadSince
  <1> QED BY <1>2, <1>5, <1>6, <1>7, <1>8 DEF CacheInvariant

\* A clear empties every field; what is being read at that time is excepted.
LEMMA ClearStep ==
  ASSUME CacheInvariant, ClearCache
  PROVE  CacheInvariant'
PROOF
  <1>1. /\ cache' = [f \in Fields |-> None] /\ cleared' = graph /\ graph \in Nat
        /\ UNCHANGED <<graph, req>> /\ overlapped' = (Introspecting # {})
    BY DEF ClearCache, Emptied, CacheInvariant
  <1>2. CachedSince(cleared)'
    BY <1>1 DEF CachedSince
  <1>3. ASSUME ~overlapped', NEW r \in Requests PROVE ReadSince(r, cleared)'
    <2>1. req[r].fetch = "no"
      BY <1>1, <1>3 DEF Introspecting
    <2> QED BY <1>1, <2>1 DEF ReadSince
  <1> QED BY <1>1, <1>2, <1>3 DEF CacheInvariant, Shaped

\* Initially nothing is cached and nothing is being read.
LEMMA CacheInit == Init => CacheInvariant
PROOF
  <1> SUFFICES ASSUME Init PROVE CacheInvariant
    OBVIOUS
  <1>1. PICK a \in Asked : /\ req = [r \in Requests |-> [Fresh EXCEPT !.question = a.questions[r]]]
                           /\ graph = a.graph /\ cleared = a.graph
    BY DEF Init
  <1>2. graph \in Nat /\ cleared \in Nat /\ cleared <= graph
    BY <1>1, StructuredAssumption
  <1>3. \A r \in Requests : DOMAIN req[r] = FieldsOfRequest /\ req[r].fetch = "no"
    BY <1>1 DEF Fresh, FieldsOfRequest
  <1>4. Shaped
    BY <1>1, <1>3 DEF Shaped
  <1>5. cache = [f \in Fields |-> None]
    BY DEF Init
  <1> QED BY <1>2, <1>3, <1>4, <1>5 DEF CacheInvariant, CachedSince, ReadSince

\* Every step keeps what is cached, and what is about to be, recent.
LEMMA CacheStep ==
  ASSUME CacheInvariant, [Next]_vars
  PROVE  CacheInvariant'
PROOF
  <1>1. Shaped
    BY DEF CacheInvariant
  <1>2. CASE GraphChanges
    BY <1>2 DEF GraphChanges, CacheInvariant, Shaped, CachedSince, ReadSince
  <1>3. ASSUME NEW r \in Requests,
               Ask(r) \/ Route(r) \/ CheckAccess(r) \/ RunQuery(r) \/ RunPlan(r) \/ Answer(r)
        PROVE  CacheInvariant'
    <2>1. GoesOn(r)
      BY <1>1, <1>3, WayGoesOn, ExecutorGoesOn, RetryGoesOn, PlanGoesOn DEF RunQuery
    <2>2. UNCHANGED <<graph, cache, overlapped, cleared>>
      BY <1>3 DEF Ask, Route, CheckAccess, RunQuery, RunPlan, Answer, Generate, Precheck,
                  ExecutorRefuses, ExecutorRuns, ExecutorFails, FixDirections, Hint, DirectRuns,
                  DirectFails, Verify, Plan, PrepareStep, StepRuns, StepRetries, Local, Unshared
    <2> QED BY <2>1, <2>2, GoingOn
  <1>4. ASSUME NEW r \in Requests, ReadCache(r) PROVE CacheInvariant'
    BY <1>1, <1>4, KeptGoesOn, GoingOn DEF ReadCache, Local, Unshared
  <1>5. ASSUME NEW r \in Requests, FetchFails(r) PROVE CacheInvariant'
    <2>1. GoesOn(r)
      BY <1>1, <1>5 DEF FetchFails, Shaped, GoesOn, FieldsOfRequest
    <2> QED BY <1>5, <2>1, GoingOn DEF FetchFails, Unshared
  <1>6. CASE UNCHANGED vars
    BY <1>6 DEF vars, CacheInvariant, Shaped, CachedSince, ReadSince
  <1> QED BY <1>2, <1>3, <1>4, <1>5, <1>6, IntrospectionStep, StoreTextStep, ClearStep
          DEF Next, Step, ReadSchema

\* After a job has cleared the schema cache, and if no introspection was
\* under way at that moment, no field holds what was read before, however
\* many questions read, introspect and store at the same time.
THEOREM CacheIsRecent == Spec => []CacheForgetsOldGraph
PROOF
  <1>1. CacheInvariant => CacheForgetsOldGraph
    BY DEF CacheInvariant, CachedSince, CacheForgetsOldGraph
  <1>2. CacheInvariant /\ [Next]_vars => CacheInvariant'
    BY CacheStep
  <1> QED BY <1>1, <1>2, CacheInit, PTL DEF Spec

----------------------------------------------------------------------------
(* Induction over numbers, and a fold as a function that it applies to. *)

\* A set of numbers has a least one, because < is well-founded on them.
LEMMA LeastNumber ==
  ASSUME NEW T, T \subseteq Nat, T # {}
  PROVE  \E x \in T : \A y \in T : x <= y
  <1>1. PICK R : R = OpToRel(<, Nat)
    OBVIOUS
  <1>2. IsWellFoundedOn(R, Nat)
    BY <1>1, NatLessThanWellFounded
  <1>3. PICK x \in T : \A y \in T : ~(<<y, x>> \in R)
    BY <1>2, WFMin
  <1>4. ASSUME NEW y \in T PROVE x <= y
    <2>1. x \in Nat /\ y \in Nat
      OBVIOUS
    <2>2. y < x => <<y, x>> \in R
      BY <1>1, <2>1 DEF OpToRel
    <2> QED
      BY <1>3, <2>1, <2>2
  <1> QED
    BY <1>4

\* Induction, over a set: what holds 0 and every successor holds every number.
LEMMA NumbersAreReached ==
  ASSUME NEW T, 0 \in T, \A n \in T : n + 1 \in T
  PROVE  Nat \subseteq T
  <1>1. ASSUME Nat \ T # {} PROVE FALSE
    <2>1. PICK x \in Nat \ T : \A y \in Nat \ T : x <= y
      BY <1>1, LeastNumber
    <2>2. x # 0 /\ x - 1 \in Nat /\ x - 1 \notin Nat \ T
      BY <2>1
    <2> QED
      BY <2>2
  <1> QED
    BY <1>1

\* The fold over a sequence of n triples, over any set of their places.
FoldOver(f, q, schema, k) ==
    f = [s \in SUBSET (1..k) |->
            IF s = {} THEN q ELSE FixedBy(f[s \ {Max(s)}], schema[Max(s)])]

\* The place that a fold over 1..n takes first is n.
LEMMA MaxIsTheLast ==
  ASSUME NEW n \in Nat, NEW s \in SUBSET (1..n), n \in s
  PROVE  Max(s) = n
  <1>1. \A y \in s : y \in Nat /\ n >= y
    OBVIOUS
  <1>2. PICK m : m = Max(s)
    OBVIOUS
  <1>3. m \in s /\ \A y \in s : m >= y
    BY <1>1, <1>2 DEF Max
  <1>4. m \in Nat /\ m >= n /\ n >= m
    BY <1>1, <1>3
  <1> QED
    BY <1>2, <1>4

\* There is such a function: by induction over the length of the schema.
LEMMA FoldsExist ==
  ASSUME NEW q, NEW schema
  PROVE  \A n \in Nat : \E f : FoldOver(f, q, schema, n)
  <1> DEFINE T == {n \in Nat : \E f : FoldOver(f, q, schema, n)}
  <1>1. 0 \in T
    <2>1. PICK f : f = [s \in SUBSET (1..0) |-> q]
      OBVIOUS
    <2>2. \A s \in SUBSET (1..0) : s = {}
      OBVIOUS
    <2>3. FoldOver(f, q, schema, 0)
      BY <2>1, <2>2 DEF FoldOver
    <2> QED
      BY <2>3
  <1>2. ASSUME NEW n \in T PROVE n + 1 \in T
    <2>1. PICK f : FoldOver(f, q, schema, n)
      OBVIOUS
    <2>0. n \in Nat
      OBVIOUS
    <2>2. PICK g : g = [s \in SUBSET (1..(n + 1)) |->
                          IF n + 1 \in s THEN FixedBy(f[s \ {n + 1}], schema[n + 1]) ELSE f[s]]
      OBVIOUS
    <2>3. ASSUME NEW s \in SUBSET (1..(n + 1))
          PROVE  g[s] = IF s = {} THEN q ELSE FixedBy(g[s \ {Max(s)}], schema[Max(s)])
      <3>1. CASE n + 1 \in s
        <4>1. Max(s) = n + 1
          BY <2>0, <3>1, MaxIsTheLast
        <4>2. s \ {n + 1} \in SUBSET (1..n)
          OBVIOUS
        <4>3. g[s \ {n + 1}] = f[s \ {n + 1}]
          BY <2>2, <4>2
        <4> QED
          BY <2>2, <3>1, <4>1, <4>3
      <3>2. CASE n + 1 \notin s
        <4>1. s \in SUBSET (1..n) /\ s \ {Max(s)} \in SUBSET (1..n)
          <5>1. \A i \in s : i \in 1..n
            BY <2>0, <3>2
          <5> QED
            BY <5>1
        <4>2. g[s] = f[s] /\ g[s \ {Max(s)}] = f[s \ {Max(s)}]
          BY <2>2, <3>2, <4>1
        <4> QED
          BY <2>1, <4>1, <4>2 DEF FoldOver
      <3> QED
        BY <3>1, <3>2
    <2>4. FoldOver(g, q, schema, n + 1)
      BY <2>2, <2>3 DEF FoldOver
    <2> QED
      BY <2>4
  <1>3. Nat \subseteq T
    BY <1>1, <1>2, NumbersAreReached
  <1> QED
    BY <1>3

\* fix_relationship_directions, through the definitions of FoldLeft and
\* MapThenFoldSet, is its value on all places.
LEMMA DirectedIsAFold ==
  ASSUME NEW q, NEW schema, NEW n \in Nat, DOMAIN schema = 1..n
  PROVE  \E f : FoldOver(f, q, schema, n) /\ Directed(q, schema) = f[1..n]
  <1> DEFINE f == CHOOSE g : FoldOver(g, q, schema, n)
  <1>1. FoldOver(f, q, schema, n)
    BY FoldsExist
  <1>2. Directed(q, schema) = f[1..n]
    BY DEF Directed, FoldLeft, MapThenFoldSet, FoldOver
  <1> QED
    BY <1>1, <1>2

----------------------------------------------------------------------------
(* What the repairs leave of a query. *)

\* What the repair of arrows leaves of a query.
SameNodes(x, q) == IsQuery(x) /\ x.scoped = q.scoped /\ ToSet(x.nodes) \subseteq ToSet(q.nodes)

\* A function on 1..n is a sequence of what it holds.
LEMMA SequenceOfItsElements ==
  ASSUME NEW m, NEW n \in Nat, m = [i \in 1..n |-> m[i]]
  PROVE  m \in Seq(ToSet(m)) /\ Len(m) = n
  <1>1. PICK S : S = ToSet(m)
    OBVIOUS
  <1>2. \A i \in 1..n : m[i] \in S
    BY <1>1 DEF ToSet
  <1>3. m \in Seq(S)
    BY <1>2
  <1>4. Len(m) = n
    BY <1>3
  <1> QED
    BY <1>1, <1>3, <1>4

\* Two nodes change places.
LEMMA SwappingKeepsNodes ==
  ASSUME NEW q, IsQuery(q), NEW places, places \subseteq DOMAIN q.hops
  PROVE  SameNodes(SwapNodes(q, places), q)
  <1> PICK x : x = SwapNodes(q, places)
    OBVIOUS
  <1> PICK m : m = [j \in DOMAIN q.nodes |-> IF j \in places THEN q.nodes[j + 1]
                          ELSE IF j - 1 \in places THEN q.nodes[j - 1] ELSE q.nodes[j]]
    OBVIOUS
  <1>1. /\ q.nodes \in Seq(ToSet(q.nodes)) /\ q.hops \in Seq(ToSet(q.hops))
        /\ Len(q.nodes) = Len(q.hops) + 1
    BY DEF IsQuery
  <1>2. PICK n \in Nat : DOMAIN q.hops = 1..n /\ DOMAIN q.nodes = 1..(n + 1) /\ Len(q.nodes) = n + 1
    BY <1>1
  <1>3. m \in Seq(ToSet(q.nodes)) /\ Len(m) = n + 1
    <2>1. \A j \in 1..(n + 1) : m[j] \in ToSet(q.nodes)
      BY <1>2 DEF ToSet
    <2> QED
      BY <1>2, <2>1
  <1>4. Evaluated(m) = m
    BY <1>3 DEF Evaluated
  <1>5. x = [q EXCEPT !.nodes = m]
    BY <1>4 DEF SwapNodes
  <1>6. DOMAIN x = DOMAIN q /\ x.nodes = m /\ x.hops = q.hops /\ x.scoped = q.scoped
    BY <1>5 DEF IsQuery
  <1>7. ToSet(m) \subseteq ToSet(q.nodes)
    BY <1>3 DEF ToSet
  <1>8. m \in Seq(ToSet(m))
    <2>1. n + 1 \in Nat /\ m = [j \in 1..(n + 1) |-> m[j]]
      BY <1>2
    <2> QED
      BY <2>1, SequenceOfItsElements
  <1> QED
    BY <1>1, <1>2, <1>3, <1>6, <1>7, <1>8 DEF SameNodes, IsQuery

\* An arrow is turned.
LEMMA TurningKeepsNodes ==
  ASSUME NEW q, IsQuery(q), NEW places
  PROVE  SameNodes(TurnArrows(q, places), q)
  <1> PICK x : x = TurnArrows(q, places)
    OBVIOUS
  <1> PICK m : m = [i \in DOMAIN q.hops |-> IF i \in places THEN [q.hops[i] EXCEPT !.dir = "fwd"] ELSE q.hops[i]]
    OBVIOUS
  <1>1. /\ q.nodes \in Seq(ToSet(q.nodes)) /\ q.hops \in Seq(ToSet(q.hops))
        /\ Len(q.nodes) = Len(q.hops) + 1
    BY DEF IsQuery
  <1>2. PICK n \in Nat : DOMAIN q.hops = 1..n /\ Len(q.hops) = n
    BY <1>1
  <1>3. m \in Seq(ToSet(m)) /\ Len(m) = n
    BY <1>2, SequenceOfItsElements
  <1>4. Evaluated(m) = m
    BY <1>3 DEF Evaluated
  <1>5. x = [q EXCEPT !.hops = m]
    BY <1>4 DEF TurnArrows
  <1>6. DOMAIN x = DOMAIN q /\ x.nodes = q.nodes /\ x.hops = m /\ x.scoped = q.scoped
    BY <1>5 DEF IsQuery
  <1> QED
    BY <1>1, <1>2, <1>3, <1>6 DEF SameNodes, IsQuery

\* Both replacements for one triple.
LEMMA FixingKeepsNodes ==
  ASSUME NEW q, IsQuery(q), NEW t
  PROVE  SameNodes(FixedBy(q, t), q)
  <1> PICK x : x = SwapNodes(q, Disjoint(WrongForward(q, t)))
    OBVIOUS
  <1>1. Disjoint(WrongForward(q, t)) \subseteq DOMAIN q.hops
    BY DEF Disjoint, WrongForward
  <1>2. SameNodes(x, q)
    BY <1>1, SwappingKeepsNodes
  <1>3. FixedBy(q, t) = TurnArrows(x, Disjoint(WrongReverse(x, t)))
    BY DEF FixedBy, Once
  <1>4. SameNodes(TurnArrows(x, Disjoint(WrongReverse(x, t))), x)
    BY <1>2, TurningKeepsNodes DEF SameNodes
  <1> QED
    BY <1>2, <1>3, <1>4 DEF SameNodes

\* The replacements for every triple of the schema: by induction over them.
LEMMA DirectingKeepsNodes ==
  ASSUME NEW q, IsQuery(q), NEW schema, schema \in Seq(ToSet(schema))
  PROVE  SameNodes(Directed(q, schema), q)
  <1>1. PICK n \in Nat : DOMAIN schema = 1..n
    OBVIOUS
  <1>2. PICK f : FoldOver(f, q, schema, n) /\ Directed(q, schema) = f[1..n]
    BY <1>1, DirectedIsAFold
  <1> DEFINE T == {k \in Nat : k <= n => SameNodes(f[1..k], q)}
  <1>3. 0 \in T
    <2>1. {} \in SUBSET (1..n) /\ 1..0 = {}
      OBVIOUS
    <2>2. f[{}] = q
      BY <1>2, <2>1 DEF FoldOver
    <2>3. SameNodes(q, q)
      BY DEF SameNodes
    <2> QED
      BY <2>1, <2>2, <2>3
  <1>4. ASSUME NEW k \in T PROVE k + 1 \in T
    <2>1. CASE k + 1 <= n
      <3>0. k \in Nat
        OBVIOUS
      <3> PICK s : s = 1..(k + 1)
        OBVIOUS
      <3>1. s \in SUBSET (1..n) /\ s # {} /\ k + 1 \in s /\ s \in SUBSET (1..(k + 1))
        <4>1. \A i \in s : i \in 1..n
          BY <2>1, <3>0
        <4>2. k + 1 \in s
          BY <3>0
        <4> QED
          BY <4>1, <4>2
      <3>2. Max(s) = k + 1 /\ s \ {k + 1} = 1..k
        BY <3>0, <3>1, MaxIsTheLast
      <3>3. f[s] = FixedBy(f[s \ {Max(s)}], schema[Max(s)])
        BY <1>2, <3>1 DEF FoldOver
      <3>4. f[s] = FixedBy(f[1..k], schema[k + 1])
        BY <3>2, <3>3
      <3>5. SameNodes(f[1..k], q)
        BY <2>1, <3>0
      <3>6. SameNodes(f[s], f[1..k])
        BY <3>4, <3>5, FixingKeepsNodes DEF SameNodes
      <3>7. SameNodes(f[s], q)
        BY <3>5, <3>6 DEF SameNodes
      <3> QED
        BY <3>7
    <2> QED
      BY <2>1
  <1>5. Nat \subseteq T
    BY <1>3, <1>4, NumbersAreReached
  <1> QED
    BY <1>1, <1>2, <1>5

\* A path of the schema has one to four hops.
LEMMA PathsAreShort ==
  ASSUME NEW from, NEW to, NEW schema
  PROVE  \/ ShortestPath(from, to, schema) = <<>>
         \/ \E n \in 1..4 : ShortestPath(from, to, schema) \in [1..n -> ToSet(schema)]
  <1> DEFINE Paths(n) == {p \in [1..n -> ToSet(schema)] :
                        /\ p[1][1] = from /\ p[n][3] = to
                        /\ \A i \in 1..(n - 1) : p[i][3] = p[i + 1][1]}
  <1>l. PICK lengths : lengths = {n \in 1..4 : Paths(n) # {}}
    OBVIOUS
  <1>1. CASE from = to \/ lengths = {}
    BY <1>l, <1>1 DEF ShortestPath
  <1>2. CASE ~(from = to \/ lengths = {})
    <2>1. lengths \subseteq Nat /\ lengths # {}
      BY <1>l, <1>2
    <2>2. \E n \in lengths : \A k \in lengths : n <= k
      BY <2>1, LeastNumber
    <2>3. Min(lengths) \in lengths
      BY <2>2 DEF Min
    <2>4. PICK n : n = Min(lengths)
      OBVIOUS
    <2>5. n \in 1..4 /\ Paths(n) # {}
      BY <1>l, <2>3, <2>4
    <2>6. ShortestPath(from, to, schema) = CHOOSE p \in Paths(n) : TRUE
      BY <1>l, <1>2, <2>4 DEF ShortestPath
    <2>7. ShortestPath(from, to, schema) \in Paths(n)
      BY <2>5, <2>6
    <2> QED
      BY <2>5, <2>7
  <1> QED
    BY <1>1, <1>2

\* A query of one hop with another path.
LEMMA AlongKeepsQueries ==
  ASSUME NEW q, IsQuery(q), NEW hops, NEW k \in Nat \ {0}, hops = [i \in 1..k |-> hops[i]],
         NEW first, NEW last, NEW between, between = [i \in 1..(Len(hops) - 1) |-> between[i]]
  PROVE  IsQuery([q EXCEPT !.nodes = <<first>> \o between \o <<last>>,
                           !.hops = Evaluated([i \in DOMAIN hops |-> [rel |-> hops[i], dir |-> "fwd"]])])
  <1>1. Len(hops) = k /\ DOMAIN hops = 1..k
    BY SequenceOfItsElements
  <1>m. PICK m : m = [i \in DOMAIN hops |-> [rel |-> hops[i], dir |-> "fwd"]]
    OBVIOUS
  <1>2. m = [i \in 1..k |-> m[i]]
    BY <1>1, <1>m
  <1>3. m \in Seq(ToSet(m)) /\ Len(m) = k
    BY <1>2, SequenceOfItsElements
  <1>4. Evaluated(m) = m
    BY <1>2, <1>3 DEF Evaluated
  <1>5. k - 1 \in Nat /\ between = [i \in 1..(k - 1) |-> between[i]]
    BY <1>1
  <1>6. between \in Seq(ToSet(between)) /\ Len(between) = k - 1
    BY <1>5, SequenceOfItsElements
  <1>n. PICK nodes : nodes = <<first>> \o between \o <<last>>
    OBVIOUS
  <1>7. nodes \in Seq(ToSet(nodes)) /\ Len(nodes) = k + 1
    <2>s. PICK S : S = ToSet(between) \cup {first, last}
      OBVIOUS
    <2>1. between \in Seq(S) /\ <<first>> \in Seq(S) /\ <<last>> \in Seq(S)
      <3>1. first \in S /\ last \in S /\ \A i \in 1..(k - 1) : between[i] \in S
        BY <2>s, <1>5 DEF ToSet
      <3> QED
        BY <3>1, <1>5
    <2>2. nodes \in Seq(S) /\ Len(nodes) = 1 + (k - 1) + 1
      <3>1. <<first>> \o between \in Seq(S) /\ Len(<<first>> \o between) = 1 + (k - 1)
        BY <2>1, <1>6
      <3> QED
        BY <2>1, <3>1, <1>n
    <2>3. k + 1 \in Nat /\ nodes = [i \in 1..(k + 1) |-> nodes[i]]
      BY <2>2
    <2> QED
      BY <2>3, SequenceOfItsElements
  <1>8. PICK x : x = [q EXCEPT !.nodes = nodes, !.hops = m]
    OBVIOUS
  <1>9. IsQuery(x)
    BY <1>3, <1>7, <1>8 DEF IsQuery
  <1> QED
    BY <1>4, <1>8, <1>9, <1>m, <1>n

\* The repair of a path of one hop.
LEMMA RewritingKeepsQueries ==
  ASSUME NEW q, IsQuery(q), NEW schema
  PROVE  IsQuery(PathRewritten(q, schema))
  <1>e. PICK e : e = EdgeAt(q, 1)
    OBVIOUS
  <1>w. PICK way : way = IF Triple(e) \in ToSet(schema) THEN <<>>
                         ELSE ShortestPath(e[1].label, e[3].label, schema)
    OBVIOUS
  <1>h. PICK hops : hops = IF way = <<>> THEN <<e[2]>> ELSE [i \in DOMAIN way |-> way[i][2]]
    OBVIOUS
  <1>b. PICK between :
            between = [i \in 1..(Len(hops) - 1) |-> [var |-> VarFor(q, way[i][3]), label |-> way[i][3]]]
    OBVIOUS
  <1>1. \E k \in Nat \ {0} : hops = [i \in 1..k |-> hops[i]]
    <2>1. CASE way = <<>>
      <3>1. hops = <<e[2]>>
        BY <2>1, <1>h
      <3>2. hops = [i \in 1..1 |-> hops[i]]
        BY <3>1
      <3> QED
        BY <3>2
    <2>2. CASE way # <<>>
      <3>1. PICK n \in 1..4 : way \in [1..n -> ToSet(schema)]
        BY <2>2, <1>w, PathsAreShort
      <3>2. hops = [i \in 1..n |-> way[i][2]]
        BY <2>2, <3>1, <1>h
      <3>3. hops = [i \in 1..n |-> hops[i]]
        BY <3>2
      <3> QED
        BY <3>3
    <2> QED
      BY <2>1, <2>2
  <1>2. between = [i \in 1..(Len(hops) - 1) |-> between[i]]
    BY <1>b
  <1>3. IsQuery([q EXCEPT !.nodes = <<q.nodes[1]>> \o between \o <<e[3]>>,
                          !.hops = Evaluated([i \in DOMAIN hops |-> [rel |-> hops[i], dir |-> "fwd"]])])
    BY <1>1, <1>2, AlongKeepsQueries
  <1>4. PathRewritten(q, schema)
        = [q EXCEPT !.nodes = <<q.nodes[1]>> \o between \o <<e[3]>>,
                    !.hops = Evaluated([i \in DOMAIN hops |-> [rel |-> hops[i], dir |-> "fwd"]])]
    <2> DEFINE Along(v) ==
            LET steps == IF v = <<>> THEN <<e[2]>> ELSE [i \in DOMAIN v |-> v[i][2]]
                mid == [i \in 1..(Len(steps) - 1) |-> [var |-> VarFor(q, v[i][3]), label |-> v[i][3]]]
            IN  [q EXCEPT !.nodes = <<q.nodes[1]>> \o mid \o <<e[3]>>,
                          !.hops = Evaluated([i \in DOMAIN steps |-> [rel |-> steps[i], dir |-> "fwd"]])]
    <2>1. PathRewritten(q, schema) = CHOOSE y \in {Along(z) : z \in {way}} : TRUE
      BY <1>e, <1>w DEF PathRewritten, Once
    <2>2. PathRewritten(q, schema) = Along(way)
      <3> HIDE DEF Along
      <3> QED
        BY <2>1
    <2>3. Along(way) = [q EXCEPT !.nodes = <<q.nodes[1]>> \o between \o <<e[3]>>,
                    !.hops = Evaluated([i \in DOMAIN hops |-> [rel |-> hops[i], dir |-> "fwd"]])]
      BY <1>h, <1>b
    <2> QED
      BY <2>2, <2>3
  <1> QED
    BY <1>3, <1>4

\* The repairs of the wording leave the path alone.
LEMMA WordingKeepsQueries ==
  ASSUME NEW q, IsQuery(q)
  PROVE  IsQuery(Worded(q))
  <1>1. ASSUME NEW x, IsQuery(x), NEW s PROVE IsQuery(Without(x, s))
    BY <1>1 DEF Without, IsQuery
  <1> QED
    BY <1>1 DEF Worded, WithBoundFields, WithAliases, WithoutRegrouping, WithRoundPrecision,
                WithoutPatternAlias, WithoutExtraParen

\* normalize_generated_cypher: the whole chain of repairs leaves a query with
\* every tenant filter it needs, those of the nodes it inserted too.
LEMMA NormalizingScopes ==
  ASSUME NEW q, IsQuery(q), NEW schema, schema \in Seq(ToSet(schema))
  PROVE  /\ IsQuery(Normalized(q, schema))
         /\ MultiTenancy => UnscopedVars(Normalized(q, schema)) = {}
  <1> PICK w : w = Worded(q)
    OBVIOUS
  <1> PICK d : d = Directed(w, schema)
    OBVIOUS
  <1> PICK p : p = PathRepaired(d, schema)
    OBVIOUS
  <1>1. IsQuery(w)
    BY WordingKeepsQueries
  <1>2. IsQuery(d)
    BY <1>1, DirectingKeepsNodes DEF SameNodes
  <1>3. IsQuery(p)
    BY <1>2, RewritingKeepsQueries DEF PathRepaired
  <1>4. Normalized(q, schema) = IF MultiTenancy THEN Injected(p) ELSE p
    BY DEF Normalized, Repaired, Scoped, Once
  <1>5. IsQuery(Injected(p)) /\ UnscopedVars(Injected(p)) = {}
    BY <1>3 DEF Injected, IsQuery, UnscopedVars, NeedFilter
  <1> QED
    BY <1>3, <1>4, <1>5

\* The turn of the arrows alone adds no node.
LEMMA DirectingScopes ==
  ASSUME NEW q, IsQuery(q), NEW schema, schema \in Seq(ToSet(schema)), UnscopedVars(q) = {}
  PROVE  IsQuery(Directed(q, schema)) /\ UnscopedVars(Directed(q, schema)) = {}
  <1>1. SameNodes(Directed(q, schema), q)
    BY DirectingKeepsNodes
  <1>2. NeedFilter(Directed(q, schema)) \subseteq NeedFilter(q)
    BY <1>1 DEF SameNodes, NeedFilter
  <1> QED
    BY <1>1, <1>2 DEF SameNodes, UnscopedVars

----------------------------------------------------------------------------
(* What a request carries. *)

\* A request that has read the text of the schema.
Informed == {"route", "plan", "access", "generate", "labels", "props", "precheck", "execute",
             "directions", "direct", "hints", "verify", "prepare", "step"}

IsScoped(q) == IsQuery(q) /\ (MultiTenancy => UnscopedVars(q) = {})

OnPlan(x) == x.plan \in Seq(Generated) /\ x.plan # <<>>

\* What a request x carries: the schema it was told, queries that are well formed, with every
\* filter from where they are no longer checked, and a plan of generated queries.
Carries(x) ==
    /\ x.fetch \in {"props", "text"} => x.rels \in Versions
    /\ x.fetch # "no" => x.at \in Reading
    /\ x.at \in Informed => x.text \in Versions
    /\ x.at \in {"labels", "props"} /\ x.path = "query" => IsQuery(x.q)
    /\ x.at \in {"precheck", "execute", "directions", "direct", "hints"} => IsQuery(x.q)
    /\ x.at \in {"directions", "step"} => IsScoped(x.q)
    /\ x.at = "direct" => IsScoped(x.tried)
    /\ x.at \in {"prepare", "step"} => OnPlan(x)
    /\ x.at \in {"access", "prompt", "labels", "props"} /\ x.path # "query" => OnPlan(x)
    /\ x.at \in {"precheck", "generate", "execute", "directions", "direct", "hints"} => x.path = "query"

ScopeInvariant ==
    /\ graph \in Versions /\ cache = [f \in Fields |-> cache[f]]
    /\ cache["text"] \in Versions \cup {None}
    /\ Shaped
    /\ \A r \in Requests : Carries(req[r])

\* A step of one request that does not disturb what it carries.
LEMMA GoingOnCarries ==
  ASSUME ScopeInvariant, NEW r \in Requests, GoesOn(r), Carries(req'[r]),
         graph' \in Versions, cache' = [f \in Fields |-> cache'[f]], cache'["text"] \in Versions \cup {None}
  PROVE  ScopeInvariant'
  <1>1. req' = [q \in Requests |-> IF q = r THEN req'[r] ELSE req[q]] /\ DOMAIN req'[r] = FieldsOfRequest
    BY DEF GoesOn
  <1>2. Shaped'
    BY <1>1 DEF ScopeInvariant, Shaped
  <1>3. \A q \in Requests : Carries(req'[q])
    BY <1>1 DEF ScopeInvariant
  <1> QED
    BY <1>2, <1>3 DEF ScopeInvariant

\* A request repairs queries against the schema it was told.
LEMMA NormScopes ==
  ASSUME NEW r \in Requests, req[r].text \in Versions, NEW q, IsQuery(q)
  PROVE  IsScoped(Norm(r, q))
  <1>1. Schema(r) \in Seq(ToSet(Schema(r)))
    BY StructuredAssumption DEF Schema, Versions, ToSet
  <1>2. Norm(r, q) = Normalized(q, Schema(r))
    BY DEF Norm, Once
  <1> QED
    BY <1>1, <1>2, NormalizingScopes DEF IsScoped


\* What the invariant says of one request.
LEMMA RequestsCarry ==
  ASSUME ScopeInvariant, NEW r \in Requests
  PROVE  /\ DOMAIN req[r] = FieldsOfRequest /\ req = [q \in Requests |-> req[q]]
         /\ Carries(req[r])
  BY DEF ScopeInvariant, Shaped

\* The way to a query.
LEMMA WayCarries ==
  ASSUME ScopeInvariant, NEW r \in Requests,
         Ask(r) \/ Route(r) \/ CheckAccess(r) \/ Generate(r) \/ Precheck(r)
  PROVE  Carries(req'[r])
  <1>1. /\ DOMAIN req[r] = FieldsOfRequest /\ req = [q \in Requests |-> req[q]]
        /\ Carries(req[r]) /\ req[r].fetch = "no"
    BY RequestsCarry DEF Ask, Route, CheckAccess, Generate, Precheck, At, Carries, Reading
  <1>2. CASE Ask(r)
    <2>1. CASE To(r, "text")
      BY <1>1, <1>2, <2>1 DEF Ask, At, To, Carries, FieldsOfRequest, Informed, Reading
    <2>2. CASE To(r, "numeric")
      BY <1>1, <1>2, <2>2 DEF Ask, At, To, Carries, FieldsOfRequest, Informed, Reading
    <2> QED
      BY <1>2, <2>1, <2>2 DEF Ask
  <1>3. CASE Route(r)
    <2>1. PICK at, path : /\ req' = [req EXCEPT ![r].at = at, ![r].path = path]
                          /\ <<at, path>> \in {<<"plan", "gate">>, <<"access", "query">>}
      BY <1>3 DEF Route
    <2>2. At(r, "route") /\ req[r].text \in Versions
      BY <1>1, <1>3 DEF Route, At, Carries, Informed, Reading
    <2>3. (at = "plan" /\ path = "gate") \/ (at = "access" /\ path = "query")
      BY <2>1
    <2>4. /\ req'[r].at = at /\ req'[r].path = path /\ req'[r].text = req[r].text
          /\ req'[r].fetch = req[r].fetch /\ req'[r].rels = req[r].rels
      BY <1>1, <2>1 DEF FieldsOfRequest
    <2> QED
      BY <1>1, <2>2, <2>3, <2>4 DEF Carries, Informed, Reading
  <1>4. CASE CheckAccess(r)
    <2>0. At(r, "access") /\ req[r].text \in Versions /\ (req[r].path # "query" => OnPlan(req[r]))
      BY <1>1, <1>4 DEF CheckAccess, At, Carries, Informed
    <2>1. CASE To(r, "prompt")
      <3>1. /\ req'[r].at = "prompt" /\ req'[r].fetch = "no" /\ req'[r].path = req[r].path
            /\ req'[r].plan = req[r].plan
        BY <1>1, <2>1 DEF To, FieldsOfRequest
      <3> QED
        BY <2>0, <3>1 DEF Carries, Informed, OnPlan
    <2>2. CASE Ends(r, "denied")
      BY <1>1, <1>4, <2>2 DEF CheckAccess, At, Ends, Carries, FieldsOfRequest, Informed, Reading
    <2> QED
      BY <1>4, <2>1, <2>2 DEF CheckAccess
  <1>5. CASE Generate(r)
    <2>0. At(r, "generate") /\ req[r].text \in Versions
      BY <1>1, <1>5 DEF Generate, At, Carries, Informed, Reading
    <2>1. ASSUME NEW g \in Generated,
                 req' = [req EXCEPT ![r].at = "labels", ![r].first = g, ![r].q = Norm(r, g)]
          PROVE  Carries(req'[r])
      <3>1. PICK n : n = Norm(r, g)
        OBVIOUS
      <3>2. IsQuery(n)
        BY <2>0, <3>1, NormScopes, StructuredAssumption DEF IsScoped
      <3>3. req' = [req EXCEPT ![r].at = "labels", ![r].first = g, ![r].q = n]
        BY <2>1, <3>1
      <3> QED
        BY <1>1, <2>0, <3>2, <3>3 DEF At, Carries, FieldsOfRequest, Informed, Reading
    <2>2. CASE Ends(r, "no_such_data")
      BY <1>1, <2>2 DEF Ends, Carries, FieldsOfRequest, Informed, Reading
    <2>3. CASE req' = [req EXCEPT ![r].at = IF EmptyFallback THEN "plan" ELSE "answer", ![r].path = "fallback"]
      BY <1>1, <2>0, <2>3, ZenonT(60) DEF Carries, FieldsOfRequest, Informed, Reading
    <2> QED
      BY <1>5, <2>1, <2>2, <2>3 DEF Generate
  <1>6. CASE Precheck(r)
    <2>0. At(r, "precheck") /\ req[r].text \in Versions /\ IsQuery(req[r].q) /\ req[r].path = "query"
      BY <1>1, <1>6 DEF Precheck, At, Carries, Informed, Reading
    <2>1. CASE req' = [req EXCEPT ![r].at = "execute", ![r].tries = 0, ![r].regens = 0]
      BY <1>1, <2>0, <2>1 DEF At, Carries, FieldsOfRequest, Informed, Reading
    <2>2. ASSUME NEW n, IsQuery(n), req' = [req EXCEPT ![r].q = n, ![r].tries = @ + 1]
          PROVE  Carries(req'[r])
      BY <1>1, <2>0, <2>2 DEF At, Carries, FieldsOfRequest, Informed, Reading
    <2>3. ASSUME NEW n, IsQuery(n),
                 req' = [req EXCEPT ![r].q = n, ![r].tries = @ + 1, ![r].regens = @ + 1]
          PROVE  Carries(req'[r])
      BY <1>1, <2>0, <2>3 DEF At, Carries, FieldsOfRequest, Informed, Reading
    <2>4. IsQuery(Norm(r, req[r].q)) /\ \A f \in Generated : IsQuery(Norm(r, f))
      BY <2>0, NormScopes, StructuredAssumption DEF IsScoped
    <2>5. \/ req' = [req EXCEPT ![r].at = "execute", ![r].tries = 0, ![r].regens = 0]
          \/ req' = [req EXCEPT ![r].q = Norm(r, req[r].q), ![r].tries = @ + 1]
          \/ \E f \in Generated : req' = [req EXCEPT ![r].q = Norm(r, f), ![r].tries = @ + 1, ![r].regens = @ + 1]
      BY <1>6 DEF Precheck, Replies
    <2> QED
      BY <2>1, <2>2, <2>3, <2>4, <2>5
  <1> QED
    BY <1>2, <1>3, <1>4, <1>5, <1>6

\* The executor runs what no check objects to, which is scoped.
LEMMA ExecutorCarries ==
  ASSUME ScopeInvariant, NEW r \in Requests, ExecutorRefuses(r) \/ ExecutorRuns(r) \/ ExecutorFails(r)
  PROVE  Carries(req'[r])
  <1>1. /\ DOMAIN req[r] = FieldsOfRequest /\ req = [q \in Requests |-> req[q]]
        /\ Carries(req[r]) /\ req[r].fetch = "no"
    BY RequestsCarry DEF ExecutorRefuses, ExecutorRuns, ExecutorFails, At, Carries, Reading
  <1>2. At(r, "execute") /\ req[r].text \in Versions /\ IsQuery(req[r].q) /\ req[r].path = "query"
    BY <1>1 DEF ExecutorRefuses, ExecutorRuns, ExecutorFails, At, Carries, Informed, Reading
  <1>3. IsQuery(Norm(r, req[r].q)) /\ \A f \in Generated : IsQuery(f)
    BY <1>2, NormScopes, StructuredAssumption DEF IsScoped
  <1>4. \A f \in Regenerated(r) : f # NoQuery => IsQuery(f)
    BY <1>3 DEF Regenerated, Replies
  <1> DEFINE ran == [req EXCEPT ![r].runs = @ + 1, ![r].first = NoQuery]
             failed == [ran EXCEPT ![r].at = "answer", ![r].result = "error"]
  <1>5. CASE ExecutorRefuses(r)
    <2>1. ASSUME NEW n, IsQuery(n), req' = [req EXCEPT ![r].q = n] PROVE Carries(req'[r])
      BY <1>1, <1>2, <2>1 DEF At, Carries, FieldsOfRequest, Informed, Reading
    <2>2. CASE Ends(r, "error")
      BY <1>1, <2>2 DEF Ends, Carries, FieldsOfRequest, Informed, Reading
    <2>3. ASSUME NEW f \in Regenerated(r), Fixes(r, f) PROVE Carries(req'[r])
      <3>2. CASE req' = [req EXCEPT ![r].regens = @ + 1, ![r].at = "answer", ![r].result = "error"]
        BY <1>1, <3>2 DEF Carries, FieldsOfRequest, Informed, Reading
      <3>3. CASE f # NoQuery /\ req' = [req EXCEPT ![r].regens = @ + 1, ![r].q = f]
        <4>1. IsQuery(f)
          BY <1>4, <3>3
        <4> QED
          BY <1>1, <1>2, <3>3, <4>1 DEF At, Carries, FieldsOfRequest, Informed, Reading
      <3> QED
        BY <2>3, <3>2, <3>3 DEF Fixes
    <2> QED
      BY <1>3, <1>5, <2>1, <2>2, <2>3 DEF ExecutorRefuses
  <1>6. CASE ExecutorRuns(r)
    <2>1. PICK rows : req' = [ran EXCEPT ![r].at = "directions", ![r].rows = rows, ![r].runs = 0, ![r].regens = 0]
      BY <1>6 DEF ExecutorRuns, Attempted
    <2>2. IsScoped(req[r].q)
      BY <1>2, <1>6 DEF ExecutorRuns, Issue, HasIssue, SqlIssue, IsScoped
    <2>3. PICK x : x = req'[r]
      OBVIOUS
    <2>4. /\ x.at = "directions" /\ x.fetch = "no" /\ x.path = "query"
          /\ x.text \in Versions /\ x.q = req[r].q
      BY <1>1, <1>2, <2>1, <2>3 DEF FieldsOfRequest
    <2>5. Carries(x)
      BY <1>2, <2>2, <2>4 DEF Carries, Informed, Reading
    <2> QED
      BY <2>3, <2>5
  <1>7. CASE ExecutorFails(r)
    <2>1. CASE req' = failed
      BY <1>1, <2>1 DEF Carries, FieldsOfRequest, Informed, Reading
    <2>2. ASSUME NEW n, IsQuery(n), req' = [ran EXCEPT ![r].q = n] PROVE Carries(req'[r])
      BY <1>1, <1>2, <2>2 DEF At, Carries, FieldsOfRequest, Informed, Reading
    <2>3. CASE req' = [failed EXCEPT ![r].regens = @ + 1]
      <3>1. PICK x : x = req'[r]
        OBVIOUS
      <3>2. x.at = "answer" /\ x.fetch = "no"
        BY <1>1, <2>3, <3>1 DEF FieldsOfRequest
      <3>3. Carries(x)
        BY <3>2 DEF Carries, Informed, Reading
      <3> QED
        BY <3>1, <3>3
    <2>4. ASSUME NEW n, IsQuery(n), req' = [[ran EXCEPT ![r].q = n] EXCEPT ![r].regens = @ + 1]
          PROVE  Carries(req'[r])
      BY <1>1, <1>2, <2>4 DEF At, Carries, FieldsOfRequest, Informed, Reading
    <2>5. \/ req' = failed
          \/ req' = [ran EXCEPT ![r].q = Norm(r, req[r].q)]
          \/ req' = [failed EXCEPT ![r].regens = @ + 1]
          \/ \E f \in Regenerated(r) : f # NoQuery /\ req' = [[ran EXCEPT ![r].q = f] EXCEPT ![r].regens = @ + 1]
      BY <1>7 DEF ExecutorFails, Attempted
    <2> QED
      BY <1>3, <1>4, <2>1, <2>2, <2>3, <2>4, <2>5
  <1> QED
    BY <1>5, <1>6, <1>7

\* What is tried when a query returned no rows is scoped too.
LEMMA RetryCarries ==
  ASSUME ScopeInvariant, NEW r \in Requests,
         FixDirections(r) \/ Hint(r) \/ DirectRuns(r) \/ DirectFails(r) \/ Verify(r)
  PROVE  Carries(req'[r])
  <1>1. /\ DOMAIN req[r] = FieldsOfRequest /\ req = [q \in Requests |-> req[q]]
        /\ Carries(req[r]) /\ req[r].fetch = "no"
    BY RequestsCarry DEF FixDirections, Hint, DirectRuns, DirectFails, Verify, At, Carries, Reading
  <1>2. req[r].text \in Versions
    BY <1>1 DEF FixDirections, Hint, DirectRuns, DirectFails, Verify, At, Carries, Informed, Reading
  <1>3. \A f \in Generated : IsScoped(Norm(r, f))
    BY <1>2, NormScopes, StructuredAssumption
  <1>4. CASE FixDirections(r)
    <2>1. At(r, "directions") /\ IsScoped(req[r].q) /\ req[r].path = "query"
      BY <1>1, <1>4 DEF FixDirections, At, Carries, Informed, Reading
    <2>2. PICK d : d = Directed(req[r].q, Schema(r))
      OBVIOUS
    <2>3. IsScoped(d)
      <3>1. Schema(r) \in Seq(ToSet(Schema(r)))
        BY <1>2, StructuredAssumption DEF Schema, Versions, ToSet
      <3>2. SameNodes(d, req[r].q)
        BY <2>1, <2>2, <3>1, DirectingKeepsNodes DEF IsScoped
      <3>3. MultiTenancy => UnscopedVars(d) = {}
        BY <2>1, <2>2, <3>1, DirectingScopes DEF IsScoped
      <3> QED
        BY <3>2, <3>3 DEF SameNodes, IsScoped
    <2>4. CASE req' = [req EXCEPT ![r].at = "direct", ![r].tried = d, ![r].tries = 0]
      BY <1>1, <1>2, <2>1, <2>3, <2>4 DEF Carries, FieldsOfRequest, Informed, Reading, IsScoped, At
    <2>5. CASE req' = [req EXCEPT ![r].at = "hints"]
      BY <1>1, <1>2, <2>1, <2>5 DEF Carries, FieldsOfRequest, Informed, Reading, IsScoped, At
    <2> QED
      BY <1>4, <2>2, <2>4, <2>5 DEF FixDirections, Tries
  <1>5. CASE Hint(r)
    <2>0. At(r, "hints") /\ IsQuery(req[r].q) /\ req[r].path = "query"
      BY <1>1, <1>5 DEF Hint, At, Carries, Informed, Reading
    <2>1. CASE To(r, "verify")
      BY <1>1, <1>2, <2>1 DEF To, Carries, FieldsOfRequest, Informed, Reading
    <2>2. CASE req' = [req EXCEPT ![r].hint = @ + 1]
      BY <1>1, <1>2, <2>0, <2>2 DEF At, Carries, FieldsOfRequest, Informed, Reading
    <2>3. ASSUME NEW n, IsScoped(n), req' = [Tries(r, n) EXCEPT ![r].hint = @ + 1] PROVE Carries(req'[r])
      BY <1>1, <1>2, <2>0, <2>3 DEF At, Tries, Carries, FieldsOfRequest, Informed, Reading
    <2>4. \/ To(r, "verify")
          \/ req' = [req EXCEPT ![r].hint = @ + 1]
          \/ \E f \in Generated : req' = [Tries(r, Norm(r, f)) EXCEPT ![r].hint = @ + 1]
      BY <1>5 DEF Hint, Replies
    <2> QED
      BY <1>3, <2>1, <2>2, <2>3, <2>4
  <1>6. CASE DirectRuns(r)
    <2>0. At(r, "direct") /\ IsQuery(req[r].q) /\ IsQuery(req[r].tried) /\ req[r].path = "query"
      BY <1>1, <1>6 DEF DirectRuns, At, Carries, IsScoped
    <2>1. PICK rows : req' = [req EXCEPT ![r].at = "hints", ![r].rows = rows,
                                ![r].q = IF rows # "none" \/ req[r].hint > 0 THEN req[r].tried ELSE @,
                                ![r].tried = NoQuery, ![r].tries = 0]
      BY <1>6 DEF DirectRuns
    <2>2. PICK q : IsQuery(q) /\ req' = [req EXCEPT ![r].at = "hints", ![r].rows = rows, ![r].q = q,
                                ![r].tried = NoQuery, ![r].tries = 0]
      BY <2>0, <2>1
    <2> QED
      BY <1>1, <1>2, <2>0, <2>2 DEF At, Carries, FieldsOfRequest, Informed, Reading
  <1>7. CASE DirectFails(r)
    <2>0. At(r, "direct") /\ IsQuery(req[r].q) /\ IsScoped(req[r].tried) /\ req[r].path = "query"
      BY <1>1, <1>7 DEF DirectFails, At, Carries, Informed, Reading
    <2>1. CASE req' = [req EXCEPT ![r].at = "hints", ![r].tried = NoQuery, ![r].tries = 0]
      BY <1>1, <1>2, <2>0, <2>1 DEF At, Carries, FieldsOfRequest, Informed, Reading
    <2>2. ASSUME NEW n, IsScoped(n), req' = [req EXCEPT ![r].tried = n, ![r].tries = 1] PROVE Carries(req'[r])
      BY <1>1, <1>2, <2>0, <2>2 DEF At, Carries, FieldsOfRequest, Informed, Reading
    <2>3. IsScoped(Norm(r, req[r].tried))
      BY <1>2, <2>0, NormScopes DEF IsScoped
    <2>4. \/ req' = [req EXCEPT ![r].at = "hints", ![r].tried = NoQuery, ![r].tries = 0]
          \/ req' = [req EXCEPT ![r].tried = Norm(r, req[r].tried), ![r].tries = 1]
          \/ \E f \in Generated : req' = [req EXCEPT ![r].tried = Norm(r, f), ![r].tries = 1]
      BY <1>7 DEF DirectFails, Replies
    <2> QED
      BY <1>3, <2>1, <2>2, <2>3, <2>4
  <1>8. CASE Verify(r)
    <2>1. CASE Ends(r, "rows") \/ Ends(r, "no_such_data")
      BY <1>1, <2>1 DEF Ends, Carries, FieldsOfRequest, Informed, Reading
    <2>2. CASE req' = [req EXCEPT ![r].at = IF EmptyFallback THEN "plan" ELSE "answer", ![r].path = "fallback"]
      BY <1>1, <1>2, <2>2, ZenonT(60) DEF Carries, FieldsOfRequest, Informed, Reading
    <2> QED
      BY <1>8, <2>1, <2>2 DEF Verify
  <1> QED
    BY <1>4, <1>5, <1>6, <1>7, <1>8

\* The steps of a plan are repaired before they run, and again when they fail.
LEMMA PlanCarries ==
  ASSUME ScopeInvariant, NEW r \in Requests, RunPlan(r) \/ Answer(r)
  PROVE  Carries(req'[r])
  <1>1. /\ DOMAIN req[r] = FieldsOfRequest /\ req = [q \in Requests |-> req[q]]
        /\ Carries(req[r]) /\ req[r].fetch = "no"
    BY RequestsCarry DEF RunPlan, Plan, PrepareStep, StepRuns, StepRetries, Answer, At, Carries, Reading
  <1>2. CASE Plan(r)
    <2>0. At(r, "plan") /\ req[r].text \in Versions
      BY <1>1, <1>2 DEF Plan, At, Carries, Informed, Reading
    <2>1. ASSUME NEW p \in Plans, req' = [req EXCEPT ![r].at = "access", ![r].plan = p] PROVE Carries(req'[r])
      <3>1. p \in Seq(Generated) /\ p # <<>>
        <4>1. p \in Seq(Generated) /\ Len(p) \in 1..4
          BY StructuredAssumption
        <4>2. Len(p) # 0
          BY <4>1
        <4> QED
          BY <4>1, <4>2
      <3> QED
        BY <1>1, <2>0, <2>1, <3>1 DEF At, Carries, FieldsOfRequest, Informed, Reading, OnPlan
    <2>2. CASE req' = [req EXCEPT ![r].at = "access", ![r].path = "query"]
      BY <1>1, <2>0, <2>2 DEF At, Carries, FieldsOfRequest, Informed, Reading
    <2>3. CASE To(r, "answer")
      BY <1>1, <2>3 DEF To, Carries, FieldsOfRequest, Informed, Reading
    <2> QED
      BY <1>2, <2>1, <2>2, <2>3 DEF Plan
  <1>3. CASE PrepareStep(r)
    <2>0. At(r, "prepare") /\ req[r].text \in Versions /\ OnPlan(req[r])
      BY <1>1, <1>3 DEF PrepareStep, At, Carries, Informed, Reading
    <2>1. \A q : IsQuery(q) => IsScoped(Norm(r, q))
      BY <2>0, NormScopes
    <2>2. PICK d : /\ req' = [req EXCEPT ![r].at = "step", ![r].q = d, ![r].tries = 0]
                   /\ \/ d = Norm(r, Head(req[r].plan))
                      \/ d = Norm(r, Norm(r, Head(req[r].plan)))
                      \/ \E f \in Generated : d = Norm(r, f)
      BY <1>3 DEF PrepareStep, Replies
    <2>3. IsScoped(d)
      <3>1. Head(req[r].plan) \in Generated
        BY <2>0 DEF OnPlan
      <3> QED
        BY <2>1, <2>2, <3>1, StructuredAssumption DEF IsScoped
    <2> QED
      BY <1>1, <2>0, <2>2, <2>3 DEF At, Carries, FieldsOfRequest, Informed, Reading, OnPlan
  <1>4. CASE StepRuns(r)
    <2>0. At(r, "step") /\ req[r].text \in Versions /\ OnPlan(req[r])
      BY <1>1, <1>4 DEF StepRuns, At, Carries, Informed, Reading
    <2>1. PICK rows : req' = [req EXCEPT ![r].plan = Tail(@), ![r].found = @ \/ rows # "none", ![r].rows = rows,
                                ![r].at = IF Len(req[r].plan) = 1 THEN "answer" ELSE "prepare",
                                ![r].result = IF Len(req[r].plan) = 1 THEN "rows" ELSE @]
      BY <1>4 DEF StepRuns
    <2>2. Tail(req[r].plan) \in Seq(Generated) /\ (Len(req[r].plan) # 1 => Tail(req[r].plan) # <<>>)
      <3>1. ASSUME NEW s \in Seq(Generated), s # <<>>
            PROVE  Tail(s) \in Seq(Generated) /\ (Len(s) # 1 => Tail(s) # <<>>)
        <4>1. Len(s) \in Nat \ {0}
          BY <3>1
        <4>2. Tail(s) \in Seq(Generated) /\ Len(Tail(s)) = Len(s) - 1
          BY <3>1, <4>1
        <4> QED
          BY <4>1, <4>2
      <3> QED
        BY <2>0, <3>1 DEF OnPlan
    <2>3. /\ req'[r].plan = Tail(req[r].plan) /\ req'[r].fetch = req[r].fetch /\ req'[r].rels = req[r].rels
          /\ req'[r].text = req[r].text
          /\ req'[r].at = IF Len(req[r].plan) = 1 THEN "answer" ELSE "prepare"
      BY <1>1, <2>1 DEF FieldsOfRequest
    <2> QED
      BY <1>1, <2>0, <2>2, <2>3 DEF Carries, Informed, Reading, OnPlan
  <1>5. CASE StepRetries(r)
    <2>0. At(r, "step") /\ req[r].text \in Versions /\ OnPlan(req[r]) /\ IsQuery(req[r].q)
      BY <1>1, <1>5 DEF StepRetries, At, Carries, Informed, Reading, IsScoped
    <2>1. CASE req' = [req EXCEPT ![r].at = "answer", ![r].result = "step_error"]
      BY <1>1, <2>1 DEF Carries, FieldsOfRequest, Informed, Reading
    <2>2. ASSUME NEW n, IsScoped(n), req' = [req EXCEPT ![r].q = n, ![r].tries = @ + 1] PROVE Carries(req'[r])
      BY <1>1, <2>0, <2>2 DEF At, Carries, FieldsOfRequest, Informed, Reading, OnPlan
    <2>3. IsScoped(Norm(r, req[r].q)) /\ \A f \in Generated : IsScoped(Norm(r, f))
      BY <2>0, NormScopes, StructuredAssumption
    <2>4. \/ req' = [req EXCEPT ![r].at = "answer", ![r].result = "step_error"]
          \/ req' = [req EXCEPT ![r].q = Norm(r, req[r].q), ![r].tries = @ + 1]
          \/ \E f \in Generated : req' = [req EXCEPT ![r].q = Norm(r, f), ![r].tries = @ + 1]
      BY <1>5 DEF StepRetries, Replies
    <2> QED
      BY <2>1, <2>2, <2>3, <2>4
  <1>6. CASE Answer(r)
    <2>1. PICK y : req' = [req EXCEPT ![r] = y] /\ y.at = "ended" /\ y.fetch = "no"
      <3> DEFINE low(verdict) == CASE req[r].result \in {"clarification", "schema"} -> FALSE
                                 [] req[r].result = "none" -> ~req[r].question.counts
                                 [] req[r].result \in {"denied", "error"} -> TRUE
                                 [] OTHER -> Doubtful(r) \/ verdict
                 ended(verdict) == [Fresh EXCEPT !.at = "ended", !.question = req[r].question,
                                               !.result = req[r].result, !.low = low(verdict)]
      <3>1. PICK verdict \in BOOLEAN : req' = [req EXCEPT ![r] = ended(verdict)]
        BY <1>6, Zenon DEF Answer
      <3> HIDE DEF low
      <3>2. ended(verdict).at = "ended" /\ ended(verdict).fetch = "no"
        BY DEF Fresh
      <3> QED
        BY <3>1, <3>2
    <2> QED
      BY <1>1, <2>1 DEF Carries, Informed, Reading
  <1> QED
    BY <1>2, <1>3, <1>4, <1>5, <1>6 DEF RunPlan

\* Reading the schema: the request has the text before it goes on to a query.
LEMMA KeptCarries ==
  ASSUME ScopeInvariant, NEW r \in Requests, req[r].at \in Reading, NEW value,
         req[r].at \in {"text", "prompt"} => value \in Versions,
         NEW kept, kept = Kept(r, value)
  PROVE  /\ kept = [q \in Requests |-> IF q = r THEN kept[r] ELSE req[q]]
         /\ DOMAIN kept[r] = FieldsOfRequest
         /\ Carries([kept[r] EXCEPT !.fetch = "no"])
         /\ req[r].fetch = "no" => Carries(kept[r])
  <1>1. /\ DOMAIN req[r] = FieldsOfRequest /\ req = [q \in Requests |-> req[q]]
        /\ Carries(req[r])
    BY RequestsCarry
  <1>2. PICK field, at, result :
           /\ kept = IF At(r, "numeric")
                     THEN [req EXCEPT ![r].at = at, ![r].result = result]
                     ELSE [req EXCEPT ![r].at = at, ![r][field] = value, ![r].fetch = "no", ![r].result = result]
           /\ field = FieldAt[req[r].at] /\ at \in {After(r), "answer"}
    <2>1. CASE At(r, "numeric")
      <3>1. \/ kept = [req EXCEPT ![r].at = "answer", ![r].result = "clarification"]
            \/ kept = [req EXCEPT ![r].at = After(r)]
        BY <2>1 DEF Kept
      <3>2. CASE kept = [req EXCEPT ![r].at = After(r)]
        <4>1. kept = [req EXCEPT ![r].at = After(r), ![r].result = req[r].result]
          BY <1>1, <3>2 DEF FieldsOfRequest
        <4> QED
          BY <2>1, <4>1
      <3> QED
        BY <2>1, <3>1, <3>2
    <2>2. CASE ~At(r, "numeric")
      BY <2>2 DEF Kept
    <2> QED
      BY <2>1, <2>2
  <1>3. CASE At(r, "numeric")
    <2>1. at \in {"text", "answer"}
      BY <1>2, <1>3 DEF After, At
    <2>2. kept = [req EXCEPT ![r].at = at, ![r].result = result]
      BY <1>2, <1>3
    <2> QED
      BY <1>1, <2>1, <2>2 DEF Carries, FieldsOfRequest, Informed, Reading
  <1>4. CASE At(r, "text")
    <2>1. at \in {"route", "answer"} /\ field = "text" /\ value \in Versions
      BY <1>2, <1>4 DEF After, At, FieldAt
    <2>2. kept = [req EXCEPT ![r].at = at, ![r].text = value, ![r].fetch = "no", ![r].result = result]
      BY <1>2, <1>4, <2>1 DEF At
    <2> QED
      BY <1>1, <2>1, <2>2 DEF Carries, FieldsOfRequest, Informed, Reading
  <1>5. CASE At(r, "prompt")
    <2>1. /\ at = "answer" \/ at = IF req[r].path = "query" THEN "generate" ELSE "labels"
          /\ field = "text" /\ value \in Versions
      BY <1>2, <1>5 DEF After, At, FieldAt
    <2>2. kept = [req EXCEPT ![r].at = at, ![r].text = value, ![r].fetch = "no", ![r].result = result]
      BY <1>2, <1>5, <2>1 DEF At
    <2>3. /\ kept[r].at = at /\ kept[r].text = value /\ kept[r].fetch = "no" /\ kept[r].path = req[r].path
          /\ kept[r].plan = req[r].plan /\ DOMAIN kept[r] = FieldsOfRequest
          /\ kept = [q \in Requests |-> IF q = r THEN kept[r] ELSE req[q]]
      BY <1>1, <2>2 DEF FieldsOfRequest
    <2>4. Carries(kept[r])
      BY <1>1, <1>5, <2>1, <2>3 DEF At, Carries, Informed, Reading, OnPlan
    <2>z. PICK z : z = [kept[r] EXCEPT !.fetch = "no"]
      OBVIOUS
    <2>5. /\ z.at = at /\ z.text = value /\ z.fetch = "no" /\ z.path = req[r].path /\ z.plan = req[r].plan
      BY <2>3, <2>z DEF FieldsOfRequest
    <2>6. Carries(z)
      BY <1>1, <1>5, <2>1, <2>5 DEF At, Carries, Informed, Reading, OnPlan
    <2> QED
      BY <2>3, <2>4, <2>6, <2>z
  <1>6. CASE At(r, "labels") \/ At(r, "props")
    <2>1. /\ at \in {"props", "answer", "precheck", "prepare"} /\ field \in {"labels", "props"}
          /\ (at = "precheck" => req[r].path = "query") /\ (at = "prepare" => req[r].path # "query")
      BY <1>2, <1>6 DEF After, At, FieldAt
    <2>2. kept = [req EXCEPT ![r].at = at, ![r][field] = value, ![r].fetch = "no", ![r].result = result]
      BY <1>2, <1>6 DEF At
    <2>3. /\ kept[r].at = at /\ kept[r].text = req[r].text /\ kept[r].fetch = "no" /\ kept[r].path = req[r].path
          /\ kept[r].plan = req[r].plan /\ kept[r].q = req[r].q /\ DOMAIN kept[r] = FieldsOfRequest
          /\ kept = [q \in Requests |-> IF q = r THEN kept[r] ELSE req[q]]
      BY <1>1, <2>1, <2>2 DEF FieldsOfRequest
    <2>4. Carries(kept[r])
      BY <1>1, <1>6, <2>1, <2>3 DEF At, Carries, Informed, Reading, OnPlan
    <2>z. PICK z : z = [kept[r] EXCEPT !.fetch = "no"]
      OBVIOUS
    <2>5. /\ z.at = at /\ z.text = req[r].text /\ z.fetch = "no" /\ z.path = req[r].path
          /\ z.plan = req[r].plan /\ z.q = req[r].q
      BY <2>3, <2>z DEF FieldsOfRequest
    <2>6. Carries(z)
      BY <1>1, <1>6, <2>1, <2>5 DEF At, Carries, Informed, Reading, OnPlan
    <2> QED
      BY <2>3, <2>4, <2>6, <2>z
  <1> QED
    BY <1>3, <1>4, <1>5, <1>6 DEF Reading, At

\* The way through the schema cache, when it holds the field.
LEMMA ReadCarries ==
  ASSUME ScopeInvariant, NEW r \in Requests, ReadCache(r)
  PROVE  ScopeInvariant'
  <1>1. PICK value : /\ value = cache[FieldAt[req[r].at]]
                     /\ req' = Kept(r, value) /\ req[r].fetch = "no" /\ req[r].at \in Reading
                     /\ req[r].at \in {"text", "prompt"} => Skips
                     /\ UNCHANGED <<graph, cache>>
    BY DEF ReadCache, Local, Unshared, FieldAt
  <1>2. req[r].at \in {"text", "prompt"} => value \in Versions
    BY <1>1 DEF ScopeInvariant, Skips, FieldAt
  <1>3. Carries(req'[r])
    BY <1>1, <1>2, KeptCarries
  <1>4. GoesOn(r)
    BY <1>1, KeptGoesOn DEF ScopeInvariant
  <1> QED
    BY <1>1, <1>3, <1>4, GoingOnCarries DEF ScopeInvariant

\* The introspection reads a version of the graph, and stores what it read.
LEMMA FetchCarries ==
  ASSUME ScopeInvariant, NEW r \in Requests,
         FetchNodes(r) \/ StoreLabels(r) \/ FetchPatterns(r) \/ StoreProperties(r) \/ FetchFails(r)
  PROVE  ScopeInvariant'
  <1>1. /\ DOMAIN req[r] = FieldsOfRequest /\ req = [q \in Requests |-> req[q]]
        /\ Carries(req[r])
    BY RequestsCarry
  <1>2. /\ req' = [q \in Requests |-> IF q = r THEN req'[r] ELSE req[q]]
        /\ DOMAIN req'[r] = FieldsOfRequest
    BY <1>1 DEF FetchNodes, StoreLabels, FetchPatterns, StoreProperties, FetchFails, FieldsOfRequest
  <1>3. Carries(req'[r])
    <2>1. CASE FetchNodes(r)
      BY <1>1, <2>1 DEF FetchNodes, Carries, FieldsOfRequest, Informed, Reading, OnPlan
    <2>2. CASE StoreLabels(r)
      BY <1>1, <2>2 DEF StoreLabels, Carries, FieldsOfRequest, Informed, Reading, OnPlan
    <2>3. CASE FetchPatterns(r)
      BY <1>1, <2>3, ZenonT(60) DEF FetchPatterns, ScopeInvariant, Carries, FieldsOfRequest, Informed, Reading, OnPlan
    <2>4. CASE StoreProperties(r)
      BY <1>1, <2>4 DEF StoreProperties, Carries, FieldsOfRequest, Informed, Reading, OnPlan
    <2>5. CASE FetchFails(r)
      BY <1>1, <2>5 DEF FetchFails, Carries, FieldsOfRequest, Informed, Reading
    <2> QED
      BY <2>1, <2>2, <2>3, <2>4, <2>5
  <1>4. Shaped' /\ \A q \in Requests : Carries(req'[q])
    BY <1>2, <1>3 DEF ScopeInvariant, Shaped
  <1>5. graph' = graph /\ cache' = [f \in Fields |-> cache'[f]] /\ cache'["text"] = cache["text"]
    BY DEF ScopeInvariant, FetchNodes, StoreLabels, FetchPatterns, StoreProperties, FetchFails,
           Local, Unshared, Fields
  <1> QED
    BY <1>4, <1>5 DEF ScopeInvariant

\* The text of the schema is stored and the request goes on with it.
LEMMA StoreTextCarries ==
  ASSUME ScopeInvariant, NEW r \in Requests, StoreText(r)
  PROVE  ScopeInvariant'
  <1>1. /\ DOMAIN req[r] = FieldsOfRequest /\ req = [q \in Requests |-> req[q]]
        /\ Carries(req[r])
    BY RequestsCarry
  <1>v. PICK value : value = IF FieldAt[req[r].at] = "text" THEN req[r].rels ELSE cache[FieldAt[req[r].at]]
    OBVIOUS
  <1>k. PICK kept : kept = Kept(r, value)
    OBVIOUS
  <1>2. /\ req[r].fetch = "text" /\ graph' = graph
        /\ cache' = [cache EXCEPT !["text"] = req[r].rels]
        /\ req' = [kept EXCEPT ![r].fetch = "no"]
    BY <1>v, <1>k DEF StoreText
  <1>3. req[r].rels \in Versions /\ req[r].at \in Reading
    BY <1>1, <1>2 DEF Carries
  <1>4. req[r].at \in {"text", "prompt"} => value \in Versions
    BY <1>3, <1>v DEF FieldAt
  <1>5. /\ kept = [q \in Requests |-> IF q = r THEN kept[r] ELSE req[q]]
        /\ DOMAIN kept[r] = FieldsOfRequest /\ Carries([kept[r] EXCEPT !.fetch = "no"])
    BY <1>3, <1>4, <1>k, KeptCarries
  <1>6. /\ req' = [q \in Requests |-> IF q = r THEN [kept[r] EXCEPT !.fetch = "no"] ELSE req[q]]
    BY <1>2, <1>5
  <1>7. Shaped' /\ \A q \in Requests : Carries(req'[q])
    BY <1>5, <1>6 DEF ScopeInvariant, Shaped
  <1>8. cache' = [f \in Fields |-> cache'[f]] /\ cache'["text"] = req[r].rels
    BY <1>2 DEF ScopeInvariant, Fields
  <1> QED
    BY <1>2, <1>3, <1>7, <1>8 DEF ScopeInvariant

\* Initially no request carries anything.
LEMMA ScopeInit == Init => ScopeInvariant
  <1> SUFFICES ASSUME Init PROVE ScopeInvariant
    OBVIOUS
  <1>1. PICK a \in Asked : /\ req = [r \in Requests |-> [Fresh EXCEPT !.question = a.questions[r]]]
                           /\ graph = a.graph
    BY DEF Init
  <1>2. graph \in Versions
    BY <1>1, StructuredAssumption DEF Versions
  <1>3. \A r \in Requests : DOMAIN req[r] = FieldsOfRequest /\ req[r].fetch = "no" /\ req[r].at = "new"
    BY <1>1 DEF Fresh, FieldsOfRequest
  <1>4. Shaped
    BY <1>1, <1>3 DEF Shaped
  <1>5. \A r \in Requests : Carries(req[r])
    BY <1>3 DEF Carries, Informed
  <1>6. cache = [f \in Fields |-> None]
    BY DEF Init
  <1> QED
    BY <1>2, <1>4, <1>5, <1>6 DEF ScopeInvariant, Fields

\* Every step keeps what the requests carry in order.
LEMMA ScopeStep ==
  ASSUME ScopeInvariant, [Next]_vars
  PROVE  ScopeInvariant'
  <1>1. Shaped
    BY DEF ScopeInvariant
  <1>2. CASE GraphChanges
    <2>1. graph' \in Versions /\ UNCHANGED <<cache, req>>
      BY <1>2, StructuredAssumption DEF GraphChanges, ScopeInvariant, Versions
    <2> QED
      BY <2>1 DEF ScopeInvariant, Shaped
  <1>3. CASE ClearCache
    <2>1. cache' = [f \in Fields |-> None] /\ UNCHANGED <<graph, req>>
      BY <1>3 DEF ClearCache, Emptied
    <2> QED
      BY <2>1 DEF ScopeInvariant, Shaped, Fields
  <1>4. ASSUME NEW r \in Requests,
               Ask(r) \/ Route(r) \/ CheckAccess(r) \/ RunQuery(r) \/ RunPlan(r) \/ Answer(r)
        PROVE  ScopeInvariant'
    <2>1. GoesOn(r)
      BY <1>1, <1>4, WayGoesOn, ExecutorGoesOn, RetryGoesOn, PlanGoesOn DEF RunQuery
    <2>2. Carries(req'[r])
      BY <1>4, WayCarries, ExecutorCarries, RetryCarries, PlanCarries DEF RunQuery
    <2>3. UNCHANGED <<graph, cache>>
      BY <1>4 DEF Ask, Route, CheckAccess, RunQuery, RunPlan, Answer, Generate, Precheck,
                  ExecutorRefuses, ExecutorRuns, ExecutorFails, FixDirections, Hint, DirectRuns,
                  DirectFails, Verify, Plan, PrepareStep, StepRuns, StepRetries, Local, Unshared
    <2> QED
      BY <2>1, <2>2, <2>3, GoingOnCarries DEF ScopeInvariant
  <1>5. CASE UNCHANGED vars
    BY <1>5 DEF vars, ScopeInvariant, Shaped
  <1> QED
    BY <1>2, <1>3, <1>4, <1>5, ReadCarries, FetchCarries, StoreTextCarries DEF Next, Step, ReadSchema

\* Every query that reaches the graph names the tenant on every node that
\* needs it, whichever of the places ran it: the executor, which refuses a
\* query without its filters, and the direction fix, the hints and the steps
\* of a plan, which run what the repairs returned without another check.
THEOREM QueriesAreScoped == Spec => []ExecutedQueriesAreScoped
  <1>1. ASSUME ScopeInvariant PROVE ExecutedQueriesAreScoped
    <2> SUFFICES ASSUME NEW r \in Requests, NEW q, MultiTenancy, Runs(r, q)
                 PROVE  UnscopedVars(q) = {}
      BY DEF ExecutedQueriesAreScoped
    <2>1. Carries(req[r])
      BY <1>1 DEF ScopeInvariant
    <2>2. CASE At(r, "execute") /\ q = req[r].q /\ ~Issue(r, q)
      BY <2>2 DEF Issue, HasIssue, SqlIssue
    <2>3. CASE At(r, "direct") /\ q = req[r].tried
      BY <2>1, <2>3 DEF At, Carries, IsScoped
    <2>4. CASE At(r, "step") /\ q = req[r].q
      BY <2>1, <2>4 DEF At, Carries, IsScoped
    <2> QED
      BY <2>2, <2>3, <2>4 DEF Runs
  <1>2. ScopeInvariant /\ [Next]_vars => ScopeInvariant'
    BY ScopeStep
  <1> QED
    BY <1>1, <1>2, ScopeInit, PTL DEF Spec
=============================================================================
