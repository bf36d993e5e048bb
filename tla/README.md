# Verification of agentic_graph_rag

TLA+ modules, TLC configurations and TLAPS proofs for the document-graph RAG
system in this repository. Paths below are relative to the repository root.

## The system and its parts

An upload goes through the API (`src/interface`) to the ingestion manager
(`src/unstructured/ingestion/service.py`), which stores a job record
(`src/pipeline/ingestion/job_store.py`) and hands the job to RQ, or to a
background task when there is no Redis. A worker parses the file, builds the
structural axis and the semantic axis of its graph, and the Neo4j exporter
installs the result as a revision of a logical document, writing text to a blob
store and embeddings to a vector store. Questions are routed to a structured
path (Text-to-Cypher with validation, repair and tenant filters), an
unstructured path (hybrid retrieval with a list of strategies) or both; answers
are streamed, and telemetry, feedback, audit events and conversation threads
are recorded beside them.

| Component | State it keeps | Operations | Interacts through | What is hard | What makes it correct |
|---|---|---|---|---|---|
| Ingestion manager | job records, temporary inputs | submit, run_job, corpus fan-out, cypher scripts | job store, RQ, exporter | workers interleave, die, are retried; locks expire | every job ends; a success is an installed revision |
| Revision installer | DocumentLogical, DocRevision, content nodes | next_version_number, load_to_neo4j, install transaction | Neo4j, blob and vector store | stale version numbers, dual writes in an abortable transaction | one ACTIVE revision, numbered 1..n, stored, immutable |
| Purge and delete | nothing of its own | purge_revision, delete_document | all three stores | each store may fail, installs run beside it | nothing left of a deleted document; nothing live taken |
| Storage sweep | nothing of its own | live/blob/vector listings, purge | all three stores | lists are stale when used | takes only what nobody serves |
| Job store | job records, logs, index | save, get, append_log, list_ids, delete | API, workers | Redis and in-memory versions differ; index is trimmed; records are converted to dicts and back | a job that finished stays so; listings are recent; ownership of files survives |
| Conversation memory | an ordered dictionary of last turns | get_turn, save_turn, clear_turn | all request threads, without a lock | other threads between two dictionary operations | bounded; the turn a question was understood by is kept until its answer |
| Routing and handlers | pool threads with a telemetry object each | gate, dispatch, fall back, enforce the mode | both agents, conversation memory, audit | chains of fallbacks, pools that wait for pools | the chosen and permitted source answers; every request ends |
| Query streaming | one generator per request | stream, reroute, fail, disconnect | agents, conversation memory | reroutes and errors in mid-stream | a stream tells one story and ends in one final event |
| Feedback, audit | events, labels, aggregates, one hint cache per process | record, attach_outcome, aggregate, rank, look up a hint | request handlers, one recorder thread per process, Redis or JSONL files | two labels at once, rows in files of days, keys that expire, a cache beside growing counters | no label counts twice or goes astray; a hint is no older than the cache says |
| Text-to-Cypher | schema cache, attempts of a request | generate, repair, inject tenant, check, execute, retry, plan steps | LLM, Neo4j, jobs that clear the cache | loops of repairs that may undo each other, a cache filled by several requests | every executed query is filtered by tenant; every question ends |
| Unstructured retrieval | per-question state, name index, scope cache, term statistics, verdicts per thread | gate, resolve document, channels, merge, rerank, pin, expand, count | Neo4j, vector store, corpus changes | caps, ties, fallbacks, caches older than the corpus | the evidence is of the scope; the named document wins |
| Parsing and structural axis | document IR, nodes, CONTAINS edges, heading stack, number map | extract page by page, headings or outline, boxes, pages, regions, numbered parents | files, two PDF readers, OCR | running headers, merged headings, broken outlines, readers that fail | sections read like the document, chapters follow one another |
| Semantic axis | embeddings, entities, four kinds of edge, summaries | batches in a pool of threads, splits, merge, link, judge pairs, summarise | LLM, embedding model | threads finish in any order, answers are cut off, rate limits | nothing lost in a merge; edges specific and few |

## Modules

| Module | Models |
|---|---|
| `DocumentIngestion` | the unstructured ingestion job, RQ, the Redis lock, the install transaction, the three stores, and their failures |
| `RevisionHistory` | the abstract promise to readers: per document an append-only history whose last entry is served |
| `IngestionRefinement` | the refinement mapping from `DocumentIngestion` to `RevisionHistory` |
| `DocumentLifecycle` | `DocumentIngestion` with `delete_document` and `scripts/gc_orphaned_storage.py` running beside the jobs |
| `JobStore` | the in-memory and the Redis job store: save, get, listings, the conversion of records |
| `IngestionJobs` | the three kinds of job from submission to final record: API process, RQ workers, corpus fan-out, Cypher scripts |
| `ThreadMemory` | the conversation memory, one action per dictionary operation |
| `QuestionAnswering` | questions from arrival to answer over `ThreadMemory`: pools, gate, agents, streams, reroutes, fallbacks, telemetry, failures |
| `CypherQuery` | a generated query as a path with its reads and slips; the repairs, the tenant filters and the checks as operators on it |
| `StructuredRetrieval` | questions to the business graph: schema cache, single queries, retries, hints, plans |
| `FeedbackLoop` | answers recorded, labels attached, hints computed and cached, over several API processes |
| `DocumentPages` | a page from the PDF readers to the intermediate representation: blocks, repeated headers, merged headings, page labels |
| `DocumentStructure` | the structural axis: sections from headings or outline, boxes, pages, regions, numbered parents |
| `EntityLinks` | canonical entities, informative entities, edges under a cap on degrees |
| `SemanticLinks` | the semantic axis: embedding, entity batches in threads, linking, judging, summaries |
| `EvidenceChannels` | the channels evidence is fetched from: seeds, full text, scope, quantity, structure, and what each may return |
| `EvidenceRanking` | merge, fusion by rank, pins, parts of units, caps |
| `DocumentScope` | the names of documents, the documents of the nearest text, word statistics, the resolver's tiers |
| `DocumentRetrieval` | questions answered from documents while the corpus changes |
| `IngestionClaims` | statements of comments and docstrings about ingestion that the code does not keep |
| `DocumentIngestion_proofs`, `DocumentLifecycle_proofs`, `IngestionJobs_proofs`, `QuestionAnswering_proofs`, `StructuredRetrieval_proofs`, `DocumentRetrieval_proofs`, `FeedbackLoop_proofs`, `SemanticLinks_proofs` | the proofs |
| `MCIngestion`, `MCClaims`, `MCLifecycle`, `MCJobs`, `MCQuestions`, `MCStructured`, `MCFeedback`, `MCStructure`, `MCSemantic`, `MCRetrieval` | the instances for TLC |

Composition: `RevisionHistory` is implemented by `DocumentIngestion`, which
`DocumentLifecycle` extends. `IngestionJobs` stands over `JobStore` and takes a
document job as one step, the step whose inside `DocumentIngestion` is about.
`QuestionAnswering` stands over `ThreadMemory` and takes each agent as one step;
`StructuredRetrieval` (over `CypherQuery`) and `DocumentRetrieval` (over
`DocumentScope`, `EvidenceRanking` and `EvidenceChannels`) are the insides of those
two steps. `DocumentStructure` (over `DocumentPages`) and `SemanticLinks` (over
`EntityLinks`) are what happens between `parse` and `plan` of a document job.

### DocumentIngestion: state and actions

`pc[j]` is the place of job `j`'s worker in `run_job` and `_process_unstructured`:
`queued` (in RQ), `rbac` (`_ensure_rbac_schema`, outside the try block), `parse`
(logical id by content), `check` (duplicate check without the lock), `plan`
(`next_version_number`), `snapshot` (X1, X2, page report), `lock` (`_doc_lock`),
`load` (duplicate check of `load_to_neo4j`), `begin`/`dual`/`commit` (the install
transaction), `purge`, `source`, `finish`. `job[j]` is the saved `IngestionJob`,
`superseded[j]` the worker's local result of the transaction. `dl`, `rev`,
`hasRev`, `activeRev` and `nodes` are the graph, `tx[d]` the write lock that the
transaction's first MERGE takes on the DocumentLogical node, `lock` the Redis lock,
`blob` and `vector` the stores. A text, a snapshot or an embedding is represented
by the hash of the file it was derived from; that is what tells a right one from
a wrong one. One action stands for one handler step between two calls of an
outside service, with everything it assigns.

Faults are counted and bounded by `MaxFaults`: a store call fails
(`PurgeRevision`, `WriteSnapshots`, `PersistSourceFile`), a transaction aborts, is
run again by the driver or commits without the driver hearing of it, a worker or
the API process dies at any point (`ProcessDies`: the transaction rolls back, the
Redis lock waits for its timeout, RQ queues the job again up to two times; without
RQ every job of the process is lost), a finished job is
delivered again, a queued job expires, the lock cannot be taken or expires under
its holder.

Left out: `AUTO_LOAD_TO_NEO4J=false` (nothing is installed), the content of
nodes, edges and reports, index creation, quota errors as a kind of their own
(`run_job` handles them like any other exception), wall-clock times.

### DocumentLifecycle

`del` is an admin's delete request: read the revisions, purge them one by one, delete the
revision and content nodes, delete the DocumentLogical node; each a step of its own,
because each is a separate call. `gc` is a run of the script with `--apply`: read the live
revisions, list both stores, purge orphans, clear vectors without blobs. `alone` is a
history variable that records whether a job ran beside the request, `overtaken` whether an
install of its document committed beside it, and `raced` the documents whose delete ended
so; the properties that promise completeness speak of requests that ran alone, and those
that hold in any case do not mention it.

### JobStore and IngestionJobs

`store` is the API process's job store; with Redis it is everyone's. A store has
a kind, a record per job and an index: the in-memory store appends an id once,
the Redis store pushes it at every save and trims. `Stored` is `job_to_dict`
followed by `job_from_dict`. `rq` is what RQ knows of a job, `runs[<<j, p>>]` an
execution of `run_job` for job `j` by process `p` (the API, or the work horse of
an RQ job): where it is (`start`, `process`, `scan`, `file`, `enqueue`, `inline`,
`statement`, `finish`), the loop index, its local copy of the job (`run_job`
never reads the record again), and the child it is handing out. `undispatched`
are jobs that a request has stored and not dispatched, `disk` the input files,
`active` the content each logical document serves, `applied` how often a
statement of a script took effect.

A request stores its job in one step and dispatches it in another: to RQ, or to
a background task when there is none or the enqueue failed, which may
include that it took effect and its answer was lost. A corpus job checks, stores
and hands out one file after the other, runs children itself when they cannot be
queued, and saves its record every `SaveEvery` files. Workers die and are retried
up to `MaxRetries`, a finished job is delivered again, the API restarts and
forgets an in-memory store, `_ensure_rbac_schema` fails outside the try block (and
takes a corpus job with it whose child it was), `get_job_store` falls back to
memory while RQ is reachable.

Left out: one document job is a single step; TTL and deletion of records;
`DOC_SKIP_DUPLICATE_HASH=false`; failing calls to the job store; a kind of store
that changes at a restart; `doc_key` uploads (the stem decides the document).

### ThreadMemory and QuestionAnswering

`memory` and `newer` are the ordered dictionary of `thread_memory.py`: which
conversations it holds and, for each, which of them were used later. `turn[r]` is
the place of request `r` inside a call: `found` between the look-up and
`move_to_end` of `get_turn`; `stored` after the assignment of `save_turn`, `check`
before and `pop` after the size is read. CPython may switch threads between these
operations, and `move_to_end` raises `KeyError` when the entry has gone.

`pc[r]` is the place of a request: `queued` for the query pool, `resolve` and
`prior` (the two calls of `get_turn`), `gate` (the access check), `docs`, `data`,
`hybrid` (the handler or generator), `speak` (a stream has its answer and sends
it), `save` and `saveDenial` (`save_turn`), `route` (`run_via_mcp_tool` and
`enforce_mode`), `emit` (the final event), `rescue` (the document fallback of a
stream denied at the gate). `asked[r]` is the conversation and the question's
profile: blocking or streamed, the mode, the cues in its wording, and the
knowledge areas of the user's role. `run[r]` holds the local variables: tool,
pool thread, whether a turn was found, `mode_locked`, the result. A result is
told apart by the agent it names, the sources its text comes from, whether it
says access was denied, and whether `save_turn` keeps it. What retrieval finds
and models say is a free choice among the outcomes the code distinguishes (found,
weak, nothing, misrouted, denied). `parts` are the two tasks of a hybrid question,
`telemetry[p]` the requests whose steps the Telemetry object of pool thread `p`
holds, `events[r]` what a stream has sent.

Left out: status events, and all but one of the token events of an answer;
the timings in telemetry, and telemetry of streams (each `next()` of a streamed
generator runs in a copy of the context, so what `start_telemetry` set is not seen
by the next one); the order of an executor's queue; changes of roles (the code
caches access for the life of the process); what a turn contains and how
follow-ups are rewritten (whether a rewritten question looks misrouted is free);
API restarts, which only empty the memory.

### CypherQuery and StructuredRetrieval

A query is a record: `nodes` and `hops` of its path, `scoped` (the variables whose clause
names their `tenant_id`; the code takes any mention for a filter,
`tenant_injection.py:86`, and ANDs its own to a WHERE as it stands, :113, so that what a
WHERE with OR or a negation selects is not modelled), `reads`, the `slips` in its wording
that a repair removes, `idiom` (SQL that no repair removes), `dated`, `figure`, `takes`. A
schema is a sequence of triples. `Worded`, `Directed`, `PathRepaired` and `Injected` are
the repairs in the order of `normalize_generated_cypher`; `HasIssue` is the checks.

`graph` is the version of the business graph, `cache` the four fields of
`SchemaProvider` with the version each was read at, `access` the cached answer of
`StructuredRbac`. `req[r].at` is the place of a request: `route`, `plan`, `access`,
the places that read the schema (`numeric`, `text`, `prompt`, `labels`, `props`),
`generate`, `precheck`, `execute`, `directions`, `direct`, `hints`, `verify`,
`prepare`/`step` (a plan), `answer`. An introspection is four queries with the
cache's fields assigned in between (`fetch`), so other requests and `ClearCache` (a
job that ended) come between them. What the model writes is a choice from
`Generated`, at every call; `RowsOf` says what Neo4j returns for a query on a graph.

Left out: values and their types, the wording of prompts, the words that
`needs_clarification` and the router look for (the question's `shape`), timeouts.

### FeedbackLoop

Per process a recorder thread with its `queue`, the label it has read a request for
(`work`), a `backend` (Redis, or JSONL files when Redis did not answer at first
use), the JSONL store's `index`, the hint cache and the question being routed. `reqs`
and `agg` are the keys in Redis, which may expire (`RequestExpires`, and
`CountersExpire` for the counters of one pattern); `lines` are the JSONL rows of all
files. There is a file for each day of an answer, a label goes to the file of its
answer, and only the newest `RetainDays` files are read (`Kept`), to count and to find
a request. A label is attached in two steps with Redis (read the request; one
pipeline) and in one with JSONL, whose store holds a lock. A hint is looked up, computed
and cached in three steps, the time taken in the first. Only `Routers` are asked
questions, any process receives labels; `Policies` are what the policies of the
routing service look up, `Votes` what users may say of each answer. `from`, `labels`,
`attached`, `missed` and `known` are history variables (the days in `from` are in the
rows). Patterns are told apart by the agent in them only. Left out: the stream in Redis,
which only `recent_events` reads.

### DocumentPages and DocumentStructure

`doc` is the PDF with the parser that reads it, `pages` what has been extracted.
`ExtractPage` appends one page (with the fallback reader and OCR, each of which may
fail), `AssembleIR` finds repeated headers and merged headings over all pages. Then
either the outline is placed entry by entry or the blocks one by one: `nodes`,
`edges`, the heading `stack`, the current `chapter` and `section`, the counters and
`numbers` (number to node) are the fields of `_build_from_extracts`. Pages, regions
and numbered parents are linked at the end. A block is a record of what the code
tells apart (its form, number, table and veto flags, height, length). Left out: how
glyphs become blocks, search text, reference edges, the table-aware parser.

### EntityLinks and SemanticLinks

`phase` runs through `embed`, `ner`, `link`, `pairs`, `summaries`. Batches wait, are at
a thread, are finished or failed; a batch whose answer cannot be parsed is cut in
two by its own thread, and a rate limit ends the thread's work on it. The main thread
merges results in the order threads finish, which decides `types`. `Link` computes
the similarity, shared-entity and category edges under `DegreeCap`; pairs are then
judged by a second pool. What texts are alike and what a model may answer are
constants. Left out: the embedding batches, the wording of summaries.

`ByScore` is Python's stable `sorted`: a candidate goes in behind those that score as
much. `CapAssumption` says the caps are numbers, `SemanticAssumption` that texts and
answers are finite lists, every text is of a node, and closeness and the cutoff
`MaxDf` are numbers. `SharedEntitiesAreSpecific` speaks of names as the code has
resolved them (`Named`): two nodes that spell a name differently share it, and a name
is counted in all its spellings. An entity is displayed as `text (TYPE)` and read back
(`ReadType`, `BaseText`) by a rule that knows the eight types of `EntityTypes` only,
while a model may answer with any type, which is stored as it is. So a name is counted
over all types of the taxonomy, and one of another type ("GPE") is a name of its own: it
is counted apart, is never taken for a date or a phrase of the filing, and no cap on
entities of one type covers it. `MCSemantic` has such answers. `TaxonomyAssumption` says
the types left out (dates) are of the taxonomy and that "" is not.

### EvidenceChannels, EvidenceRanking, DocumentScope, DocumentRetrieval

A node is a record (document, tenant, language, kind, the words it says, what it
counts, its unit and its order). A channel is an operator from a question and a
corpus to an ordered list of hits. Scores keep their formulas, in thousandths; how
near a text is to a question is the constant `Similarity`.

`corpus` is the documents with an ACTIVE revision, `names` the index of names (built
once per process), `terms` the word statistics, `cache` the scope cache shared by
the threads, `verdict[t]` what thread `t` last noted of a vector scope (thread-local
in the code, and never reset). A request goes through the gate, then the tiers
`exact`, `named`, `thread`, `cached`, `vector`, `resolve`, each one read, then
`structure` or `fetch`, `count`, `generate`. `CorpusChanges` ingests or deletes a
document at any point; `TermsExpire` is the time to live of the statistics. The
vector store may be down.

Left out: stemming and the weights of word forms, the cross-encoder (a constant
order), the hydrator, image evidence, and the order among rows of equal score where
the database decides it (one order is taken).

## What the runs show

| Run | Instance | Shows |
|---|---|---|
| `ingest` | 2 jobs, 2 documents, 2 files, 1 tenant, 1 fault, RQ and Redis | the safety of `DocumentIngestion`, its inductive invariant, the implementation of `RevisionHistory`, every job ends |
| `lifecycle` | 2 jobs in the API process, 1 document, 1 delete, 1 sweep, 1 fault, no Redis | deletes and sweeps beside jobs that no lock keeps apart |
| `jobs` | 3 job ids, 2 requests, 1 retry, 1 fault, both deployment modes | the job API: who runs a job, what its record says, what a corpus job hands out, that all comes to rest |
| `questions` | 2 questions of 16 profiles, 2 pool threads, 2 conversations, a full memory, 1 clear, 1 fault | sources, access, telemetry, the shape of streams, the conversation memory |
| `questions_end` | 2 questions that wait for something, 1 conversation | every request ends |
| `structured` | 1 question alone all the way, or 2 that read the schema while the graph changes; 5 queries a model may write, 1 fault | tenant filters on everything that is executed, the schema cache, every question ends |
| `feedback` | 2 processes, 1 asked, 2 answers, 2 labels of one, 2 days of which 1 is read, 1 fault | every label is shown, waits, found no request or is in an old file; hints are no older than they say; queues drain |
| `construction` | up to 4 blocks of 9 kinds on 2 pages; all 3 pages of 6 kinds by both parsers, with failing readers; outlines of 5 entries on 3 pages | the structural axis |
| `semantic` | 5 nodes, 6 units, 2 threads for batches, 2 for pairs, 2 clusterings, one type outside the taxonomy, a cap of 1 entity of a type | the semantic axis |
| `retrieval` | 2 threads, 2 questions of 10 kinds, 3 documents in 2 languages, 9 nodes, 1 corpus change, a store that may be down | the scope of evidence, the named document, the scope cache, counting questions |
| `claim_concurrent` | 2 jobs | a refuted statement about concurrent uploads |
| `claim_seed_scope` | as `retrieval`, with Qdrant and one language | a refuted statement about the scope of evidence |

Bounds. Two jobs are enough for every race between two installs of a document. Two
documents are needed for content found under another logical id and for version
numbers mixed up between documents. `MaxVersion` is at least the number of installs
that jobs, retries and faults allow, so the bound never blocks `PlanRevision`. One
fault reaches every fault action. What must hold for any number of jobs and faults
is proved. Three jobs (a plan stale by two versions), two tenants and two faults
pass as well, with the constants of `MCIngestion` (`ThreeJobs`, `TwoTenants`), and
`lifecycle` passes with `UseRedis = TRUE`; these instances are too long to keep.

For the job API: a corpus needs two acceptable files for an order between a save
and a child, a third to be at `SaveEvery` in mid-corpus, and one more to exceed
`CORPUS_MAX_FILES`; three job ids are a corpus job with two children, or a corpus
job beside an upload of one of its files. `IndexMax` 3 is exceeded by the saves of
two jobs. One retry lets a dead worker's job start over and be given up.

For questions: two requests of one conversation, or of two, are enough for every
race on the memory, which starts full (`MaxThreads` 4, with room for two entries
per request as the code's 5000 has for its pools) with the conversation they ask about as
its oldest entry. Two pool threads and two hybrid workers are what two requests can
hold at once. The profiles are the combinations of mode, cues and role that the
gate, the guards, the fallbacks and the autofix tell apart.

For structured questions: two graphs (a relationship and a label appear), and
queries that are right, right in reverse, the wrong way round, too far for one hop,
and hopeless; `MaxAttempts` 2 and one retry of each other kind let every loop turn
and end. Two requests are needed only for the cache, so a second one reads the
schema and no more. For feedback: two labels of one answer in two processes are what
can be read and written at once; one tick lets a cached hint age and is a new day, on
which the second answer opens the file that takes the first one's place. For the axes the
documents are enumerated: all sequences of blocks that take a branch of their own,
since what a block does depends on what is open before it. `DegreeCap` 1 and
`BatchSize` 2 are exceeded by five nodes. For retrieval `CacheLimit` 1 is exceeded by
two scopes, and every limit of a channel by the nodes of one document; the question
in Arabic comes with the English document of its conversation, so that the language
has to turn it away.

Fairness. In `DocumentIngestion`: `WF` on each worker's next step: RQ workers and the
thread pool run what they have taken. `WF` on the expiry of a lock whose holder is dead:
Redis deletes keys after their TTL. No fairness on submissions, faults, or the expiry of a
living worker's lock. In `IngestionJobs` one `WF` over dispatching, dequeuing and
executing is enough: something of these happens as long as it can, and none of them goes
on for ever. In `QuestionAnswering`: `WF` on each request's own steps and on its hybrid
tasks, since pool threads run what they have taken and a client that stays reads its
stream; none on arrivals, clears, disconnects or failures. `questions` and `semantic`
check deadlock, with `Rests` and `Rest` as the only step of a system that has nothing to
do; the other systems stop when their bounded work is done. In `StructuredRetrieval`: `WF`
on each request's steps; calls to Neo4j and the model return or raise. In `FeedbackLoop`:
`WF` on each recorder thread.

Mutants. Each property of a passing run names a plausible bug (an operator kept
before the definition it replaces) under which TLC refutes it.

## Where code and documentation disagree

Two statements are kept as runs that TLC refutes: concurrent uploads to one document
can fail (the version number is read outside the lock, `claim_concurrent`), and with
Qdrant and one language the seeds of a question placed in one document can come
from others (`claim_seed_scope`). More statements are kept as definitions beside the
model they are about. TLC refutes each when it is added to the configuration named
here:

| Definition | Configuration | What the code says of itself | What it does |
|---|---|---|---|
| `ReportAgreesWithRevision` | `ClaimConcurrent.cfg` | `src/unstructured/ingestion/service.py:566`: the page report cannot disagree with what was ingested | it is written under the planned number before the install, which another job may take |
| `LoadFailureIsReported` | `ClaimConcurrent.cfg`, `MaxFaults = 1` | `service.py:687`: a failing load is logged with its traceback | the handler's `logger` (:693) is not defined, so a NameError is reported |
| `FailedDeleteIsStillListed` (PROPERTY) | `MCLifecycle.cfg` | `src/unstructured/document/purge.py:165`: after a failure midway the document is still listed | the loop goes on over a failed purge (:207) and removes the document from the graph |
| `DeletedDocumentIsAbsent` (PROPERTY) | `MCLifecycle.cfg` | `purge.py:155`: after the delete the id is absent from Neo4j, with no remaining trace | a revision installed since the look-up (:170) stays, ACTIVE and without a document (:229) |
| `InUseThreadsAreKept` (PROPERTY) | `MCQuestions.cfg` | `thread_memory.py:35`: a conversation in use is never the one evicted | between the look-up and `move_to_end` another request can evict it; `move_to_end` then raises `KeyError` |
| `StreamsKeepTheMode` | `MCQuestions.cfg` | `test_mode_isolation_unit.py:2`: a named mode decides which source answers, with no crossover | a denied stream falls back to the documents (`query_stream.py:274`) |
| `AllowedQueriesRunAsWritten` | `MCStructured.cfg` | `src/structured/retrieval/cypher/repair.py:24`: only explicit wrong traversals are flipped | a path of one hop is written again as arrows to the right (:134) |
| `LabelledToolsSteerRoutes` | `MCFeedback.cfg` | `docs/ARCHITECTURE.md:29`: labels adjust the MCP route | the route policy looks for a pattern of no agent (`policies.py:41`), and labels are stored under one |
| `NumberedParentsContainTheirChildren` | `MCStructure.cfg` | `axis1_structural.py:1122`: numbered parents contain their numbered children | a number not met yet stands for its first child (:710) and need not be put right |
| `PervasiveNamesTieNothing` | `MCSemantic.cfg` | `axis2.py:539`: type never affects how often an entity is judged to appear | spellings of different types are different clusters (:358), each counted alone; so is a name under a type outside `_ENTITY_TYPES` (:544) |
| `CandidatesAreItsOwn` | `MCRetrieval.cfg` | `vector_first_hybrid.py:155`: one request's verdict does not appear on another's answer | it is kept per thread and never reset, so the thread's next answer shows it |

Seen in counterexamples and while reading, without a definition of their own:

* Ingestion: one file under two keys at the same time becomes two documents; two tenants
  with the same logical id share one document and the second supersedes the first's
  revision, whose storage stays, and a delete by one of them detaches the other's
  revisions (`MATCH (dl) DETACH DELETE dl` names no tenant, purge.py:229); a revision
  installed beside a delete outlives it, and the next upload, which finds no previous
  revision, gives the document a second ACTIVE one; a sweep beside an ingest can take the
  data of a revision that becomes ACTIVE; what a failed purge leaves under an EXPIRED
  revision is not found by any sweep; failures inside `run_job` are never retried by RQ,
  because it catches them; a job whose `_ensure_rbac_schema` failed at its last attempt
  stays `validating`.
* Jobs and questions: `GET /ingest/jobs` lists oldest first with Redis (the route
  reverses a list that is newest first already); an API process that fell back to the
  in-memory store sends RQ jobs that no worker can find; streamed and failed questions
  leave no `QUERY` event in the audit log, which `README.md` says has every query; the
  memory can hold a turn that its client never saw.
* Structured questions: queries written again after a hint, and the steps of a plan,
  run without the check; the step loop iterates one parameter that is always there,
  so its "requires parameters" branch cannot be taken; `_repair_hanging_reverse_paths`
  finds nothing after the path repair; an introspection that overlaps `clear_cache`
  stores the old graph.
* Feedback: `recent_events` of both stores walks newest first and lets the oldest row
  of a request win; a JSONL aggregate counts a labelled answer's query twice.
* Structural axis: text of a low-confidence marker enters a page after repeated
  headers are removed; a number alone merges into whatever follows; the page span of
  intermediate ancestors does not grow; a placeholder of the number map can override
  a parent; `_link_continuations` takes only titles `Page N (PDF M)` for positional.
* Semantic axis: the rate limit is raised "so the job stops" and only counted by the
  loop that receives it; in the second half of a split batch it loses the first half's
  answers; `u.s.` beside `u.s` blocks the merge of an acronym; entity types depend on
  which thread ends first.
* Retrieval: the resolver drops the language in its internal calls; word statistics
  are asked for without the tenant and so are off with several tenants; the gate reads
  only the index of names, which is as old as the process; the scope cache outlives
  ingests and deletes; the global top hits are cut before the tenant is filtered; a
  failing embedding fails the question though a failing store does not; the rows of
  an exhaustive question are cut to eight by the merge; parts of a unit push out the
  hits that brought them.

## What is proved

`DocumentIngestion_proofs` proves, for every number of jobs, tenants, documents,
contents and faults, and for every version bound, from `ConstantsAssumption` alone:

* `Invariance`: `InstallInvariant` is an invariant. `VersionsContiguous` is not
  inductive alone: a stale plan could commit over an existing revision. It needs
  `TransactionsHeld` (a document's write lock and the jobs inside a transaction
  correspond), `PlansFollowVersions` (a plan's number is at most one above the
  newest, since revisions are only added) and the part of `CommitsAreStored` that
  says a transaction past its CREATE has a fresh id; together they make the
  committed number exactly the next. `ActiveIsStored` needs the rest of
  `CommitsAreStored`, and `PurgesAreOfExpired`, which says a purge is only ever
  owed for a revision that is out of service. The Redis lock occurs nowhere in
  the invariant: losing it costs none of these properties.
* `TypeCorrect`, `ContiguousVersions`, `ActiveStored`, `LifecycleContent`,
  `SingleActive` follow from it; `ImmutableRevisions` is an action property proved
  from it.
* `SuccessInstalled`: a job whose load ended in success has installed a revision with
  its content. `LoadsAreReal` follows a job's record through the worker: between the
  commit and the final save the record does not say it yet, the place of the worker
  does, and a job that is begun again says nothing until it has installed.
* `SourcesGone`: no uploaded file of a superseded revision is left behind while nothing
  fails. Two hypotheses are needed, and both are conditions of the deployment: Redis,
  since without it nothing keeps the next install from superseding a revision whose file
  is still to be saved, and a single tenant, since the lock's key has the tenant in it
  and the document has not. `SourceInvariant` says that who installs holds the lock, so
  that what it has installed stays ACTIVE until its file is saved, and that every source
  file belongs to the ACTIVE revision or to one whose purge is owed
  (`SourcesAreServed`). `ConstantsAssumption` says for this that `None` is no revision.

The proof has one lemma per group of actions. Most actions move one job and
leave the graph alone; `LocalStep`, `QuietStep` and `GraphlessStep` say once what
such a step preserves, and `InstallStep` deals with the commit.

It also proves `Refinement`: every commit appends one entry to one document's history
and serves it, every other step stutters.

`DocumentLifecycle_proofs` proves five properties of installs, deletes and sweeps that
interleave. `ContentOfActiveRevisions`: `GraphInvariant` needs nothing about jobs or
locks; the commit alone establishes it, because it finds the previous revision inside its
transaction, and deletes remove a revision with its content nodes and edges.

`OneActiveBesideDeletes`, for a single tenant: a document links one ACTIVE revision at
most, and no other is marked ACTIVE, unless an install committed between a delete's
look-up and its end. The restriction is the code's. Such a delete removes the revisions it
looked up and then the document with whatever it links by now (`purge.py:229`), so that
the new revision stays, ACTIVE and unlinked. An upload after that finds no previous
revision, installs r1 again if its id is free, and two revisions are ACTIVE with their
content: `OneActiveRevision`, which `SingleActive` proves of installs alone, fails. That
history needs three uploads. The instance of `lifecycle` has two, and reaches the unlinked
revision; the theorem covers what comes after it. `ActiveIsFound` is the invariant:
without an overtaken delete every ACTIVE revision is linked, a delete under way has it on
its list, and once its nodes are gone the document has none. With several tenants a delete
detaches revisions that it did not look for. For the sweep, `SweepIsSafe` and
`SweepIsComplete` are about one that neither a job nor a delete disturbs, after whatever
raced before. `SweepKnows` says that such a sweep's list of live revisions is still the
graph's, that its two lists hold no live revision, and that, as long as no store failed,
they hold every leftover not yet reclaimed; a job's step that keeps the jobs quiet touches
neither revisions nor stores (`QuietJobs`). That a blob's key is found again needs the
tenants of jobs and revisions (`JobsOwned`, `RevisionsOwned`).

`DeleteIsComplete`, for a single tenant (with several, a document's revisions may have
other tenants than the one it is deleted for, whose keys the purge does not touch): a
delete beside which no job ran and that reports no error leaves nothing of the revisions
it found and, if nothing failed before and it is the first, nothing of the document.
`DeleteKnows` says what has become of each revision it found (`Purged` as soon as it is
off the list). That it found all there is comes from `DocumentsKnown`: until the
first delete begins, data in the stores is of a revision the graph has or of a job
about to commit it (`NothingIsLost`), and every revision hangs on its document
(`FoundAll`). The restriction to the first delete is the code's: a delete that races an
install can leave a revision cut off its document, or stored data of a commit that then
fails, and no later delete finds either. The property said more at first; the attempt
to prove it showed a history of two deletes and three jobs that breaks it, beyond the
instance of `lifecycle`, and its statement now has the condition.

`IngestionJobs_proofs` proves five properties. `SourcesAreSafe`: no cleanup deletes a file of
the user's corpus directory, for any number of jobs, retries, restarts and
failures, with no assumption on the constants. The invariant follows the ownership
flag: every record in the store, and every local copy of an execution that has
read one, owns a temporary file or nothing (`Careful`); saving, reading back,
handing out and retrying keep it. Steps are grouped by what they touch (records,
executions, files), with one lemma per group.

`DoneMeansDone`: a script or corpus recorded as completed has done all its work (of
document jobs it says nothing: `SuccessInstalled` does), from
`InputsAssumption` (uploads, corpora and scripts are made of files and statements).
`DoneInvariant` follows the loop of every execution: the pieces it has behind it
(`Behind`) are done, what is done stays done (`Onward`), and the record in the store
is of the same task as the copy the execution works on, whoever else saved it
(`SameTask`, `OnTask`). A memory store that a restart emptied knows no child any more,
so what a corpus handed on is promised while the store remembers (`Remembers`), as in
the property. The order of statements is promised under `StatementsApart`: which script
a statement belongs to is told from the statement, so scripts share none and repeat
none. Statements stand for occurrences in a script, and the instance satisfies it.

`RecentListing`: `GET /ingest/jobs` lists no job twice, and from the in-memory store the
most recent ones, newest first. `Indexed` says that the index has every id once and, in
memory, in the order of creation; it is kept by a save because a record is saved under
an id that has one already or under one later than all (`SavedOnto`), by the trimming,
and by a restart that empties the store. The listing is a fold over the index; what it
returns is proved by an explicit graph of the fold (see below).

`ChildrenNamed` has two halves. That what a corpus record names are jobs of their own is
`ChildrenInvariant`, which carries the promise through the local copies of every
execution (`KnowsChildren`). That a finished record names every child, if nothing
fails, needs that a job is in one place at a time: `OnceInvariant` says of the request
that created it, the queue, the executions and the parent that offers it that at most
one has it, and that a job with a final record is nowhere. Then an execution that
stored a child is the only one of its parent, and saves what it knows before it ends
(`NamedInvariant`, `Holds`). `FinalIsFinal` follows from `OnceInvariant` too: a client
that has seen a final record sees the same one ever after.

`QuestionAnswering_proofs` proves `BoundedMemory`, from `MemoryAssumption` alone.
`MemoryIsBounded` is not inductive: a request that has stored a turn and loses it
to another thread leaves without an eviction loop, and the bound loses one of its
terms. `MemoryInvariant` counts an entry against the bound only when its request
has begun its loop (`Settled`, `Evicting`), and says that a request is inside
`get_turn` or `save_turn` only at the places that call them (`CallsNest`). Every step
is quiet, or enters a loop, or leaves one after reading a small enough size; these
three keep the bound, whichever request takes the step.

From `MemoryAssumption` and `QuestionsAssumption` it proves `SourcesPermitted` (no
answer from a source the role may not read) and `ModeIsKept` (a mode that a
question of `POST /query` names is the source of its answer; streams are not covered, see
`StreamsKeepTheMode`). `SourcesInvariant` follows one request at a time: the text
it holds is always from permitted sources, which reroutes, fallbacks and parallel plans
keep since each checks before it calls an agent; and a question of `POST /query` goes
to the agent of its mode until it is dispatched, from when the lock stands
(`KeepsToMode`). That no step is possible inside the memory's operations except where
they are called is `CallsNest`, from `MemoryInvariance`.

`TelemetryIsOwn`: the steps in an answer are those of its question or of questions
that failed, which leave theirs on the pool thread. `TelemetryInvariant` says that two
requests never hold one pool thread, that a request holds one exactly between being
taken up and its answer (`Placed`), and that whatever lies on a thread belongs to the
request that holds it or to one that has failed.

`OneStory`: a stream sends no reroute after a token, tokens of one agent only, and, if
it is answered, that agent's final event as its last line. `StoryInvariant` says for each
place of a request what it may have sent by then (`Told`).

`ResolvedTurnIsKept`: no eviction takes the conversation of a running request that was
resolved with its turn, from the `move_to_end` of its look-up on (before that it can: see
`InUseThreadsAreKept`), although look-ups, saves and evictions interleave without a lock,
and several eviction loops may pop more than they have to. `LruInvariant` has three parts.
`Ordered`: the dictionary is in the order of last use (there are ranks that grow with
every use), so that its first entry is older than all others. `ResolvedAreRecent`: only
conversations of requests at work were used after such a conversation. `RoomToEvict`:
while loops are about to pop, the store holds more than the requests and the pops to come;
each found it too large, and since then it has lost one entry to each other request at
most, and what was cleared. Together, an entry about to be popped has more newer entries
than requests are at work. The hypothesis is `MaxThreads + 1 >= 2 * Cardinality(Requests)
+ MaxClears`: the store has room for two conversations of every request and for those
cleared meanwhile, which the code's 5000 gives dozens of threads; the instance of
`questions` meets it with equality. `MemoryAssumption` says for this that the store holds
no conversation twice.

`StructuredRetrieval_proofs` proves `CacheIsRecent`, from `StructuredAssumption` alone:
unless an introspection overlapped `clear_cache`, no field of the schema cache is older
than it. Fields are stored one at a time, some from what was read before others were,
so `CacheInvariant` carries the same bound for what each request has read and not yet
stored (`ReadSince`); the other steps go past the cache (`GoesOn`).

`QueriesAreScoped`, from the same assumption: every query that is run names the tenant
on each variable whose label has one. `ScopeInvariant` says what a request carries at
each place (`Carries`): a query made of what the model wrote, which is any `IsQuery`, and
past the last check one with all its filters, for the schema text the request was told,
which may be older than the graph. `NormalizingScopes`: the injection comes after the
repairs that insert nodes, so nothing escapes it; `DirectingScopes`: the turning of
arrows, which is tried again after a query has run empty, adds no node.

`FeedbackLoop_proofs` proves two properties of the feedback loop, for every finite set
of processes and every set of answers, any number of labels and faults, any length of
a day, any number of retained files and any life of a cache.

`LabelsAccountedFor`: what the API accepted is what `aggregate_stats` shows in both
stores together, what waits in the queues, what found no request and what is in files
no longer read. Nothing is in two of these, whatever fails; nothing is in none, as
long as no task failed, no key expired and no process restarted; and in that case a label
finds no request only if another process received it than the one that answered.
`Accounted` counts each place for each counter and verdict, and a step of a thread
moves one label from the queues to one other place (`LabelMoves`); that it is the label
which was read is in `LoopTypes` (`work` is the head of its queue). A row is in a
file that is read or in one that is not, so a file that falls out moves its labels from
what is shown to what is forgotten (`ReadOrForgotten`). For the misses, `InOrder` says that
a process has recorded each request it answered, or has the record in its queue
before every label of it; the queue is first in, first out (`OrderStep`).

`HintsAreFresh`: while nothing failed or restarted, a cached hint counts every label
attached before the tick it is dated with. `HintInvariant` carries the promise back
to the question that will be cached: it takes its tick before it reads the counters
(`QuestionsCover`), and no tick began with more labels than are attached now
(`Remembered`). `FeedbackAssumption` says that the processes are finitely many, those
that are asked are among them, that users vote yes or no, that the modes and tools of
the answers have a place in the order of names, and that a day has a length;
`NoneAssumption` that `None` is no outcome and no answer.

`DocumentRetrieval_proofs` proves three properties of document questions, for any
corpus, graph of relations, questions, limits and number of threads, from
`ChannelsAssumption` (finitely many nodes and relations, unique ids), `RankingAssumption`
(limits are numbers) and `RetrievalAssumption` (text has the tenant and language of its
document, and an asker has a tenant, which the API sets to `DEFAULT_TENANT_ID` when none
is given).

* `EvidenceOfTheScope`: all evidence is text of the documents the question was placed
  in, of its tenant and, unless it was read from the hierarchy, in its language. It
  supposes `Backend # "qdrant"`: with the external store the property is false, as
  `claim_seed_scope` shows. The lemmas go the way of the evidence: each channel's
  filters (`ChannelsInScope`), the expansion, which walks out of the document and is
  filtered afterwards, then merge, fusion, boost, rerank, pins and cuts, which bring in
  no hit no channel had (`RankedHits`, `AllPinned`, `PinnedHits`), and the parts of
  units, which stay in their document (`UnitsInScope`).
* `CacheScoped`: the scope cache holds documents only under a key of their tenant and
  language, and at most one entry beyond its limit. An entry is what `CandidatesAreProbed`
  says of the nearest text; that the documents of text the asker may read are the
  asker's is `RetrievalAssumption`.
* `RetrievalInvariant`, the invariant behind both (`RetrievalStaysSound`), adds that a
  placed request has its document among its documents (`WellPlaced`), which the cached
  scope and the candidates must establish, and that only a structural request reads the
  hierarchy.
* `NamedDocumentFirst`: a question that spells out one document is answered from it.
  `NamesInvariant` says that past the first tier nothing is spelled out, so that any
  placing will do; the fall-back from the hierarchy begins at the first tier again. An
  ingest or delete of another document does not change the reference
  (`ReferenceStays`), one of that document is the exception the property makes.

`SemanticLinks_proofs` proves both safety properties of the semantic axis, for any
nodes, texts, answers, clusterings and limits, and any order in which threads finish, from
`CapAssumption`, `TaxonomyAssumption` and `SemanticAssumption`.

* `LinksSound`: nodes that share an entity both name it; not more nodes name it than the
  cutoff, counted over the types of the taxonomy together and over a type outside it
  alone; no pair shares more entities of one type of the taxonomy than the cap
  (`EnumerationsAreLeftOut`); no node has more edges of a kind than the cap; no pair of
  nodes costs two verdicts. `LinksInvariant` has the last two of these and what they rest
  on: what was merged and what threads hold are sequences over the document (`Entitled`,
  `Sequenced`), there are edges and pairs only once the phase is reached that computes
  them (`Phased`), and every pair is to be asked once, at one thread or judged, never two
  of these (`Accounted`), however pairs move between the pool, the threads and the result.
  `CapHolds` is the greedy selection: an edge is taken only while both its ends have room.
  `SharesAreSpecific` shows it for the entities, from what `Informative` filters;
  `PairsToAskHold` that the two pools that pairs come from put no pair on the list twice.
* `MergingKeeps`: merging a batch takes no entity from a node (`ExtendedHolds`, then
  `EntitiesStay` for every step).

Sorting, merging and choosing the best are folds, and induction over data is not
available as a theorem with an operator parameter. `NumbersAreReached` gets it from the
well-foundedness of `<` instead: a set that holds 0 and every successor holds every
number. The recursive function under `FoldSet` is given an explicit graph
(`ArrangingExists`, `MergingExists`), from which what the fold keeps follows by that
lemma. `SemanticLinks_proofs` states this once for all folds over a set and over a
sequence (`SetFoldExists`, `PlaceFoldExists`, `PlaceFoldHolds`). TLC finds
`RetrievalInvariant` and `NamesInvariant` true on the instance of `retrieval`, and
`LinksInvariant` on that of `semantic`.

Only model-checked:

* `NumberIsRead`: that a pin is not displaced depends on the scores of all hits, so it
  needs arithmetic over the ranking and not only which hits it holds.
* `SectionsReadLikeTheDocument`, `SectionsAreFoundUnderTheirNumber` and
  `ChaptersFollowOneAnother` of the structural axis. They relate the whole tree to the
  order of blocks in the document through a long pass with a heading stack; the model
  says that with `SelectSeq` and `SortSeq`, whose recursive definitions would each need
  an induction of the kind above.
* Liveness (`EveryJobEnds`, `JobsComeToRest`, `EveryRequestEnds`, `StructuredQuestionsEnd`,
  `QueuesDrain`), which is out of the prover's reach.

## Plan

Done: the ingestion core with its refinement, deletes and sweeps, the job API, the
question path with its conversation memory, structured questions, feedback, both
axes and document retrieval. Next, in this order:

1. Proofs about the structural axis, whose models would have to say without `SelectSeq`
   and `SortSeq` what they now say with them.
2. The tabular loader (`src/structured/ingestion/tabular.py`): batched MERGE of rows
   with failures between batches.
3. Reference edges, the table-aware parser and ontology validation, as operators on
   the documents of `construction`.
4. The hydrator between graph, blob and vector store, beside deletes.

The models are written for this: constants with named assumptions, one action per
operation, no recursive operator in a module with theorems.

## Not modelled

`PROJECT.json` lists each part with its reason. In short: prompts, wording and
formatting; similarities, which are floats of external models; third-party parsers, OCR
and vision; token verification; settings; read-only admin and page views; one-off
evaluation, backfill and loader scripts. What is planned and not yet there is
named above; the models that exist take those parts as free choices among their
outcomes.
