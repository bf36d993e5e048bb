-------------------------- MODULE QuestionAnswering --------------------------
(***************************************************************************)
(* From a question to its answer: ask() on the threads of the query pool   *)
(* for POST /query and iter_query_stream() for POST /query/stream, the     *)
(* document agent, the data agent and the reroutes between them, and what  *)
(* the requests share: the pools, the telemetry left on a pool thread, the *)
(* conversation memory and the audit log.                                  *)
(*                                                                         *)
(* What retrieval finds and what the model says is chosen freely among the *)
(* outcomes the code tells apart.                                          *)
(***************************************************************************)
EXTENDS ThreadMemory, SequencesExt

CONSTANTS
    Profiles,       \* kinds of questions that are asked
    OpenThreads,    \* the conversations they are asked in
    PoolThreads,    \* threads of _query_executor
    HybridWorkers,  \* max_workers of _hybrid_pool
    NoWorker,       \* no thread of the pool
    MaxClears,      \* bound on POST /chat/clear
    MaxFaults       \* bound on exceptions from Neo4j or a model provider

Sources == {"docs", "data"}
Modes == Sources \cup {"hybrid"}    \* unstructured, structured, hybrid

\* How a question comes in, the retrieval mode, the cues in its wording
\* (_DATA_ROUTE or an entity's name, _DOC_ROUTE) and the knowledge areas the
\* user's role may query.
Profile == [via: {"query", "stream"}, mode: Modes, cues: SUBSET Sources, areas: SUBSET Sources]

ASSUME QuestionsAssumption ==
    /\ Profiles \subseteq Profile /\ Profiles # {}
    /\ OpenThreads \subseteq Threads /\ OpenThreads # {}
    /\ PoolThreads # {} /\ NoWorker \notin PoolThreads
    /\ HybridWorkers \in Nat \ {0}
    /\ MaxClears \in Nat /\ MaxFaults \in Nat

VARIABLES
    pc,         \* where each request is
    asked,      \* its thread id and profile
    run,        \* the local variables of ask() or iter_query_stream()
    parts,      \* the two halves of a hybrid question in _hybrid_pool
    telemetry,  \* requests with steps in a pool thread's Telemetry object
    events,     \* what a stream has sent to its client
    audit,      \* audit events: request and type
    clears, faults

vars == <<memoryVars, pc, asked, run, parts, telemetry, events, audit, clears, faults>>

Ended == {"answered", "failed", "gone"}
PC == {"new", "queued", "resolve", "gate", "prior", "docs", "data", "hybrid", "rescue",
       "speak", "save", "saveDenial", "route", "emit"} \cup Ended

\* A result: the agent that gave it, the sources its text comes from, whether
\* it says that access was denied, whether save_turn has something to keep.
Result == [agent: Modes, from: SUBSET Sources, denied: BOOLEAN, kept: BOOLEAN]
NoResult == [agent |-> "hybrid", from |-> {}, denied |-> FALSE, kept |-> FALSE]

Run == [tool: Modes, worker: PoolThreads \cup {NoWorker}, prior: BOOLEAN, locked: BOOLEAN,
        result: Result, steps: SUBSET Requests]
PartState == {"none", "submitted", "running", "done", "failed"}

Event == [type: {"reroute", "token", "done", "error"}, agent: Modes]

\* Types; the bound of a stream is a reroute, tokens and the end.
QuestionsTypeOK ==
    /\ memory \subseteq Threads /\ newer \in [Threads -> SUBSET Threads]
    /\ turn \in [Requests -> TurnState]
    /\ pc \in [Requests -> PC]
    /\ asked \in [Requests -> [thread: Threads, profile: Profile]]
    /\ run \in [Requests -> Run]
    /\ parts \in [Requests -> [Sources -> PartState]]
    /\ telemetry \in [PoolThreads -> SUBSET Requests]
    /\ \A r \in Requests : Len(events[r]) <= 5 /\ ToSet(events[r]) \subseteq Event
    /\ audit \subseteq Requests \X {"query", "access_denied"}
    /\ clears \in 0..MaxClears /\ faults \in 0..MaxFaults

NotAsked == [thread |-> CHOOSE t \in Threads : TRUE, profile |-> CHOOSE p \in Profiles : TRUE]
NewRun == [tool |-> "hybrid", worker |-> NoWorker, prior |-> FALSE, locked |-> FALSE,
           result |-> NoResult, steps |-> {}]
NoParts == [s \in Sources |-> "none"]

Init ==
    /\ MemoryInit
    /\ pc = [r \in Requests |-> "new"]
    /\ asked = [r \in Requests |-> NotAsked]
    /\ run = [r \in Requests |-> NewRun]
    /\ parts = [r \in Requests |-> NoParts]
    /\ telemetry = [p \in PoolThreads |-> {}]
    /\ events = [r \in Requests |-> <<>>]
    /\ audit = {}
    /\ clears = 0 /\ faults = 0

Streams(r) == asked[r].profile.via = "stream"
Thread(r) == asked[r].thread
Worker(r) == run[r].worker
Cued(r, s) == s \in asked[r].profile.cues
May(r, s) == s \in asked[r].profile.areas

At(r, place) == pc[r] = place
To(r, place) == pc' = [pc EXCEPT ![r] = place]

Other(s) == IF s = "docs" THEN "data" ELSE "docs"

----------------------------------------------------------------------------
(* Arrival. *)

\* Mutant of Locked: ask() does not set _MODE_LOCKED.
NeverLocked(mode) == FALSE

\* resolve_mode_override: every mode, also none at all, names a tool, and so
\* the mode is locked (_MODE_LOCKED, mode_locked).
Locked(mode) == mode \in Modes

Asks(r) ==
    /\ At(r, "new")
    /\ \E t \in OpenThreads, p \in Profiles :
        /\ asked' = [asked EXCEPT ![r] = [thread |-> t, profile |-> p]]
        /\ run' = [run EXCEPT ![r].tool = p.mode, ![r].locked = Locked(p.mode)]
        /\ To(r, IF p.via = "stream" THEN "resolve" ELSE "queued")
    /\ UNCHANGED <<memoryVars, parts, telemetry, events, audit, clears, faults>>

Busy == {Worker(r) : r \in Requests} \ {NoWorker}

\* A thread of the query pool starts ask().  start_telemetry goes on with the
\* object it finds in the thread's context, if an earlier request left one.
Takes(r) ==
    /\ At(r, "queued")
    /\ \E p \in PoolThreads \ Busy :
        /\ run' = [run EXCEPT ![r].worker = p]
        /\ telemetry' = [telemetry EXCEPT ![p] = @ \cup {r}]
    /\ To(r, "resolve")
    /\ UNCHANGED <<memoryVars, asked, parts, events, audit, clears, faults>>

----------------------------------------------------------------------------
(* get_turn: in resolve_query_tool, in the handlers, and in a document     *)
(* stream whose question is a follow-up.                                   *)

AfterLookUp(r) == IF At(r, "resolve") THEN "gate" ELSE run[r].tool

LooksUp(r) ==
    /\ pc[r] \in {"resolve", "prior"}
    /\ \/ /\ FindsNothing(r, Thread(r))
          /\ run' = [run EXCEPT ![r].prior = FALSE]
          /\ To(r, AfterLookUp(r))
       \/ /\ Finds(r, Thread(r))
          /\ UNCHANGED <<pc, run>>
       \/ /\ Touches(r, Thread(r))
          /\ run' = [run EXCEPT ![r].prior = TRUE]
          /\ To(r, AfterLookUp(r))
    /\ UNCHANGED <<asked, parts, telemetry, events, audit, clears, faults>>

----------------------------------------------------------------------------
(* The gate before the agents. *)

\* make_structured_access_denied_result; its query_type makes save_turn keep it.
Denial == [agent |-> "data", from |-> {}, denied |-> TRUE, kept |-> TRUE]

DeniedAtGate(r) == run[r].tool = "data" /\ Cued(r, "data") /\ ~May(r, "data")

\* Mutant of Cleared: a handler without clear_telemetry().
NotCleared(r) == telemetry

\* summary() and clear_telemetry(): the result takes what the thread's object
\* holds, and the thread is left without one.
Cleared(r) == [telemetry EXCEPT ![Worker(r)] = {}]
WithResult(r, result) ==
    [run EXCEPT ![r].result = result, ![r].steps = telemetry[Worker(r)]]

\* ask(): a data question of a user without access.
Denies(r) ==
    /\ At(r, "gate") /\ ~Streams(r) /\ DeniedAtGate(r)
    /\ audit' = audit \cup {<<r, "access_denied">>}
    /\ run' = WithResult(r, Denial)
    /\ telemetry' = Cleared(r)
    /\ To(r, "saveDenial")
    /\ UNCHANGED <<memoryVars, asked, parts, events, clears, faults>>

\* iter_query_stream() first tries the documents.
TriesDocumentsFirst(r) ==
    /\ At(r, "gate") /\ Streams(r) /\ DeniedAtGate(r)
    /\ To(r, "rescue")
    /\ UNCHANGED <<memoryVars, asked, run, parts, telemetry, events, audit, clears, faults>>

\* A handler resolves the follow-up once more; a document stream reads the
\* turn again if the question was one.
LooksUpAgain(r) ==
    IF ~Streams(r) THEN {TRUE}
    ELSE {FALSE} \cup {run[r].prior /\ run[r].tool = "docs"}

\* The handler, or the generator, of the chosen tool.
Dispatches(r) ==
    /\ At(r, "gate") /\ ~DeniedAtGate(r)
    /\ IF run[r].tool = "hybrid"
         THEN /\ To(r, "hybrid")
              /\ parts' = IF Streams(r) THEN parts
                          ELSE [parts EXCEPT ![r] = [s \in Sources |-> "submitted"]]
         ELSE /\ parts' = parts
              /\ \E again \in LooksUpAgain(r) : To(r, IF again THEN "prior" ELSE run[r].tool)
    /\ UNCHANGED <<memoryVars, asked, run, telemetry, events, audit, clears, faults>>

----------------------------------------------------------------------------
(* The agents.  In ask() an agent is one call; a stream can lose its       *)
(* client, or fail, between what it sends.                                 *)

Found == [agent |-> "docs", from |-> {"docs"}, denied |-> FALSE, kept |-> TRUE]
NotFound == [Found EXCEPT !.from = {}]

\* Text-to-Cypher and the multistep executor check the user's access; a
\* clarification or the schema is given to anyone.
DataResult(from, denied) == [agent |-> "data", from |-> from, denied |-> denied, kept |-> FALSE]

\* Mutant of DataAgent: Text-to-Cypher relies on the gate.
UncheckedDataAgent(r) == {DataResult({}, FALSE), DataResult({"data"}, FALSE)}

DataAgent(r) ==
    {DataResult({}, FALSE),
     IF May(r, "data") THEN DataResult({"data"}, FALSE) ELSE DataResult({}, TRUE)}

\* is_misrouted_structured_question.  The handler asks it of the question as
\* the last turn has it rewritten, a stream of the user's own words.
Misrouted(r) ==
    IF ~Streams(r) /\ run[r].prior THEN BOOLEAN
    ELSE {Cued(r, "data") /\ ~Cued(r, "docs")}

Concludes(r, result) ==
    /\ run' = WithResult(r, result)
    /\ telemetry' = Cleared(r)
    /\ To(r, "save")
    /\ UNCHANGED <<memoryVars, asked, parts, events, clears, faults>>

\* search_documents.  When nothing was found, or nothing may be, a question
\* that looks misrouted goes to the data agent or is declined.
DocumentsAnswer(r) ==
    /\ At(r, "docs") /\ ~Streams(r)
    /\ \/ May(r, "docs") /\ Concludes(r, Found) /\ audit' = audit
       \/ FALSE \in Misrouted(r) /\ Concludes(r, NotFound) /\ audit' = audit
       \/ /\ TRUE \in Misrouted(r) /\ May(r, "data")
          /\ \E d \in DataAgent(r) : Concludes(r, [d EXCEPT !.kept = TRUE])
          /\ audit' = audit
       \/ /\ TRUE \in Misrouted(r) /\ ~May(r, "data")
          /\ Concludes(r, NotFound)
          /\ audit' = audit \cup {<<r, "access_denied">>}

\* query_data keeps a clarification.  A weak answer is replaced by one from
\* the documents, as the data agent's own, unless the mode is locked.
Clarification == [DataResult({}, FALSE) EXCEPT !.kept = TRUE]
DataHandler(r) ==
    DataAgent(r) \cup {Clarification}
    \cup IF May(r, "docs") /\ ~run[r].locked THEN {[Found EXCEPT !.agent = "data"]} ELSE {}

DataAnswers(r) ==
    /\ At(r, "data") /\ ~Streams(r)
    /\ \E d \in DataHandler(r) : Concludes(r, d)
    /\ audit' = audit

----------------------------------------------------------------------------
(* query_hybrid: two tasks in a pool of their own.                         *)

Running == {x \in Requests \X Sources : parts[x[1]][x[2]] = "running"}
\* Mutant of WorkerIsFree: the hybrid tasks run in the query pool.
WorkerOfQueryPoolIsFree == Cardinality(Running) + Cardinality(Busy) < Cardinality(PoolThreads)

WorkerIsFree == Cardinality(Running) < HybridWorkers

PartBecomes(r, s, state) ==
    /\ parts' = [parts EXCEPT ![r][s] = state]
    /\ UNCHANGED <<memoryVars, pc, asked, run, telemetry, events, audit, clears>>

StartsPart(r, s) ==
    /\ parts[r][s] = "submitted" /\ WorkerIsFree
    /\ PartBecomes(r, s, "running")
    /\ faults' = faults

EndsPart(r, s) ==
    /\ parts[r][s] = "running"
    /\ PartBecomes(r, s, "done")
    /\ faults' = faults

Fault == faults < MaxFaults /\ faults' = faults + 1

FailsPart(r, s) ==
    /\ parts[r][s] = "running"
    /\ PartBecomes(r, s, "failed")
    /\ Fault

HybridResult(from) == [agent |-> "hybrid", from |-> from, denied |-> FALSE, kept |-> FALSE]

\* There is no save_turn in query_hybrid.
Joins(r) ==
    /\ At(r, "hybrid") /\ ~Streams(r)
    /\ \A s \in Sources : parts[r][s] = "done"
    /\ \E from \in SUBSET asked[r].profile.areas : run' = WithResult(r, HybridResult(from))
    /\ telemetry' = Cleared(r)
    /\ To(r, "route")
    /\ UNCHANGED <<memoryVars, asked, parts, events, audit, clears, faults>>

----------------------------------------------------------------------------
(* The streams. *)

\* Mutant of Forwarded: the agent's own final event is passed on, too.
ForwardedAlways(line) == TRUE

\* iter_query_stream passes on what the agent's generator yields, except its
\* final event, which it completes and sends itself.
Forwarded(line) == line.type # "done"
Line(type, agent) == [type |-> type, agent |-> agent]
Relays(r, lines) == events' = [events EXCEPT ![r] = @ \o lines]

\* The last lines of the agent's generator that the client sees.
Concluding(lines, agent) ==
    IF Forwarded(Line("done", agent)) THEN Append(lines, Line("done", agent)) ELSE lines

\* The generator knows its answer, and sends it in tokens or at once.
Drafts(r, result, lines) ==
    /\ run' = [run EXCEPT ![r].result = result]
    /\ \/ /\ result.from # {}
          /\ To(r, "speak")
          /\ Relays(r, lines)
       \/ /\ To(r, "save")
          /\ Relays(r, Concluding(lines, result.agent))
    /\ UNCHANGED <<memoryVars, asked, parts, telemetry, clears, faults>>

Speaks(r) ==
    /\ At(r, "speak")
    /\ To(r, "save")
    /\ Relays(r, Concluding(<<Line("token", run[r].result.agent)>>, run[r].result.agent))
    /\ UNCHANGED <<memoryVars, asked, run, parts, telemetry, audit, clears, faults>>

\* What the documents give a stream; only an answer with a query_type is kept
\* (a count or an outline has none).
DocumentDrafts(r) ==
    IF May(r, "docs") THEN {Found, [Found EXCEPT !.kept = FALSE]}
    ELSE {[NotFound EXCEPT !.kept = FALSE]}

StreamsDocuments(r) ==
    /\ At(r, "docs") /\ Streams(r)
    /\ \E d \in DocumentDrafts(r) : Drafts(r, d, <<>>)
    /\ audit' = audit

\* iter_document_stream found nothing.
NothingToStream(r) ==
    /\ At(r, "docs") /\ Streams(r) /\ May(r, "docs")
    /\ \/ FALSE \in Misrouted(r) /\ audit' = audit
       \/ TRUE \in Misrouted(r) /\ ~May(r, "data") /\ audit' = audit \cup {<<r, "access_denied">>}
    /\ Drafts(r, [NotFound EXCEPT !.kept = FALSE], <<>>)

\* ... and goes on with iter_structured_stream, whose mode_locked it leaves out.
ReroutesToData(r) ==
    /\ At(r, "docs") /\ Streams(r) /\ May(r, "docs")
    /\ TRUE \in Misrouted(r) /\ May(r, "data")
    /\ run' = [run EXCEPT ![r].locked = FALSE]
    /\ To(r, "data")
    /\ Relays(r, <<Line("reroute", "data")>>)
    /\ UNCHANGED <<memoryVars, asked, parts, telemetry, audit, clears, faults>>

StreamsData(r) ==
    /\ At(r, "data") /\ Streams(r)
    /\ \E d \in DataAgent(r) : Drafts(r, d, <<>>)
    /\ audit' = audit

\* Mutant of ReroutesToDocuments: the fallback does not skip the structured guard.
ReroutesWithGuard(r) ==
    /\ At(r, "data") /\ Streams(r) /\ ~run[r].locked /\ May(r, "data")
    /\ To(r, "docs")
    /\ Relays(r, <<Line("reroute", "docs")>>)
    /\ UNCHANGED <<memoryVars, asked, run, parts, telemetry, audit, clears, faults>>

\* A weak or an empty answer, known to be so before any token is sent.
ReroutesToDocuments(r) ==
    /\ At(r, "data") /\ Streams(r) /\ ~run[r].locked /\ May(r, "data")
    /\ \E d \in DocumentDrafts(r) : Drafts(r, d, <<Line("reroute", "docs")>>)
    /\ audit' = audit

StreamsHybrid(r) ==
    /\ At(r, "hybrid") /\ Streams(r)
    /\ \E from \in SUBSET asked[r].profile.areas : Drafts(r, HybridResult(from), <<>>)
    /\ audit' = audit

\* try_document_fallback for a stream denied at the gate: what the documents
\* say with confidence, or the denial.  Neither is kept.
Rescues(r) ==
    /\ At(r, "rescue")
    /\ \E d \in {Denial} \cup IF May(r, "docs") THEN {Found} ELSE {} :
        run' = [run EXCEPT ![r].result = [d EXCEPT !.kept = FALSE]]
    /\ To(r, "save")
    /\ UNCHANGED <<memoryVars, asked, parts, telemetry, events, audit, clears, faults>>

Emits(r) ==
    /\ At(r, "emit")
    /\ events' = [events EXCEPT ![r] = Append(@, Line("done", run[r].result.agent))]
    /\ To(r, "answered")
    /\ UNCHANGED <<memoryVars, asked, run, parts, telemetry, audit, clears, faults>>

\* The client of a stream leaves: the generator is not asked for more.
Disconnects(r) ==
    /\ Streams(r) /\ turn[r] = "idle"
    /\ pc[r] \in {"resolve", "gate", "docs", "data", "hybrid", "speak", "emit"}
    /\ To(r, "gone")
    /\ UNCHANGED <<memoryVars, asked, run, parts, telemetry, events, audit, clears, faults>>

----------------------------------------------------------------------------
(* save_turn, and what follows it. *)

Leaves(r) == [run EXCEPT ![r].worker = NoWorker]

AfterSave(r) ==
    \/ At(r, "saveDenial") /\ To(r, "answered") /\ run' = Leaves(r)
    \/ At(r, "save") /\ To(r, IF Streams(r) THEN "emit" ELSE "route") /\ run' = run

Saves(r) ==
    /\ pc[r] \in {"save", "saveDenial"}
    /\ \/ ~run[r].result.kept /\ turn[r] = "idle" /\ UNCHANGED memoryVars /\ AfterSave(r)
       \/ run[r].result.kept /\ Stores(r, Thread(r)) /\ UNCHANGED <<pc, run>>
       \/ (Promotes(r, Thread(r)) \/ FindsTooMany(r) \/ Evicts(r)) /\ UNCHANGED <<pc, run>>
       \/ Saved(r) /\ AfterSave(r)
    /\ UNCHANGED <<asked, parts, telemetry, events, audit, clears, faults>>

\* run_via_mcp_tool: the data agent denied a question without a data cue, so
\* the document handler answers, with a Telemetry object of its own.
FallsBack(r) == run[r].tool = "data" /\ run[r].result.denied /\ ~Cued(r, "data")

FallsBackToDocuments(r) ==
    /\ At(r, "route") /\ FallsBack(r)
    /\ run' = [run EXCEPT ![r].tool = "docs"]
    /\ telemetry' = [telemetry EXCEPT ![Worker(r)] = @ \cup {r}]
    /\ To(r, "prior")
    /\ UNCHANGED <<memoryVars, asked, parts, events, audit, clears, faults>>

\* enforce_mode: an answer of another agent is taken back.
Enforced(r, result) ==
    LET wanted == asked[r].profile.mode
    IN  IF result.agent = wanted THEN result ELSE [result EXCEPT !.agent = wanted, !.from = {}]

Answers(r) ==
    /\ At(r, "route") /\ ~FallsBack(r)
    /\ run' = [Leaves(r) EXCEPT ![r].result = Enforced(r, @)]
    /\ audit' = audit \cup {<<r, "query">>}
    /\ To(r, "answered")
    /\ UNCHANGED <<memoryVars, asked, parts, telemetry, events, clears, faults>>

----------------------------------------------------------------------------
(* Failures. *)

\* An exception ends ask(), which leaves the thread's Telemetry object where
\* it is; a stream reports it once itself and once from the route.
Raises(r) ==
    /\ To(r, "failed")
    /\ run' = Leaves(r)
    /\ events' = IF Streams(r)
                   THEN [events EXCEPT ![r] = @ \o <<Line("error", run[r].tool), Line("error", run[r].tool)>>]
                   ELSE events
    /\ UNCHANGED <<asked, parts, telemetry, audit, clears>>

\* Neo4j or a model provider fails.
Fails(r) ==
    /\ pc[r] \in {"gate", "docs", "data", "rescue", "speak"} \/ (At(r, "hybrid") /\ Streams(r))
    /\ Fault
    /\ Raises(r)
    /\ UNCHANGED memoryVars

\* KeyError in get_turn or save_turn.
LosesTurn(r) ==
    /\ LosesEntry(r, Thread(r))
    /\ Raises(r)
    /\ faults' = faults

\* ask() waits for the documents first, then for the data.
JoinFails(r) ==
    /\ At(r, "hybrid") /\ ~Streams(r)
    /\ \/ parts[r]["docs"] = "failed"
       \/ parts[r]["docs"] = "done" /\ parts[r]["data"] = "failed"
    /\ Raises(r)
    /\ UNCHANGED <<memoryVars, faults>>

ClearsThread(t) ==
    /\ clears < MaxClears
    /\ Clears(t)
    /\ clears' = clears + 1
    /\ UNCHANGED <<pc, asked, run, parts, telemetry, events, audit, faults>>

----------------------------------------------------------------------------
\* What a pool thread or a stream does on its own account.
Step(r) ==
    \/ Takes(r) \/ LooksUp(r) \/ Denies(r) \/ TriesDocumentsFirst(r) \/ Dispatches(r)
    \/ DocumentsAnswer(r) \/ DataAnswers(r) \/ Joins(r) \/ JoinFails(r)
    \/ StreamsDocuments(r) \/ NothingToStream(r) \/ ReroutesToData(r) \/ StreamsData(r)
    \/ ReroutesToDocuments(r) \/ StreamsHybrid(r) \/ Speaks(r) \/ Rescues(r) \/ Emits(r)
    \/ Saves(r) \/ FallsBackToDocuments(r) \/ Answers(r) \/ LosesTurn(r)

HybridStep(r, s) == StartsPart(r, s) \/ EndsPart(r, s)

\* All questions have been dealt with.
Rests == (\A r \in Requests : pc[r] \in Ended) /\ UNCHANGED vars

Next ==
    \/ \E r \in Requests :
        \/ Asks(r) \/ Step(r) \/ Fails(r) \/ Disconnects(r)
        \/ \E s \in Sources : HybridStep(r, s) \/ FailsPart(r, s)
    \/ \E t \in OpenThreads : ClearsThread(t)
    \/ Rests

Spec == Init /\ [][Next]_vars

\* Threads of the pools run what they have taken, a client that stays reads
\* its stream to the end.
Fairness ==
    \A r \in Requests :
        /\ WF_vars(Step(r))
        /\ \A s \in Sources : WF_vars(HybridStep(r, s))

FairSpec == Spec /\ Fairness

----------------------------------------------------------------------------
(* Properties. *)

Answered == {r \in Requests : At(r, "answered")}

\* POST /query: whatever the agents, their fallbacks and the autofix did on
\* the way, the text comes from the source the user selected.  enforce_mode
\* looks at the agent's name only; that an agent answered from its own source
\* depends on the lock.
AnswersComeFromTheChosenSource ==
    \A r \in Answered :
        LET mode == asked[r].profile.mode
        IN  ~Streams(r) /\ mode \in Sources =>
                run[r].result.agent = mode /\ run[r].result.from \subseteq {mode}

\* No path, stream, reroute or fallback ends with text from a knowledge area
\* that the user's role may not query.
PermittedSourcesOnly == \A r \in Requests : run[r].result.from \subseteq asked[r].profile.areas

\* The telemetry in an answer is about that question, and about questions that
\* failed earlier on the same pool thread; never about one that was answered.
TelemetryIsOwnOrOfFailures ==
    \A r \in Answered : run[r].steps \subseteq {r} \cup {q \in Requests : At(q, "failed")}

\* A request that has been resolved with its conversation's last turn: its
\* first look-up is over, move_to_end included.
ResolvedWithTurn(r) == run[r].prior /\ pc[r] \notin Ended

\* A request reads the last turn more than once, in the resolver and again in
\* the handler or the generator.  Once it was resolved with it, no eviction
\* takes it before the request has ended, also when several eviction loops
\* run at once and pop more than they need to: the answer is found with the
\* turn that the question was understood by.
ResolvedTurnsAreKept ==
    [][clears' = clears =>
        \A r \in Requests : ResolvedWithTurn(r) => Thread(r) \notin memory \ memory']_vars

Positions(r, type) == {i \in 1..Len(events[r]) : events[r][i].type = type}

\* A stream tells one story: no token is followed by a reroute, all tokens and
\* the final event are of one agent, and the final event is the last: one
\* "done" if it was answered, errors and no "done" if it failed.
StreamsEndInOneDone ==
    \A r \in Requests :
        /\ \A i \in Positions(r, "token"), k \in Positions(r, "reroute") : k < i
        /\ \A i \in Positions(r, "token"), k \in Positions(r, "done") :
                events[r][i].agent = events[r][k].agent
        /\ Streams(r) /\ At(r, "answered") => Positions(r, "done") = {Len(events[r])}
        /\ At(r, "failed") => Positions(r, "done") = {}

\* Every question is answered or fails, unless its client leaves: no request
\* waits for ever for a pool thread, and none for its own hybrid tasks.
EveryRequestEnds == \A r \in Requests : (pc[r] # "new") ~> (pc[r] \in Ended)

(* What a test says of a selected source and the streams do not keep.       *)

\* "A named retrieval mode must decide which source answers -- with no
\* crossover" (tests/interface/test_mode_isolation_unit.py): also for the
\* answers that are streamed.
StreamsKeepTheMode ==
    \A r \in Answered :
        Streams(r) /\ asked[r].profile.mode \in Sources =>
            run[r].result.from \subseteq {asked[r].profile.mode}

(* What a comment of get_turn says and the code does not keep.              *)

\* thread_memory.py: "A read marks the thread as active, so an in-use
\* conversation is never the one evicted".  From the look-up of get_turn on
\* the conversation is in use, but until move_to_end has run the loop of
\* another request may pop it; move_to_end then raises (LosesEntry).
InUseThreadsAreKept ==
    [][clears' = clears =>
        \A r \in Requests : ResolvedWithTurn(r) \/ turn[r] = "found" =>
            Thread(r) \notin memory \ memory']_vars
=============================================================================
