----------------------------- MODULE FeedbackLoop -----------------------------
(***************************************************************************)
(* The feedback loop: what was answered is recorded, users label it, and   *)
(* the labels steer later questions. Every API process has one recorder    *)
(* thread, one store (Redis, shared, or JSONL files when Redis did not     *)
(* answer when the process first asked for it) and one cache of hints.     *)
(* Only questions of one pattern are modelled, so a pattern hash is told   *)
(* from another by the agent in it.                                        *)
(***************************************************************************)
EXTENDS Integers, SequencesExt, FiniteSetsExt, TLC

CONSTANTS
    Processes,  \* API processes
    Routers,    \* those of them that are asked questions
    Policies,   \* what each policy of the routing service looks up: <<dimension, agent>>
    Answered,   \* the answers: a function from request ids to [agent, mode, tool]
    Votes,      \* what users may say of each answer: a set of verdicts
    Order,      \* the names of modes and tools in the order of their names
    None,
    MinSamples, \* RETRIEVAL_FEEDBACK_MIN_SAMPLES
    MinMargin,  \* RETRIEVAL_FEEDBACK_MIN_MARGIN, in percent
    CacheTicks, \* RETRIEVAL_FEEDBACK_HINT_CACHE_SEC
    DayTicks,   \* length of a day
    RetainDays, \* RETRIEVAL_FEEDBACK_JSONL_RETAIN_DAYS
    MaxTicks,   \* bound on the clock
    MaxLabels,  \* bound on the labels
    MaxFaults   \* bound on errors of the stores, expiries and dead processes

Ids == DOMAIN Answered
Verdicts == {"passed", "failed"}

ASSUME FeedbackAssumption ==
    /\ Routers \subseteq Processes /\ IsFiniteSet(Processes)
    /\ MinSamples \in Nat \ {0} /\ MinMargin \in 0..100 /\ CacheTicks \in Nat
    /\ DayTicks \in Nat \ {0} /\ RetainDays \in Nat \ {0}
    /\ \A i \in Ids : {Answered[i].mode, Answered[i].tool} \subseteq ToSet(Order)
    /\ \A i \in Ids : Answered[i].agent # "" /\ Votes[i] \subseteq Verdicts

VARIABLES
    backend,    \* get_feedback_store of each process
    queue,      \* the tasks of each recorder thread
    work,       \* the label that it has read the request for
    lines,      \* JSONL: the rows of all files
    reqs,       \* Redis: the record of each request
    agg,        \* Redis: the counters
    index,      \* JsonlFeedbackStore._req_index of each process
    hints,      \* _hint_cache of each process
    asking,     \* the question of each process that is being routed
    now, faults,
    from,       \* the day each request was answered, and (history) by which process
    labels,     \* history: the labels the API accepted
    attached,   \* history: how many labels were attached, per backend
    missed,     \* history: labels that found no request, and the process that looked
    known       \* history: how many labels each backend had when each tick began

store == <<backend, queue, work, lines, reqs, agg, index>>
history == <<from, labels, attached, missed, known>>
vars == <<store, hints, asking, now, faults, history>>

Backends == {"redis", "jsonl"}
Dimensions == {"retrieval_mode", "route_tool"}
Outcomes == {"unlabelled"} \cup Verdicts
Agents == {Answered[i].agent : i \in Ids} \cup {key[2] : key \in Policies} \cup {""}
Keys == Dimensions \X Agents \X ToSet(Order)

ASSUME NoneAssumption == None \notin Outcomes \cup [by: Processes, day: Nat]

\* aggregate_key: the counters of a request, one for each dimension; its
\* pattern names the agent.
KeysOf(i) == {<<"retrieval_mode", Answered[i].agent, Answered[i].mode>>,
              <<"route_tool", Answered[i].agent, Answered[i].tool>>}

Zero == [passed |-> 0, failed |-> 0, queries |-> 0]

Init ==
    /\ backend \in [Processes -> Backends]
    /\ queue = [p \in Processes |-> <<>>] /\ work = [p \in Processes |-> None]
    /\ lines = <<>> /\ reqs = [i \in Ids |-> None] /\ agg = [k \in Keys |-> Zero]
    /\ index = [p \in Processes |-> [i \in Ids |-> None]]
    /\ hints = [p \in Processes |-> <<>>] /\ asking = [p \in Processes |-> None]
    /\ now = 0 /\ faults = 0
    /\ from = [i \in Ids |-> None] /\ labels = <<>> /\ attached = [b \in Backends |-> 0]
    /\ missed = <<>> /\ known = [b \in Backends |-> <<0>>]

Faults == faults < MaxFaults /\ faults' = faults + 1
Submit(p, task) == queue' = [queue EXCEPT ![p] = Append(@, task)]
NextTask(p) == queue' = [queue EXCEPT ![p] = Tail(@)]
Doing(p, kind) == queue[p] # <<>> /\ Head(queue[p]).kind = kind /\ work[p] = None

----------------------------------------------------------------------------
(* The API. *)

Row(i, outcome) == [id |-> i, outcome |-> outcome]

\* POST /query: maybe_record_retrieval_feedback before the answer is sent.
Answers(p, i) ==
    /\ from[i] = None
    /\ Submit(p, [kind |-> "record", id |-> i])
    /\ from' = [from EXCEPT ![i] = [by |-> p, day |-> now \div DayTicks]]
    /\ UNCHANGED <<backend, work, lines, reqs, agg, index, hints, asking, now, faults,
                   labels, attached, missed, known>>

\* POST /feedback/outcome, which any process may receive.
Labels(p, i, verdict) ==
    /\ from[i] # None /\ Len(labels) < MaxLabels
    /\ Submit(p, [kind |-> "attach", id |-> i, outcome |-> verdict])
    /\ labels' = Append(labels, Row(i, verdict))
    /\ UNCHANGED <<backend, work, lines, reqs, agg, index, hints, asking, now, faults,
                   from, attached, missed, known>>

----------------------------------------------------------------------------
(* The recorder thread: _write_event and _attach. *)

Writes(row) == lines' = Append(lines, row)

\* One pipeline, or the append and the index under the store's lock.  The stream
\* of Redis, which only recent_events reads, is left out.
Records(p) ==
    /\ Doing(p, "record")
    /\ LET i == Head(queue[p]).id
       IN  IF backend[p] = "redis"
           THEN /\ reqs' = [reqs EXCEPT ![i] = "unlabelled"]
                /\ agg' = [k \in Keys |-> IF k \in KeysOf(i) THEN [agg[k] EXCEPT !.queries = @ + 1]
                                          ELSE agg[k]]
                /\ UNCHANGED <<lines, index>>
           ELSE /\ Writes(Row(i, "unlabelled"))
                /\ index' = [index EXCEPT ![p][i] = "unlabelled"]
                /\ UNCHANGED <<reqs, agg>>
    /\ NextTask(p)
    /\ UNCHANGED <<backend, work, hints, asking, now, faults, history>>

\* attach_outcome returns False, which is logged.
Misses(p, task) == missed' = Append(missed, [id |-> task.id, outcome |-> task.outcome, by |-> p])

\* Mutant of ReadsRequest: a label that misses stays in the queue.
MissIsRetried(p) ==
    /\ Doing(p, "attach") /\ backend[p] = "redis"
    /\ LET task == Head(queue[p])
       IN  IF reqs[task.id] = None
           THEN UNCHANGED <<queue, work>>
           ELSE work' = [work EXCEPT ![p] = task] /\ UNCHANGED queue
    /\ UNCHANGED <<backend, lines, reqs, agg, index, hints, asking, now, faults, history>>

\* RedisFeedbackStore.attach_outcome reads the request ...
ReadsRequest(p) ==
    /\ Doing(p, "attach") /\ backend[p] = "redis"
    /\ LET task == Head(queue[p])
       IN  IF reqs[task.id] = None
           THEN NextTask(p) /\ Misses(p, task) /\ UNCHANGED work
           ELSE work' = [work EXCEPT ![p] = task] /\ UNCHANGED <<queue, missed>>
    /\ UNCHANGED <<backend, lines, reqs, agg, index, hints, asking, now, faults,
                   from, labels, attached, known>>

\* Mutant of Incremented: the counters are written as they were read.
IncrementedOnce(counters, i, outcome) ==
    [k \in Keys |-> IF k \in KeysOf(i) THEN [counters[k] EXCEPT ![outcome] = 1] ELSE counters[k]]

\* hincrby for every dimension.
Incremented(counters, i, outcome) ==
    [k \in Keys |-> IF k \in KeysOf(i) THEN [counters[k] EXCEPT ![outcome] = @ + 1] ELSE counters[k]]

\* ... and writes it and the counters in one pipeline.
AttachesRedis(p) ==
    /\ work[p] # None
    /\ LET task == work[p]
       IN  /\ reqs' = [reqs EXCEPT ![task.id] = task.outcome]
           /\ agg' = Incremented(agg, task.id, task.outcome)
           /\ attached' = [attached EXCEPT !["redis"] = @ + 1]
    /\ work' = [work EXCEPT ![p] = None] /\ NextTask(p)
    /\ UNCHANGED <<backend, lines, index, hints, asking, now, faults, from, labels, missed, known>>

\* There is a file for each day a request of which was recorded or labelled:
\* a label goes to the file of its request.  The newest RetainDays are read.
FileDays == {from[lines[n].id].day : n \in DOMAIN lines}
Kept(i) == Cardinality({day \in FileDays : day > from[i].day}) < RetainDays

\* JsonlFeedbackStore.attach_outcome: from the index, or from the files, which
\* all processes append to.
AttachesJsonl(p) ==
    /\ Doing(p, "attach") /\ backend[p] = "jsonl"
    /\ LET task == Head(queue[p])
           onDisk == Kept(task.id) /\ \E n \in DOMAIN lines : lines[n].id = task.id
       IN  IF index[p][task.id] = None /\ ~onDisk
           THEN Misses(p, task) /\ UNCHANGED <<lines, index, attached>>
           ELSE /\ Writes(Row(task.id, task.outcome))
                /\ index' = [index EXCEPT ![p][task.id] = task.outcome]
                /\ attached' = [attached EXCEPT !["jsonl"] = @ + 1]
                /\ UNCHANGED missed
    /\ NextTask(p)
    /\ UNCHANGED <<backend, work, reqs, agg, hints, asking, now, faults, from, labels, known>>

\* An exception of the store is logged and the task is gone.
TaskFails(p) ==
    /\ queue[p] # <<>> /\ Faults
    /\ NextTask(p) /\ work' = [work EXCEPT ![p] = None]
    /\ UNCHANGED <<backend, lines, reqs, agg, index, hints, asking, now, history>>

\* RETRIEVAL_FEEDBACK_REQ_TTL_SEC
RequestExpires(i) ==
    /\ reqs[i] # None /\ Faults
    /\ reqs' = [reqs EXCEPT ![i] = None]
    /\ UNCHANGED <<backend, queue, work, lines, agg, index, hints, asking, now, history>>

\* Counters of a pattern that were not increased for
\* RETRIEVAL_FEEDBACK_AGG_TTL_DAYS.
CountersExpire(dim, agent) ==
    /\ \E x \in ToSet(Order) : agg[<<dim, agent, x>>] # Zero
    /\ Faults
    /\ agg' = [k \in Keys |-> IF k[1] = dim /\ k[2] = agent THEN Zero ELSE agg[k]]
    /\ UNCHANGED <<backend, queue, work, lines, reqs, index, hints, asking, now, history>>

\* Queue, index and cache of a process are in its memory.
ProcessRestarts(p) ==
    /\ Faults
    /\ queue' = [queue EXCEPT ![p] = <<>>] /\ work' = [work EXCEPT ![p] = None]
    /\ index' = [index EXCEPT ![p] = [i \in Ids |-> None]]
    /\ hints' = [hints EXCEPT ![p] = <<>>] /\ asking' = [asking EXCEPT ![p] = None]
    /\ \E b \in Backends : backend' = [backend EXCEPT ![p] = b]
    /\ UNCHANGED <<lines, reqs, agg, now, history>>

----------------------------------------------------------------------------
(* Hints. *)

\* aggregate_stats: the counters of Redis, or the rows of the newest files one
\* by one, where a labelled request has a row for the answer and one for each
\* label.
Stats(b, dim, agent) ==
    [x \in ToSet(Order) |->
        IF b = "redis" THEN agg[<<dim, agent, x>>]
        ELSE LET rows(outcomes) == {n \in DOMAIN lines :
                                      /\ <<dim, agent, x>> \in KeysOf(lines[n].id)
                                      /\ lines[n].outcome \in outcomes /\ Kept(lines[n].id)}
             IN  [passed |-> Cardinality(rows({"passed"})), failed |-> Cardinality(rows({"failed"})),
                  queries |-> Cardinality(rows(Outcomes))]]

\* _score_mode
Labelled(row) == row.passed + row.failed

\* _rank_stats sorts by the rate, the number of labels and the name.
Before(stats, x, y) ==
    LET a == stats[x].passed * Labelled(stats[y])
        b == stats[y].passed * Labelled(stats[x])
        place(z) == CHOOSE n \in DOMAIN Order : Order[n] = z
    IN  \/ a > b
        \/ a = b /\ Labelled(stats[x]) > Labelled(stats[y])
        \/ a = b /\ Labelled(stats[x]) = Labelled(stats[y]) /\ place(x) < place(y)

Ranked(stats) ==
    SetToSortSeq({x \in DOMAIN stats : Labelled(stats[x]) > 0}, LAMBDA x, y : Before(stats, x, y))

Margin(stats, ranked) ==
    LET first == stats[ranked[1]]
        second == IF Len(ranked) > 1 THEN stats[ranked[2]] ELSE [passed |-> 0, failed |-> 1]
    IN  100 * (first.passed * Labelled(second) - second.passed * Labelled(first))
            >= MinMargin * Labelled(first) * Labelled(second)

\* _rank_stats: the best, when it has the samples and leads by the margin.
Best(stats) ==
    LET ranked == Ranked(stats)
    IN  IF ranked # <<>> /\ Labelled(stats[ranked[1]]) >= MinSamples /\ Margin(stats, ranked)
        THEN ranked[1] ELSE None

Fresh(p, key) == key \in DOMAIN hints[p] /\ now - hints[p][key].at < CacheTicks

\* best_mode_for_question: a cached hint is used, otherwise the time is taken ...
LooksUp(p, key) ==
    /\ asking[p] = None /\ ~Fresh(p, key)
    /\ asking' = [asking EXCEPT ![p] = [key |-> key, at |-> now, hint |-> None, asOf |-> -1]]
    /\ UNCHANGED <<store, hints, now, faults, history>>

\* ... the counters are read ...
Aggregates(p) ==
    /\ asking[p] # None /\ asking[p].asOf = -1
    /\ asking' = [asking EXCEPT ![p].hint = Best(Stats(backend[p], asking[p].key[1], asking[p].key[2])),
                                ![p].asOf = attached[backend[p]]]
    /\ UNCHANGED <<store, hints, now, faults, history>>

\* The cache with what was found at that time.
Cached(p, at) ==
    LET key == asking[p].key
        entry == [hint |-> asking[p].hint, at |-> at, asOf |-> asking[p].asOf]
    IN  [k \in DOMAIN hints[p] \cup {key} |-> IF k = key THEN entry ELSE hints[p][k]]

\* Mutant of CachesHint: the time is taken after the counters were read.
CachesHintLate(p) ==
    /\ asking[p] # None /\ asking[p].asOf # -1
    /\ hints' = [hints EXCEPT ![p] = Cached(p, now)]
    /\ asking' = [asking EXCEPT ![p] = None]
    /\ UNCHANGED <<store, now, faults, history>>

\* ... and the hint is cached as of that time.
CachesHint(p) ==
    /\ asking[p] # None /\ asking[p].asOf # -1
    /\ hints' = [hints EXCEPT ![p] = Cached(p, asking[p].at)]
    /\ asking' = [asking EXCEPT ![p] = None]
    /\ UNCHANGED <<store, now, faults, history>>

Tick ==
    /\ now < MaxTicks /\ now' = now + 1
    /\ known' = [b \in Backends |-> Append(known[b], attached[b])]
    /\ UNCHANGED <<store, hints, asking, faults, from, labels, attached, missed>>

Recorder(p) == Records(p) \/ ReadsRequest(p) \/ AttachesRedis(p) \/ AttachesJsonl(p)

Next ==
    \/ \E p \in Processes :
        \/ \E i \in Ids : \E verdict \in Votes[i] : Labels(p, i, verdict)
        \/ Recorder(p) \/ TaskFails(p) \/ ProcessRestarts(p)
        \/ Aggregates(p) \/ CachesHint(p)
    \/ \E p \in Routers : (\E i \in Ids : Answers(p, i)) \/ \E key \in Policies : LooksUp(p, key)
    \/ \E i \in Ids : RequestExpires(i)
    \/ \E dim \in Dimensions, agent \in Agents : CountersExpire(dim, agent)
    \/ Tick

Spec == Init /\ [][Next]_vars

\* The recorder threads run.
FairSpec == Spec /\ \A p \in Processes : WF_vars(Recorder(p))

----------------------------------------------------------------------------
(* Properties. *)

\* Types; a label is worked on while it is at the head of the queue.
FeedbackTypeOK ==
    /\ backend \in [Processes -> Backends]
    /\ \A i \in Ids : reqs[i] \in Outcomes \cup {None}
    /\ \A p \in Processes : work[p] # None => queue[p] # <<>> /\ work[p] = Head(queue[p])
    /\ \A k \in Keys : agg[k].queries \in Nat

\* The rows of s that give the counter k the verdict.
Times(s, k, verdict) ==
    Cardinality({n \in DOMAIN s : k \in KeysOf(s[n].id) /\ s[n].outcome = verdict})

\* The labels of that kind that wait in a queue, as <<process, place>>.
IsLabel(task, k, verdict) ==
    task.kind = "attach" /\ k \in KeysOf(task.id) /\ task.outcome = verdict
Waiting(q, k, verdict) ==
    UNION {{p} \X {n \in DOMAIN q[p] : IsLabel(q[p][n], k, verdict)} : p \in Processes}

\* Those in files that are no longer read.
Forgotten(k, verdict) ==
    Cardinality({n \in DOMAIN lines :
        k \in KeysOf(lines[n].id) /\ lines[n].outcome = verdict /\ ~Kept(lines[n].id)})

\* What the API has accepted is what the counts show that hints are ranked by,
\* in both stores together, but for labels that still wait, that found no
\* request, or whose file is no longer read: none is counted twice, whichever
\* processes attach labels of one answer at the same time, and none is lost
\* while nothing failed, expired or restarted.  Then a label finds no request
\* only if another process than the one that answered received it.
LabelsAreAccountedFor ==
    /\ \A k \in UNION {KeysOf(i) : i \in Ids}, verdict \in Verdicts :
        LET shown(b) == Stats(b, k[1], k[2])[k[3]][verdict]
            found == shown("redis") + shown("jsonl") + Forgotten(k, verdict)
                     + Cardinality(Waiting(queue, k, verdict)) + Times(missed, k, verdict)
        IN  found <= Times(labels, k, verdict) /\ (faults = 0 => found = Times(labels, k, verdict))
    /\ faults = 0 => \A n \in DOMAIN missed : from[missed[n].id].by # missed[n].by

\* A hint that is still used was ranked from counts read after every label
\* that was attached before the time the cache says: it misses only labels
\* younger than the cache may be.
HintsAreNoOlderThanTheySay ==
    faults = 0 => \A p \in Processes : \A key \in DOMAIN hints[p] :
        hints[p][key].asOf >= known[backend[p]][hints[p][key].at + 1]

\* Every task of a recorder thread is done or given up.
QueuesDrain == \A p \in Processes : queue[p] # <<>> ~> queue[p] = <<>>

\* docs/ARCHITECTURE.md: the routing service "adjusts multistep vs
\* text2cypher, document hybrid mode, or MCP route - only after enough labeled
\* samples": once the answers of some agent have the samples and the margin
\* for a tool, there is a hint where RouteToolPolicy looks for one.
LabelledToolsSteerRoutes ==
    \A p \in Processes :
        (\E agent \in Agents \ {""} : Best(Stats(backend[p], "route_tool", agent)) # None)
            => Best(Stats(backend[p], "route_tool", "")) # None
=============================================================================
