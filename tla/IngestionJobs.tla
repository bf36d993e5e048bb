---------------------------- MODULE IngestionJobs ----------------------------
(***************************************************************************)
(* Jobs from their submission to their final record: the API process, the  *)
(* RQ workers and the job store between them, corpus jobs that fan out     *)
(* into one job per file, and uploaded Cypher scripts.                     *)
(*                                                                         *)
(* One document job is a single step here: how such jobs interleave inside *)
(* the graph and the stores is the subject of DocumentIngestion.           *)
(***************************************************************************)
EXTENDS JobStore, FiniteSets

CONSTANTS
    Uploads,        \* files users upload
    Corpora,        \* directories: their candidate files, in walk order
    Scripts,        \* Cypher scripts: their statements
    SchemaStatements,   \* statements that fail when run a second time
    Insane,         \* files check_structural_sanity rejects
    Stem, Content,  \* file name stem and content of each file
    NoContent,      \* a logical document without an ACTIVE revision
    CorpusMaxFiles, \* CORPUS_MAX_FILES
    SaveEvery,      \* files between two saves of a running corpus job (100)
    MaxRetries,     \* RQ's Retry(max=2)
    MaxRequests,    \* bound on requests
    MaxFaults       \* bound on failures

ASSUME JobsAssumption ==
    /\ IsFiniteSet(JobIds) /\ JobIds = 1..Cardinality(JobIds)
    /\ SaveEvery \in Nat \ {0} /\ CorpusMaxFiles \in Nat
    /\ MaxRetries \in Nat /\ MaxRequests \in Nat /\ MaxFaults \in Nat

VARIABLES
    useRedis,   \* REDIS_URL is set; it never changes
    requests,   \* number of submissions so far
    created,    \* number of jobs created so far; ids are given in that order
    store,      \* the job store of the API process; with Redis, everyone's
    undispatched,   \* jobs stored by a request that has not dispatched them
    rq,         \* RQ's view of each job
    runs,       \* executions of run_job, by job and executing process
    disk,       \* paths that exist
    active,     \* content of the ACTIVE revision of each logical document
    applied,    \* how often each statement took effect
    faults      \* failures so far

vars == <<useRedis, requests, created, store, undispatched, rq, runs, disk, active, applied, faults>>

API == 0                        \* the API process, among the processes below
Processes == {API} \cup JobIds  \* the work horse of each RQ job

Files == DOMAIN Content
Stems == {Stem[f] : f \in Files}
Statements == UNION {ToSet(s) : s \in Scripts}
CorpusFiles == UNION {ToSet(s) : s \in Corpora}
SourcePaths == {<<"source", f>> : f \in CorpusFiles}
TempPaths == {<<"temp", id>> : id \in JobIds}

Works == Corpora \cup Scripts \cup {<<f>> : f \in Files}
Final == {"completed", "failed"}
Job == [type: {"unstructured", "corpus", "cypher"},
        status: {"queued", "validating"} \cup Final,
        path: SourcePaths \cup TempPaths \cup {<<"corpus">>}, work: Works,
        owns: BOOLEAN, children: Seq(JobIds)]

\* A corpus and a script are sequences of what their names say; no record, and
\* no content, is something else than a record or a content.
ASSUME InputsAssumption ==
    /\ Uploads \subseteq Files
    /\ \A files \in Corpora : files \in Seq(Files)
    /\ \A script \in Scripts : script \in Seq(Statements)
    /\ NoContent \notin {Content[f] : f \in Files}
    /\ NoJob \notin Job

Idle == [at |-> "idle"]
Step == {"start", "process", "scan", "file", "enqueue", "inline", "statement", "finish"}
Run == [at: Step, i: Nat, job: Job \cup {NoJob}, child: JobIds \cup {0}]
RQState == {"none", "queued", "running", "ended", "dead"}

\* Types of the stored records, of RQ's jobs and of the executions.
JobsTypeOK ==
    /\ useRedis \in BOOLEAN
    /\ requests \in 0..MaxRequests /\ created \in JobIds \cup {0}
    /\ store.jobs \in [JobIds -> Job \cup {NoJob}]
    /\ Len(store.index) <= IF store.kind = "redis" THEN IndexMax ELSE created
    /\ ToSet(store.index) \subseteq 1..created
    /\ undispatched \subseteq 1..created
    /\ rq \in [JobIds -> [state: RQState, tries: 0..MaxRetries]]
    /\ \A j \in JobIds, p \in Processes : runs[<<j, p>>] \in Run \cup {Idle}
    /\ disk \subseteq SourcePaths \cup TempPaths
    /\ active \in [Stems -> {Content[f] : f \in Files} \cup {NoContent}]
    /\ applied \in [Statements -> Nat]
    /\ faults \in 0..MaxFaults

\* get_job_store when the API process starts: it falls back to memory when
\* Redis does not answer, and RQ is asked again on the first enqueue.
Init ==
    /\ useRedis \in BOOLEAN
    /\ requests = 0 /\ created = 0
    /\ \/ /\ store = EmptyStore(IF useRedis THEN "redis" ELSE "memory")
          /\ faults = 0
       \/ /\ useRedis /\ MaxFaults > 0
          /\ store = EmptyStore("memory")
          /\ faults = 1
    /\ undispatched = {}
    /\ rq = [j \in JobIds |-> [state |-> "none", tries |-> 0]]
    /\ runs = [x \in JobIds \X Processes |-> Idle]
    /\ disk = SourcePaths
    /\ active = [d \in Stems |-> NoContent]
    /\ applied = [s \in Statements |-> 0]

Fault == faults < MaxFaults /\ faults' = faults + 1

----------------------------------------------------------------------------
(* Submission and dispatch. *)

NewJob(type, path, work, owns) ==
    [type |-> type, status |-> "queued", path |-> path, work |-> work,
     owns |-> owns, children |-> <<>>]

FreshId == created + 1

\* submit_unstructured, submit_cypher and submit_corpus store the job ...
Submit(job) ==
    /\ FreshId \in JobIds /\ requests < MaxRequests
    /\ requests' = requests + 1
    /\ created' = FreshId
    /\ store' = Save(store, FreshId, job)
    /\ undispatched' = undispatched \cup {FreshId}
    /\ UNCHANGED <<useRedis, rq, runs, active, applied, faults>>

SubmitUnstructured(f) ==
    /\ Submit(NewJob("unstructured", <<"temp", FreshId>>, <<f>>, TRUE))
    /\ disk' = disk \cup {<<"temp", FreshId>>}

SubmitCypher(script) ==
    /\ Submit(NewJob("cypher", <<"temp", FreshId>>, script, TRUE))
    /\ disk' = disk \cup {<<"temp", FreshId>>}

SubmitCorpus(files) ==
    /\ Submit(NewJob("corpus", <<"corpus">>, files, FALSE))
    /\ disk' = disk

Started(job, at) == [at |-> at, i |-> 1, job |-> job, child |-> 0]

\* An execution of run_job that has not read the job's record yet.
Starting == Started(NoJob, "start")

Enqueued(j) == [rq EXCEPT ![j] = [state |-> "queued", tries |-> 0]]

\* ... and _dispatch_ingest_job hands it to RQ or, when enqueue_ingest
\* returns None, to a background task of the API process.  An enqueue whose
\* answer is lost does both.
Dispatch(j) ==
    /\ j \in undispatched
    /\ undispatched' = undispatched \ {j}
    /\ \/ /\ useRedis
          /\ rq' = Enqueued(j)
          /\ UNCHANGED <<runs, faults>>
       \/ /\ runs' = [runs EXCEPT ![<<j, API>>] = Starting]
          /\ \/ ~useRedis /\ UNCHANGED <<rq, faults>>
             \/ useRedis /\ Fault /\ rq' \in {rq, Enqueued(j)}
    /\ UNCHANGED <<useRedis, requests, created, store, disk, active, applied>>

----------------------------------------------------------------------------
(* run_job. *)

\* Mutant of Requeued: retries are not counted.
RequeuedForEver(j) == [rq EXCEPT ![j].state = "queued"]

\* What RQ makes of a work horse that raised or died: run it again or not.
Requeued(j) ==
    [rq EXCEPT ![j] = IF @.tries < MaxRetries
                      THEN [state |-> "queued", tries |-> @.tries + 1]
                      ELSE [@ EXCEPT !.state = "dead"]]

\* RQ after the execution of j by p has returned normally.
Returned(j, p) == IF j = p THEN [rq EXCEPT ![j].state = "ended"] ELSE rq

WorkerDequeues(j) ==
    /\ rq[j].state = "queued"
    /\ store.kind = "redis"
    /\ rq' = [rq EXCEPT ![j].state = "running"]
    /\ runs' = [runs EXCEPT ![<<j, j>>] = Starting]
    /\ UNCHANGED <<useRedis, requests, created, store, undispatched, disk, active, applied, faults>>

\* run_ingest_job raises: the API kept the record in its own memory.
WorkerFindsNoJob(j) ==
    /\ rq[j].state = "queued"
    /\ store.kind = "memory"
    /\ rq' = Requeued(j)
    /\ UNCHANGED <<useRedis, requests, created, store, undispatched, runs, disk, active, applied, faults>>

FirstStep == [unstructured |-> "process", corpus |-> "scan", cypher |-> "statement"]

At(j, p, step) == runs[<<j, p>>].at = step

\* The job as the executing process knows it: it is not read again.
Local(j, p) == runs[<<j, p>>].job

\* store.get and the first status of run_job, when the record is there.
BeginJob(j, p) ==
    /\ At(j, p, "start") /\ Get(store, j) # NoJob
    /\ LET job == [Get(store, j) EXCEPT !.status = "validating"]
       IN  /\ store' = Save(store, j, job)
           /\ runs' = [runs EXCEPT ![<<j, p>>] = Started(job, FirstStep[job.type])]
    /\ UNCHANGED <<useRedis, requests, created, undispatched, rq, disk, active, applied, faults>>

\* The corpus job that runs j inline, in the same process.
Parents(j, p) == {q \in JobIds : At(q, p, "inline") /\ runs[<<q, p>>].child = j}

\* _cleanup_job_inputs.
CleanedUp(job) == IF job.owns THEN disk \ {job.path} ELSE disk

\* The except block of run_job and its finally block, given the store.
FailedIn(s, j, p) ==
    /\ store' = Save(s, j, [Local(j, p) EXCEPT !.status = "failed"])
    /\ rq' = Returned(j, p)
    /\ disk' = CleanedUp(Local(j, p))

JobFails(j, p) ==
    /\ FailedIn(store, j, p)
    /\ runs' = [runs EXCEPT ![<<j, p>>] = Idle]

\* _ensure_rbac_schema raises, outside run_job's try block.  A job run inline
\* takes its corpus job with it; a background task just ends.
RbacSchemaFails(j, p) ==
    /\ At(j, p, "start") /\ Get(store, j) # NoJob
    /\ Fault
    /\ LET begun == Save(store, j, [Get(store, j) EXCEPT !.status = "validating"])
       IN  IF Parents(j, p) # {}
           THEN \E q \in Parents(j, p) :
                    /\ FailedIn(begun, q, p)
                    /\ runs' = [runs EXCEPT ![<<j, p>>] = Idle, ![<<q, p>>] = Idle]
           ELSE /\ store' = begun
                /\ runs' = [runs EXCEPT ![<<j, p>>] = Idle]
                /\ rq' = IF j = p THEN Requeued(j) ELSE rq
                /\ disk' = disk
    /\ UNCHANGED <<useRedis, requests, created, undispatched, active, applied>>

\* The failure of any other call while the job is processed.
ProcessingFails(j, p) ==
    /\ runs[<<j, p>>].at \in {"process", "scan", "statement"}
    /\ Fault
    /\ JobFails(j, p)
    /\ UNCHANGED <<useRedis, requests, created, undispatched, active, applied>>

FinishJob(j, p) ==
    /\ At(j, p, "finish")
    /\ store' = Save(store, j, [Local(j, p) EXCEPT !.status = "completed"])
    /\ runs' = [runs EXCEPT ![<<j, p>>] = Idle]
    /\ rq' = Returned(j, p)
    /\ disk' = CleanedUp(Local(j, p))
    /\ UNCHANGED <<useRedis, requests, created, undispatched, active, applied, faults>>

----------------------------------------------------------------------------
(* What the three types of job do. *)

\* _process_unstructured: an identical document is skipped, wherever its
\* content is filed; otherwise the revision of the file's stem is replaced.
ProcessUnstructured(j, p) ==
    /\ At(j, p, "process")
    /\ IF Local(j, p).path \notin disk
       THEN JobFails(j, p) /\ active' = active
       ELSE LET f == Local(j, p).work[1]
            IN  /\ active' = IF \E d \in Stems : active[d] = Content[f] THEN active
                             ELSE [active EXCEPT ![Stem[f]] = Content[f]]
                /\ runs' = [runs EXCEPT ![<<j, p>>].at = "finish"]
                /\ UNCHANGED <<store, rq, disk>>
    /\ UNCHANGED <<useRedis, requests, created, undispatched, applied, faults>>

\* Mutant of RunStatement: any ClientError is taken for a schema error.
RunStatementOrSkip(j, p) ==
    /\ At(j, p, "statement") /\ runs[<<j, p>>].i \in 1..Len(Local(j, p).work)
    /\ runs[<<j, p>>].i = 1 => Local(j, p).path \in disk
    /\ LET s == Local(j, p).work[runs[<<j, p>>].i]
       IN  \/ /\ applied' = IF s \in SchemaStatements /\ applied[s] > 0 THEN applied
                            ELSE [applied EXCEPT ![s] = @ + 1]
              /\ faults' = faults
           \/ applied' = applied /\ Fault
    /\ runs' = [runs EXCEPT ![<<j, p>>].i = @ + 1]
    /\ UNCHANGED <<useRedis, requests, created, store, undispatched, rq, disk, active>>

\* _process_cypher: one auto-commit statement after the other; a schema rule
\* that exists already is no error.
RunStatement(j, p) ==
    /\ At(j, p, "statement") /\ runs[<<j, p>>].i \in 1..Len(Local(j, p).work)
    /\ runs[<<j, p>>].i = 1 => Local(j, p).path \in disk
    /\ LET s == Local(j, p).work[runs[<<j, p>>].i]
       IN  applied' = IF s \in SchemaStatements /\ applied[s] > 0 THEN applied
                      ELSE [applied EXCEPT ![s] = @ + 1]
    /\ runs' = [runs EXCEPT ![<<j, p>>].i = @ + 1]
    /\ UNCHANGED <<useRedis, requests, created, store, undispatched, rq, disk, active, faults>>

EndScript(j, p) ==
    /\ At(j, p, "statement")
    /\ \/ /\ Local(j, p).work # <<>> /\ runs[<<j, p>>].i > Len(Local(j, p).work)
          /\ runs' = [runs EXCEPT ![<<j, p>>].at = "finish"]
          /\ UNCHANGED <<store, rq, disk>>
       \/ /\ \/ Local(j, p).work = <<>>
             \/ runs[<<j, p>>].i = 1 /\ Local(j, p).path \notin disk
          /\ JobFails(j, p)
    /\ UNCHANGED <<useRedis, requests, created, undispatched, active, applied, faults>>

\* _walk_corpus_source and the cap on the number of files.
ScanCorpus(j, p) ==
    /\ At(j, p, "scan")
    /\ IF Len(Local(j, p).work) > CorpusMaxFiles
       THEN JobFails(j, p)
       ELSE /\ runs' = [runs EXCEPT ![<<j, p>>].at = "file"]
            /\ UNCHANGED <<store, rq, disk>>
    /\ UNCHANGED <<useRedis, requests, created, undispatched, active, applied, faults>>

Candidate(j, p) == Local(j, p).work[runs[<<j, p>>].i]

AtFile(j, p) == At(j, p, "file") /\ runs[<<j, p>>].i \in 1..Len(Local(j, p).work)

\* Mutant of IsDuplicate: any ACTIVE revision of the document will do.
HasActiveRevision(f) == active[Stem[f]] # NoContent

IsDuplicate(f) == active[Stem[f]] = Content[f]

\* check_structural_sanity or check_duplicate gives a reason to skip a file.
SkipFile(j, p) ==
    /\ AtFile(j, p)
    /\ Candidate(j, p) \in Insane \/ IsDuplicate(Candidate(j, p))
    /\ runs' = [runs EXCEPT ![<<j, p>>].i = @ + 1]
    /\ UNCHANGED <<useRedis, requests, created, store, undispatched, rq, disk, active, applied, faults>>

\* A child job is stored; a failing duplicate check accepts the file.
AcceptFile(j, p) ==
    /\ AtFile(j, p) /\ FreshId \in JobIds
    /\ Candidate(j, p) \notin Insane
    /\ IF IsDuplicate(Candidate(j, p)) THEN Fault ELSE faults' = faults
    /\ created' = FreshId
    /\ store' = Save(store, FreshId,
                     NewJob("unstructured", <<"source", Candidate(j, p)>>,
                            <<Candidate(j, p)>>, FALSE))
    /\ runs' = [runs EXCEPT ![<<j, p>>].at = "enqueue", ![<<j, p>>].child = FreshId,
                            ![<<j, p>>].job.children = Append(@, FreshId)]
    /\ UNCHANGED <<useRedis, requests, undispatched, rq, disk, active, applied>>

\* The next file, with the save after every SaveEvery files.
Advance(j, p) ==
    /\ runs' = [runs EXCEPT ![<<j, p>>].at = "file", ![<<j, p>>].i = @ + 1, ![<<j, p>>].child = 0]
    /\ store' = IF runs[<<j, p>>].i % SaveEvery = 0 THEN Save(store, j, Local(j, p)) ELSE store

EnqueueChild(j, p) ==
    /\ At(j, p, "enqueue") /\ useRedis
    /\ rq' = Enqueued(runs[<<j, p>>].child)
    /\ Advance(j, p)
    /\ UNCHANGED <<useRedis, requests, created, undispatched, disk, active, applied, faults>>

\* Mutant of RunChildInline: the child is run although it was enqueued.
EnqueueAndRunChild(j, p) ==
    /\ At(j, p, "enqueue")
    /\ rq' = IF useRedis THEN Enqueued(runs[<<j, p>>].child) ELSE rq
    /\ runs' = [runs EXCEPT ![<<j, p>>].at = "inline", ![<<runs[<<j, p>>].child, p>>] = Starting]
    /\ UNCHANGED <<useRedis, requests, created, store, undispatched, disk, active, applied, faults>>

\* enqueue_ingest returned None, whatever RQ knows of the job: run it here.
RunChildInline(j, p) ==
    /\ At(j, p, "enqueue")
    /\ \/ ~useRedis /\ UNCHANGED <<rq, faults>>
       \/ useRedis /\ Fault /\ rq' \in {rq, Enqueued(runs[<<j, p>>].child)}
    /\ runs' = [runs EXCEPT ![<<j, p>>].at = "inline", ![<<runs[<<j, p>>].child, p>>] = Starting]
    /\ UNCHANGED <<useRedis, requests, created, store, undispatched, disk, active, applied>>

ResumeCorpus(j, p) ==
    /\ At(j, p, "inline") /\ runs[<<runs[<<j, p>>].child, p>>] = Idle
    /\ Advance(j, p)
    /\ UNCHANGED <<useRedis, requests, created, undispatched, rq, disk, active, applied, faults>>

EndCorpus(j, p) ==
    /\ At(j, p, "file") /\ runs[<<j, p>>].i > Len(Local(j, p).work)
    /\ store' = Save(store, j, Local(j, p))
    /\ runs' = [runs EXCEPT ![<<j, p>>].at = "finish"]
    /\ UNCHANGED <<useRedis, requests, created, undispatched, rq, disk, active, applied, faults>>

----------------------------------------------------------------------------
(* Processes that die. *)

WithoutRunsOf(p) == [x \in JobIds \X Processes |-> IF x[2] = p THEN Idle ELSE runs[x]]

WorkerDies(j) ==
    /\ rq[j].state = "running"
    /\ Fault
    /\ runs' = WithoutRunsOf(j)
    /\ rq' = Requeued(j)
    /\ UNCHANGED <<useRedis, requests, created, store, undispatched, disk, active, applied>>

\* The work horse dies after run_job returned: RQ runs the job once more.
Redeliver(j) ==
    /\ rq[j].state = "ended" /\ rq[j].tries < MaxRetries
    /\ Fault
    /\ rq' = Requeued(j)
    /\ UNCHANGED <<useRedis, requests, created, store, undispatched, runs, disk, active, applied>>

ApiRestarts ==
    /\ Fault
    /\ store' = IF store.kind = "memory" THEN EmptyStore("memory") ELSE store
    /\ undispatched' = {}
    /\ runs' = WithoutRunsOf(API)
    /\ UNCHANGED <<useRedis, requests, created, rq, disk, active, applied>>

----------------------------------------------------------------------------
RunStep(j, p) ==
    \/ BeginJob(j, p) \/ FinishJob(j, p) \/ ProcessUnstructured(j, p)
    \/ RunStatement(j, p) \/ EndScript(j, p) \/ ScanCorpus(j, p)
    \/ SkipFile(j, p) \/ AcceptFile(j, p) \/ EnqueueChild(j, p)
    \/ RunChildInline(j, p) \/ ResumeCorpus(j, p) \/ EndCorpus(j, p)

Dequeue(j) == WorkerDequeues(j) \/ WorkerFindsNoJob(j)

Next ==
    \/ \E f \in Uploads : SubmitUnstructured(f)
    \/ \E script \in Scripts : SubmitCypher(script)
    \/ \E files \in Corpora : SubmitCorpus(files)
    \/ \E j \in JobIds :
        \/ Dispatch(j) \/ Dequeue(j) \/ WorkerDies(j) \/ Redeliver(j)
        \/ \E p \in Processes :
            RunStep(j, p) \/ RbacSchemaFails(j, p) \/ ProcessingFails(j, p)
    \/ ApiRestarts

Spec == Init /\ [][Next]_vars

\* As long as a request, RQ or an execution can go on, one of them does.  No
\* more is needed: none of them goes on for ever.
Fairness ==
    WF_vars(\E j \in JobIds :
                Dispatch(j) \/ Dequeue(j) \/ \E p \in Processes : RunStep(j, p))

FairSpec == Spec /\ Fairness

----------------------------------------------------------------------------
(* Properties. *)

StoredJobs(type) == {j \in JobIds : Get(store, j) # NoJob /\ Get(store, j).type = type}

Children == {j \in StoredJobs("unstructured") : ~Get(store, j).owns}

Completed(j) == Get(store, j).status = "completed"

\* A corpus job reads the user's own directory: whichever process runs its
\* children, and whatever became of their records in between, the cleanup of
\* temporary inputs never deletes one of the user's files.
SourceFilesKept == SourcePaths \subseteq disk

\* What a client polls: the children a corpus record names are jobs of their
\* own, and when nothing fails a finished corpus job names all of them,
\* whether they were queued or run inline and whenever the record was saved.
ChildrenAreNamed ==
    LET named == UNION {ToSet(Get(store, j).children) : j \in StoredJobs("corpus")}
    IN  /\ named \subseteq Children
        /\ (/\ faults = 0
            /\ \A j \in StoredJobs("corpus") : Get(store, j).status \in Final)
                => named = Children

\* A completed corpus job has left out no acceptable file, also when a dead
\* worker made it start over: a job was stored for a file of that content.
\* (A memory store forgets its jobs when the API restarts.)
CorpusCovered ==
    (store.kind = "redis" \/ faults = 0) =>
        \A j \in StoredJobs("corpus") : Completed(j) =>
            \A f \in ToSet(Get(store, j).work) \ Insane :
                \E k \in StoredJobs("unstructured") :
                    Content[Get(store, k).work[1]] = Content[f]

\* A script's statements take effect in order, in however many attempts, and
\* a job is only reported completed when all of them have.
ScriptsInOrder ==
    /\ \A s \in Scripts : \A k, l \in 1..Len(s) :
            k < l /\ applied[s[l]] > 0 => applied[s[k]] > 0
    /\ \A j \in StoredJobs("cypher") : Completed(j) =>
            \A s \in ToSet(Get(store, j).work) : applied[s] > 0

\* What a client may conclude from "completed": the files of the corpus were
\* taken up, and the statements of the script were applied in their order.
CompletedJobsAreDone == CorpusCovered /\ ScriptsInOrder

\* As long as nothing fails a job runs once, in one process: what a client
\* has seen as completed or failed stays as it is.
FinalRecordsStay ==
    [][faults' = 0 => \A j \in JobIds :
        Get(store, j) # NoJob /\ Get(store, j).status \in Final =>
            Get(store, j)' = Get(store, j)]_vars

\* The most recent jobs, and those only, in the order of their creation.
NewestFirst(limit) ==
    LET listed == Listing(store, limit)
    IN  /\ \A a, b \in 1..Len(listed) : a < b => listed[a] > listed[b]
        /\ \A j \in JobIds : Get(store, j) # NoJob /\ ~Contains(listed, j) =>
            Len(listed) = limit /\ \A a \in 1..Len(listed) : listed[a] > j

Limits == 1..3

\* The listing of the in-memory store is newest first, however jobs and
\* children are saved again; the Redis store never lists a job twice.
ListingIsRecent ==
    \A limit \in Limits :
        /\ store.kind = "memory" => NewestFirst(limit)
        /\ IsInjective(Listing(store, limit))

AtRest(j) ==
    /\ j \notin undispatched
    /\ rq[j].state \notin {"queued", "running"}
    /\ \A p \in Processes : runs[<<j, p>>] = Idle

\* All jobs come to rest, in whichever process they run and whatever fails:
\* no worker waits for a record that is not there, and no corpus job for a
\* child.  (Unless a corpus job is out of job ids, which are bounded here.)
JobsComeToRest ==
    LET outOfIds == FreshId \notin JobIds /\ \E j \in JobIds, p \in Processes : AtFile(j, p)
    IN  []<>(outOfIds \/ \A j \in JobIds : AtRest(j))
=============================================================================
