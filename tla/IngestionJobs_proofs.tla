------------------------- MODULE IngestionJobs_proofs -------------------------
(***************************************************************************)
(* Proofs about IngestionJobs, for every number of jobs, requests and      *)
(* failures, every corpus and every bound of the job store.                *)
(***************************************************************************)
EXTENDS IngestionJobs, FiniteSetTheorems, SequenceTheorems, WellFoundedInduction, TLAPS

Fields == {"type", "status", "path", "work", "owns", "children"}

\* The cleanup of this job's inputs takes a temporary file at most.
Careful(job) ==
    /\ DOMAIN job = Fields
    /\ job.owns \in BOOLEAN
    /\ job.owns => job.path \in TempPaths

\* The records in a store are careful, and so is the job an execution knows.
CarefulStore(s) ==
    /\ DOMAIN s = {"kind", "jobs", "index"} /\ DOMAIN s.jobs = JobIds
    /\ \A j \in JobIds : Get(s, j) # NoJob => Careful(Get(s, j))

CarefulRun(x) ==
    \/ x = Idle
    \/ /\ DOMAIN x = {"at", "i", "job", "child"}
       /\ x.at # "start" => Careful(x.job)

CarefulRuns ==
    /\ DOMAIN runs = JobIds \X Processes
    /\ \A j \in JobIds, p \in Processes : CarefulRun(runs[<<j, p>>])

\* What is inductive: ownership survives every way from a process to another,
\* through the store and back.
InputsInvariant == CarefulStore(store) /\ CarefulRuns /\ SourceFilesKept

----------------------------------------------------------------------------
(* Lemmas about the store and the cleanup. *)

\* Saving a careful record keeps the store careful.
LEMMA SaveIsCareful ==
  ASSUME NEW s, CarefulStore(s), NEW id \in JobIds, NEW job, Careful(job)
  PROVE  CarefulStore(Save(s, id, job))
  <1>1. Careful(Stored(job))
    BY DEF Careful, Stored, Fields
  <1>2. CarefulStore(InMemorySave(s, id, job))
    BY <1>1 DEF InMemorySave, CarefulStore, Get
  <1>3. CarefulStore(RedisSave(s, id, job))
    BY <1>1 DEF RedisSave, CarefulStore, Get
  <1> QED
    BY <1>2, <1>3 DEF Save

\* A store that lost everything is careful.
LEMMA EmptyIsCareful ==
  ASSUME NEW kind
  PROVE  CarefulStore(EmptyStore(kind))
  BY DEF EmptyStore, CarefulStore, Get

\* The status of a job does not bear on its files.
LEMMA StatusIsNoMatter ==
  ASSUME NEW job, Careful(job), NEW status
  PROVE  Careful([job EXCEPT !.status = status])
  BY DEF Careful, Fields

\* The clean-up of a job removes no source file.
LEMMA CleanupSparesSources ==
  ASSUME NEW job, Careful(job), SourceFilesKept
  PROVE  SourcePaths \subseteq CleanedUp(job)
  BY DEF Careful, SourceFilesKept, CleanedUp, SourcePaths, TempPaths

\* A new job cleans up temporary files only.
LEMMA NewJobsAreCareful ==
  ASSUME NEW type, NEW path, NEW work, NEW owns \in BOOLEAN, owns => path \in TempPaths
  PROVE  Careful(NewJob(type, path, work, owns))
  BY DEF Careful, NewJob, Fields

\* Replacing an execution, or those of a process, by careful ones.
LEMMA RunsStayCareful ==
  ASSUME CarefulRuns, NEW j \in JobIds, NEW p \in Processes, NEW x, CarefulRun(x),
         runs' = [runs EXCEPT ![<<j, p>>] = x]
  PROVE  CarefulRuns'
  BY DEF CarefulRuns

\* Two runs of a process change.
LEMMA TwoRunsStayCareful ==
  ASSUME CarefulRuns, NEW j \in JobIds, NEW q \in JobIds, NEW p \in Processes,
         NEW x, CarefulRun(x), NEW y, CarefulRun(y),
         runs' = [runs EXCEPT ![<<j, p>>] = x, ![<<q, p>>] = y]
  PROVE  CarefulRuns'
  BY DEF CarefulRuns

\* A process that dies leaves careful runs behind.
LEMMA DeadProcessesAreCareful ==
  ASSUME CarefulRuns, NEW p \in Processes, runs' = WithoutRunsOf(p)
  PROVE  CarefulRuns'
  BY DEF CarefulRuns, WithoutRunsOf, CarefulRun

\* A run that does nothing yet is careful.
LEMMA IdleIsCareful == CarefulRun(Idle) /\ CarefulRun(Starting)
  BY DEF CarefulRun, Starting, Started

\* An execution that has read its job's record.
LEMMA ReadersAreCareful ==
  ASSUME CarefulRuns, NEW j \in JobIds, NEW p \in Processes,
         runs[<<j, p>>].at \notin {"idle", "start"}
  PROVE  /\ Careful(Local(j, p))
         /\ DOMAIN runs[<<j, p>>] = {"at", "i", "job", "child"}
  BY DEF CarefulRuns, CarefulRun, Idle, Local

----------------------------------------------------------------------------
(* The steps. *)

\* A step that changes no record, no execution and no file.
LEMMA ElsewhereIsCareful ==
  ASSUME InputsInvariant, UNCHANGED <<store, runs, disk>>
  PROVE  InputsInvariant'
  BY DEF InputsInvariant, CarefulStore, CarefulRuns, CarefulRun, SourceFilesKept, Get

\* A submission stores a careful record and writes at most a temporary file.
LEMMA SubmissionsAreCareful ==
  ASSUME InputsInvariant,
         \/ \E f \in Uploads : SubmitUnstructured(f)
         \/ \E script \in Scripts : SubmitCypher(script)
         \/ \E files \in Corpora : SubmitCorpus(files)
  PROVE  InputsInvariant'
  <1>1. ASSUME NEW job, Careful(job), Submit(job), SourcePaths \subseteq disk'
        PROVE  InputsInvariant'
    <2>1. CarefulStore(store')
      BY <1>1, SaveIsCareful DEF Submit, InputsInvariant
    <2>2. CarefulRuns'
      BY <1>1 DEF Submit, InputsInvariant, CarefulRuns
    <2> QED
      BY <1>1, <2>1, <2>2 DEF InputsInvariant, CarefulStore, SourceFilesKept, Get
  <1>2. FreshId \in JobIds => <<"temp", FreshId>> \in TempPaths
    BY DEF TempPaths
  <1>3. ASSUME NEW f \in Uploads, SubmitUnstructured(f)
        PROVE  InputsInvariant'
    <2>1. FreshId \in JobIds
      BY <1>3 DEF SubmitUnstructured, Submit
    <2>2. Careful(NewJob("unstructured", <<"temp", FreshId>>, <<f>>, TRUE))
      BY <1>2, <2>1, NewJobsAreCareful
    <2> QED
      BY <1>1, <1>3, <2>2 DEF SubmitUnstructured, InputsInvariant, SourceFilesKept
  <1>4. ASSUME NEW script \in Scripts, SubmitCypher(script)
        PROVE  InputsInvariant'
    <2>1. FreshId \in JobIds
      BY <1>4 DEF SubmitCypher, Submit
    <2>2. Careful(NewJob("cypher", <<"temp", FreshId>>, script, TRUE))
      BY <1>2, <2>1, NewJobsAreCareful
    <2> QED
      BY <1>1, <1>4, <2>2 DEF SubmitCypher, InputsInvariant, SourceFilesKept
  <1>5. ASSUME NEW files \in Corpora, SubmitCorpus(files)
        PROVE  InputsInvariant'
    <2>1. Careful(NewJob("corpus", <<"corpus">>, files, FALSE))
      BY NewJobsAreCareful
    <2> QED
      BY <1>1, <1>5, <2>1 DEF SubmitCorpus, InputsInvariant, SourceFilesKept
  <1> QED
    BY <1>3, <1>4, <1>5

\* Whatever ends, starts or kills executions, as long as it changes neither
\* records nor files.
LEMMA ExecutionsAreCareful ==
  ASSUME InputsInvariant, NEW j \in JobIds,
         Dispatch(j) \/ WorkerDequeues(j) \/ WorkerFindsNoJob(j) \/ WorkerDies(j) \/ Redeliver(j)
  PROVE  InputsInvariant'
  <1>1. store' = store /\ disk' = disk
    BY DEF Dispatch, WorkerDequeues, WorkerFindsNoJob, WorkerDies, Redeliver
  <1>2. CarefulRuns
    BY DEF InputsInvariant
  <1>3. API \in Processes /\ j \in Processes
    BY DEF Processes
  <1>4. CarefulRuns'
    <2>1. CASE UNCHANGED runs
      BY <1>2, <2>1 DEF CarefulRuns
    <2>2. CASE \E p \in Processes : runs' = [runs EXCEPT ![<<j, p>>] = Starting]
      BY <1>2, <2>2, IdleIsCareful, RunsStayCareful
    <2>3. CASE runs' = WithoutRunsOf(j)
      BY <1>2, <1>3, <2>3, DeadProcessesAreCareful
    <2> QED
      BY <1>3, <2>1, <2>2, <2>3
         DEF Dispatch, WorkerDequeues, WorkerFindsNoJob, WorkerDies, Redeliver
  <1> QED
    BY <1>1, <1>4 DEF InputsInvariant, CarefulStore, SourceFilesKept, Get

\* The API process restarts.
LEMMA RestartsAreCareful ==
  ASSUME InputsInvariant, ApiRestarts
  PROVE  InputsInvariant'
  <1>1. API \in Processes
    BY DEF Processes
  <1>2. CarefulRuns'
    BY <1>1, DeadProcessesAreCareful DEF ApiRestarts, InputsInvariant
  <1>3. CarefulStore(store')
    BY EmptyIsCareful DEF ApiRestarts, InputsInvariant
  <1> QED
    BY <1>2, <1>3 DEF ApiRestarts, InputsInvariant, CarefulStore, SourceFilesKept, Get

\* The end of an execution that has read its record: one save, one cleanup.
LEMMA EndsAreCareful ==
  ASSUME InputsInvariant, NEW j \in JobIds, NEW p \in Processes,
         NEW s, CarefulStore(s), NEW status,
         runs[<<j, p>>].at \notin {"idle", "start"},
         store' = Save(s, j, [Local(j, p) EXCEPT !.status = status]),
         disk' = CleanedUp(Local(j, p)),
         CarefulRuns'
  PROVE  InputsInvariant'
  <1>1. Careful(Local(j, p))
    BY ReadersAreCareful DEF InputsInvariant
  <1>2. CarefulStore(store')
    BY <1>1, StatusIsNoMatter, SaveIsCareful
  <1>3. SourcePaths \subseteq disk'
    BY <1>1, CleanupSparesSources DEF InputsInvariant
  <1> QED
    BY <1>2, <1>3 DEF InputsInvariant, CarefulStore, SourceFilesKept, Get

\* A job fails.
LEMMA FailuresAreCareful ==
  ASSUME InputsInvariant, NEW j \in JobIds, NEW p \in Processes,
         runs[<<j, p>>].at \notin {"idle", "start"},
         JobFails(j, p)
  PROVE  InputsInvariant'
  <1>1. CarefulRuns'
    BY RunsStayCareful, IdleIsCareful DEF JobFails, InputsInvariant
  <1> QED
    BY <1>1, EndsAreCareful DEF JobFails, FailedIn, InputsInvariant

\* A job finishes: status, callback and clean-up.
LEMMA FinishIsCareful ==
  ASSUME InputsInvariant, NEW j \in JobIds, NEW p \in Processes, FinishJob(j, p)
  PROVE  InputsInvariant'
  <1>1. CarefulRuns'
    BY RunsStayCareful, IdleIsCareful DEF FinishJob, InputsInvariant
  <1> QED
    BY <1>1, EndsAreCareful DEF FinishJob, At, InputsInvariant

\* Reading a record: what the execution knows is what the store has.
LEMMA BeginIsCareful ==
  ASSUME InputsInvariant, NEW j \in JobIds, NEW p \in Processes, BeginJob(j, p)
  PROVE  InputsInvariant'
  <1> DEFINE job == [Get(store, j) EXCEPT !.status = "validating"]
  <1>1. Careful(job)
    BY StatusIsNoMatter DEF BeginJob, InputsInvariant, CarefulStore
  <1>2. store' = Save(store, j, job) /\ disk' = disk
    BY DEF BeginJob
  <1>3. runs' = [runs EXCEPT ![<<j, p>>] = Started(job, FirstStep[job.type])]
    BY DEF BeginJob
  <1> HIDE DEF job
  <1>4. CarefulRun(Started(job, FirstStep[job.type]))
    BY <1>1 DEF Started, CarefulRun
  <1>5. CarefulRuns'
    BY <1>3, <1>4, RunsStayCareful DEF InputsInvariant
  <1>6. CarefulStore(store')
    BY <1>1, <1>2, SaveIsCareful DEF InputsInvariant
  <1> QED
    BY <1>2, <1>5, <1>6 DEF InputsInvariant, CarefulStore, SourceFilesKept, Get

\* A step that moves one execution on and leaves records and files alone.
LEMMA ProgressIsCareful ==
  ASSUME InputsInvariant, NEW j \in JobIds, NEW p \in Processes,
         runs[<<j, p>>].at \notin {"idle", "start"}, UNCHANGED <<store, disk>>,
         \/ \E at : runs' = [runs EXCEPT ![<<j, p>>].at = at]
         \/ \E i : runs' = [runs EXCEPT ![<<j, p>>].i = i]
  PROVE  InputsInvariant'
  <1>1. Careful(Local(j, p)) /\ DOMAIN runs[<<j, p>>] = {"at", "i", "job", "child"}
    BY ReadersAreCareful DEF InputsInvariant
  <1>2. CarefulRuns'
    <2>1. ASSUME NEW at PROVE CarefulRun([runs[<<j, p>>] EXCEPT !.at = at])
      BY <1>1 DEF CarefulRun, Local
    <2>2. ASSUME NEW i PROVE CarefulRun([runs[<<j, p>>] EXCEPT !.i = i])
      BY <1>1 DEF CarefulRun, Local
    <2>3. \E x : CarefulRun(x) /\ runs' = [runs EXCEPT ![<<j, p>>] = x]
      BY <2>1, <2>2
    <2> QED
      BY <2>3, RunsStayCareful DEF InputsInvariant
  <1> QED
    BY <1>2 DEF InputsInvariant, CarefulStore, SourceFilesKept, Get

\* The steps that process one file, script or corpus.
LEMMA ProcessingIsCareful ==
  ASSUME InputsInvariant, NEW j \in JobIds, NEW p \in Processes,
         \/ ProcessUnstructured(j, p) \/ RunStatement(j, p) \/ EndScript(j, p)
         \/ ScanCorpus(j, p) \/ SkipFile(j, p) \/ ProcessingFails(j, p)
  PROVE  InputsInvariant'
  <1>1. CASE ProcessUnstructured(j, p)
    BY <1>1, FailuresAreCareful, ProgressIsCareful DEF ProcessUnstructured, At
  <1>2. CASE RunStatement(j, p)
    BY <1>2, ProgressIsCareful DEF RunStatement, At
  <1>3. CASE EndScript(j, p)
    BY <1>3, FailuresAreCareful, ProgressIsCareful DEF EndScript, At
  <1>4. CASE ScanCorpus(j, p)
    BY <1>4, FailuresAreCareful, ProgressIsCareful DEF ScanCorpus, At
  <1>5. CASE SkipFile(j, p)
    BY <1>5, ProgressIsCareful DEF SkipFile, AtFile, At
  <1>6. CASE ProcessingFails(j, p)
    BY <1>6, FailuresAreCareful DEF ProcessingFails
  <1> QED
    BY <1>1, <1>2, <1>3, <1>4, <1>5, <1>6

\* _ensure_rbac_schema takes the corpus job with it, or ends the execution.
LEMMA RbacFailureIsCareful ==
  ASSUME InputsInvariant, NEW j \in JobIds, NEW p \in Processes, RbacSchemaFails(j, p)
  PROVE  InputsInvariant'
  <1> DEFINE begun == Save(store, j, [Get(store, j) EXCEPT !.status = "validating"])
  <1>1. CarefulStore(begun)
    BY StatusIsNoMatter, SaveIsCareful DEF RbacSchemaFails, InputsInvariant, CarefulStore
  <1>2. CASE Parents(j, p) # {}
    <2>1. PICK q \in Parents(j, p) :
              FailedIn(begun, q, p) /\ runs' = [runs EXCEPT ![<<j, p>>] = Idle, ![<<q, p>>] = Idle]
      BY <1>2 DEF RbacSchemaFails
    <2> HIDE DEF begun
    <2>2. q \in JobIds /\ runs[<<q, p>>].at = "inline"
      BY DEF Parents, At
    <2>3. CarefulRuns'
      BY <2>1, <2>2, TwoRunsStayCareful, IdleIsCareful DEF InputsInvariant
    <2> QED
      BY <1>1, <2>1, <2>2, <2>3, EndsAreCareful DEF FailedIn
  <1>3. CASE Parents(j, p) = {}
    <2>1. store' = begun /\ disk' = disk /\ runs' = [runs EXCEPT ![<<j, p>>] = Idle]
      BY <1>3 DEF RbacSchemaFails
    <2> HIDE DEF begun
    <2>2. CarefulRuns'
      BY <2>1, RunsStayCareful, IdleIsCareful DEF InputsInvariant
    <2> QED
      BY <1>1, <2>1, <2>2 DEF InputsInvariant, CarefulStore, SourceFilesKept, Get
  <1> QED
    BY <1>2, <1>3

\* A child's record does not own the user's file it names.
LEMMA AcceptanceIsCareful ==
  ASSUME InputsInvariant, NEW j \in JobIds, NEW p \in Processes, AcceptFile(j, p)
  PROVE  InputsInvariant'
  <1> DEFINE child == NewJob("unstructured", <<"source", Candidate(j, p)>>, <<Candidate(j, p)>>, FALSE)
             x == [runs[<<j, p>>] EXCEPT !.at = "enqueue", !.child = FreshId,
                                         !.job.children = Append(@, FreshId)]
  <1>1. Careful(child)
    BY NewJobsAreCareful
  <1>2. Careful(Local(j, p)) /\ DOMAIN runs[<<j, p>>] = {"at", "i", "job", "child"}
    BY ReadersAreCareful DEF InputsInvariant, AcceptFile, AtFile, At
  <1>3. CarefulRun(x)
    BY <1>2 DEF CarefulRun, Careful, Fields, Local
  <1>4. /\ FreshId \in JobIds /\ store' = Save(store, FreshId, child) /\ disk' = disk
    BY DEF AcceptFile
  <1>5. runs' = [runs EXCEPT ![<<j, p>>] = x]
    BY <1>2 DEF AcceptFile, InputsInvariant, CarefulRuns
  <1> HIDE DEF child, x
  <1>6. CarefulStore(store') /\ CarefulRuns'
    BY <1>1, <1>3, <1>4, <1>5, SaveIsCareful, RunsStayCareful DEF InputsInvariant
  <1> QED
    BY <1>4, <1>6 DEF InputsInvariant, CarefulStore, SourceFilesKept, Get

\* A run moves on without touching the disk.
LEMMA AdvanceIsCareful ==
  ASSUME InputsInvariant, NEW j \in JobIds, NEW p \in Processes,
         runs[<<j, p>>].at \notin {"idle", "start"}, Advance(j, p), disk' = disk
  PROVE  InputsInvariant'
  <1> DEFINE x == [runs[<<j, p>>] EXCEPT !.at = "file", !.i = @ + 1, !.child = 0]
  <1>1. Careful(Local(j, p)) /\ DOMAIN runs[<<j, p>>] = {"at", "i", "job", "child"}
    BY ReadersAreCareful DEF InputsInvariant
  <1>2. CarefulRun(x)
    BY <1>1 DEF CarefulRun, Local
  <1>3. runs' = [runs EXCEPT ![<<j, p>>] = x]
    BY <1>1 DEF Advance, InputsInvariant, CarefulRuns
  <1> HIDE DEF x
  <1>4. CarefulRuns'
    BY <1>2, <1>3, RunsStayCareful DEF InputsInvariant
  <1>5. CarefulStore(store')
    BY <1>1, SaveIsCareful DEF Advance, InputsInvariant
  <1> QED
    BY <1>4, <1>5 DEF InputsInvariant, CarefulStore, SourceFilesKept, Get

\* The steps of a corpus job over its children.
LEMMA CorpusIsCareful ==
  ASSUME InputsInvariant, NEW j \in JobIds, NEW p \in Processes,
         \/ EnqueueChild(j, p) \/ RunChildInline(j, p) \/ ResumeCorpus(j, p) \/ EndCorpus(j, p)
  PROVE  InputsInvariant'
  <1>1. CASE EnqueueChild(j, p) \/ ResumeCorpus(j, p)
    BY <1>1, AdvanceIsCareful DEF EnqueueChild, ResumeCorpus, At
  <1>2. CASE RunChildInline(j, p)
    <2> DEFINE x == [runs[<<j, p>>] EXCEPT !.at = "inline"]
    <2>1. Careful(Local(j, p)) /\ DOMAIN runs[<<j, p>>] = {"at", "i", "job", "child"}
      BY <1>2, ReadersAreCareful DEF InputsInvariant, RunChildInline, At
    <2>2. CarefulRun(x)
      BY <2>1 DEF CarefulRun, Local
    <2>3. runs' = [runs EXCEPT ![<<j, p>>] = x, ![<<runs[<<j, p>>].child, p>>] = Starting]
      BY <1>2 DEF RunChildInline
    <2> HIDE DEF x
    <2>4. CarefulRuns'
      BY <2>2, <2>3, IdleIsCareful DEF InputsInvariant, CarefulRuns
    <2> QED
      BY <1>2, <2>4 DEF RunChildInline, InputsInvariant, CarefulStore, SourceFilesKept, Get
  <1>3. CASE EndCorpus(j, p)
    <2> DEFINE x == [runs[<<j, p>>] EXCEPT !.at = "finish"]
    <2>1. Careful(Local(j, p)) /\ DOMAIN runs[<<j, p>>] = {"at", "i", "job", "child"}
      BY <1>3, ReadersAreCareful DEF InputsInvariant, EndCorpus, At
    <2>2. CarefulRun(x)
      BY <2>1 DEF CarefulRun, Local
    <2>3. runs' = [runs EXCEPT ![<<j, p>>] = x] /\ disk' = disk /\ store' = Save(store, j, Local(j, p))
      BY <1>3 DEF EndCorpus
    <2> HIDE DEF x
    <2>4. CarefulRuns' /\ CarefulStore(store')
      BY <2>1, <2>2, <2>3, RunsStayCareful, SaveIsCareful DEF InputsInvariant
    <2> QED
      BY <2>3, <2>4 DEF InputsInvariant, CarefulStore, SourceFilesKept, Get
  <1> QED
    BY <1>1, <1>2, <1>3

----------------------------------------------------------------------------
(* The invariant. *)

\* At first there is no job and every source file.
LEMMA InitiallyCareful ==
  ASSUME Init
  PROVE  InputsInvariant
  <1>1. CarefulStore(store)
    BY EmptyIsCareful DEF Init
  <1>2. CarefulRuns
    BY IdleIsCareful DEF Init, CarefulRuns
  <1> QED
    BY <1>1, <1>2 DEF InputsInvariant, Init, SourceFilesKept

\* Every step keeps the invariant.
LEMMA StepsAreCareful ==
  ASSUME InputsInvariant, [Next]_vars
  PROVE  InputsInvariant'
  <1>1. ASSUME NEW j \in JobIds, NEW p \in Processes,
               RunStep(j, p) \/ RbacSchemaFails(j, p) \/ ProcessingFails(j, p)
        PROVE  InputsInvariant'
    BY <1>1, BeginIsCareful, FinishIsCareful, ProcessingIsCareful, RbacFailureIsCareful,
       AcceptanceIsCareful, CorpusIsCareful DEF RunStep
  <1>2. ASSUME NEW j \in JobIds, Dispatch(j) \/ Dequeue(j) \/ WorkerDies(j) \/ Redeliver(j)
        PROVE  InputsInvariant'
    BY <1>2, ExecutionsAreCareful DEF Dequeue
  <1>3. CASE UNCHANGED vars
    BY <1>3, ElsewhereIsCareful DEF vars
  <1> QED
    BY <1>1, <1>2, <1>3, SubmissionsAreCareful, RestartsAreCareful DEF Next

\* Every job that may clean up owns a temporary file, in the store and in the
\* copies the processes work on, and the source files are on disk: _cleanup of
\* jobs.py never reaches a file it was not given to own.
THEOREM InputsInvariance == Spec => []InputsInvariant
  <1>1. Init => InputsInvariant
    BY InitiallyCareful
  <1>2. InputsInvariant /\ [Next]_vars => InputsInvariant'
    BY StepsAreCareful
  <1> QED
    BY <1>1, <1>2, PTL DEF Spec

\* However many jobs, retries, restarts and failures there are, and whichever
\* process runs a corpus job's children, cleaning up temporary inputs never
\* deletes a file of the user's own directory.
THEOREM SourcesAreSafe == Spec => []SourceFilesKept
  <1>1. InputsInvariant => SourceFilesKept
    BY DEF InputsInvariant
  <1> QED
    BY <1>1, InputsInvariance, PTL

----------------------------------------------------------------------------
(* Completed jobs are done. *)

\* Two records of one task: what a status or the children say may differ.
SameTask(a, b) == a.type = b.type /\ a.work = b.work

\* A record of one of the three types, with the work of its type.
Sound(job) ==
    /\ job \in Job
    /\ job.type = "unstructured" => \E f \in Files : job.work = <<f>>
    /\ job.type = "corpus" => job.work \in Corpora
    /\ job.type = "cypher" => job.work \in Scripts

\* No record of the store has been lost to a restart.
Remembers == store.kind = "redis" \/ faults = 0

\* A job is stored for a file of this content.
TakenUp(c) == \E k \in StoredJobs("unstructured") : Content[Get(store, k).work[1]] = c

\* The m-th piece of a job's work is done.
Fulfilled(job, m) ==
    /\ job.type = "corpus" /\ Remembers => job.work[m] \in Insane \/ TakenUp(Content[job.work[m]])
    /\ job.type = "cypher" => applied[job.work[m]] > 0

Truthful(job) ==
    job.status = "completed" => \A m \in 1..Len(job.work) : Fulfilled(job, m)

\* The pieces an execution has behind it.
Behind(x, m) ==
    \/ x.at = "finish"
    \/ m < x.i
    \/ x.at \in {"enqueue", "inline"} /\ m = x.i

StepsOf == [unstructured |-> {"process", "finish"}, cypher |-> {"statement", "finish"},
            corpus |-> {"scan", "file", "enqueue", "inline", "finish"}]

RunRecord == [at : Step, i : Nat \ {0}, job : Job, child : JobIds \cup {0}]

\* What an execution has read of job j: its task, which nobody changes.
Reads(j, x) ==
    /\ x \in RunRecord
    /\ Sound(x.job) /\ x.job.status = "validating"
    /\ x.at \in StepsOf[x.job.type]
    /\ Get(store, j) # NoJob /\ SameTask(Get(store, j), x.job)
    /\ \A m \in 1..Len(x.job.work) : Behind(x, m) => Fulfilled(x.job, m)

\* Only the API process executes jobs of a store in its own memory.
OnTask(j, p, x) ==
    \/ x = Idle
    \/ (store.kind = "redis" \/ p = API) /\ (x = Starting \/ Reads(j, x))

RecordsTruthful ==
    /\ DOMAIN store = {"kind", "jobs", "index"} /\ DOMAIN store.jobs = JobIds
    /\ store.kind \in {"redis", "memory"} /\ created \in Nat /\ faults \in Nat
    /\ \A k \in JobIds : Get(store, k) # NoJob =>
            k <= created /\ Sound(Get(store, k)) /\ Truthful(Get(store, k))

RunsOnTask ==
    /\ DOMAIN runs = JobIds \X Processes
    /\ \A j \in JobIds, p \in Processes : OnTask(j, p, runs[<<j, p>>])

\* An ACTIVE revision is the work of a stored job.
ActiveTakenUp ==
    /\ DOMAIN active = Stems
    /\ Remembers => \A d \in Stems : active[d] # NoContent => TakenUp(active[d])

\* Scripts that share a statement, or repeat one, cannot be told from what has
\* been applied: their statements are taken as the occurrences they are.
StatementsApart ==
    \A s, t \in Scripts : \A k \in 1..Len(s), l \in 1..Len(t) :
        s[k] = t[l] => s = t /\ k = l

AppliedInOrder ==
    /\ applied \in [Statements -> Nat]
    /\ StatementsApart =>
        \A s \in Scripts : \A k, l \in 1..Len(s) :
            k < l /\ applied[s[l]] > 0 => applied[s[k]] > 0

DoneInvariant == RecordsTruthful /\ RunsOnTask /\ ActiveTakenUp /\ AppliedInOrder

----------------------------------------------------------------------------
(* What no step undoes. *)

\* A record keeps its task, also when an execution saves its own copy of it.
RecordsLast ==
    \A k \in JobIds : Get(store, k) # NoJob =>
        Get(store, k)' # NoJob /\ SameTask(Get(store, k)', Get(store, k))

StatementsLast == \A s \in Statements : applied[s] > 0 => applied'[s] > 0

Onward ==
    /\ RecordsLast /\ StatementsLast
    /\ store'.kind = store.kind
    /\ faults \in Nat /\ faults' \in {faults, faults + 1}

\* A memory store is lost only by a fault, and faults are counted.
LEMMA MemoryIsLost ==
  ASSUME store'.kind = store.kind, faults \in Nat, faults' \in {faults, faults + 1}, Remembers'
  PROVE  Remembers
  BY DEF Remembers

\* A child that was taken up stays so.
LEMMA TakenUpStays ==
  ASSUME RecordsLast, NEW c, TakenUp(c)
  PROVE  TakenUp(c)'
  <1>1. PICK k \in JobIds : /\ Get(store, k) # NoJob /\ Get(store, k).type = "unstructured"
                            /\ Content[Get(store, k).work[1]] = c
    BY DEF TakenUp, StoredJobs
  <1>2. /\ Get(store, k)' # NoJob /\ Get(store, k)'.type = "unstructured"
        /\ Content[Get(store, k)'.work[1]] = c
    BY <1>1 DEF RecordsLast, SameTask
  <1> QED
    BY <1>2 DEF TakenUp, StoredJobs

\* The pieces of a corpus are files, those of a script are statements.
LEMMA WorkIsInPieces ==
  ASSUME NEW job, Sound(job), NEW m \in 1..Len(job.work)
  PROVE  /\ job.type = "corpus" => job.work[m] \in Files /\ job.work[m] \in CorpusFiles
         /\ job.type = "cypher" => job.work[m] \in Statements
  <1>1. ASSUME job.type = "corpus" PROVE job.work[m] \in Files /\ job.work[m] \in CorpusFiles
    <2>1. job.work \in Corpora /\ job.work \in Seq(Files)
      BY <1>1, InputsAssumption DEF Sound
    <2>2. m \in DOMAIN job.work
      BY <2>1
    <2> QED
      BY <2>1, <2>2 DEF CorpusFiles, ToSet
  <1>2. ASSUME job.type = "cypher" PROVE job.work[m] \in Statements
    BY <1>2, InputsAssumption DEF Sound
  <1> QED
    BY <1>1, <1>2

\* A piece of work that is done stays done.
LEMMA FulfilledStays ==
  ASSUME Onward, NEW job, Sound(job), NEW m \in 1..Len(job.work), Fulfilled(job, m)
  PROVE  Fulfilled(job, m)'
  <1>1. Remembers' => Remembers
    BY MemoryIsLost DEF Onward
  <1>2. job.type = "cypher" => applied'[job.work[m]] > 0
    BY WorkIsInPieces DEF Fulfilled, Onward, StatementsLast
  <1>3. job.type = "corpus" /\ Remembers' =>
            job.work[m] \in Insane \/ TakenUp(Content[job.work[m]])'
    BY <1>1, TakenUpStays DEF Fulfilled, Onward
  <1> QED
    BY <1>2, <1>3 DEF Fulfilled

\* A record that tells the truth goes on telling it.
LEMMA TruthStays ==
  ASSUME Onward, NEW job, Sound(job), Truthful(job)
  PROVE  Truthful(job)'
  BY FulfilledStays DEF Truthful

\* A run that is on its task stays on it while others move.
LEMMA OnTaskStays ==
  ASSUME Onward, NEW j \in JobIds, NEW p \in Processes, NEW x, OnTask(j, p, x)
  PROVE  OnTask(j, p, x)'
  <1>1. ASSUME Reads(j, x) PROVE Reads(j, x)'
    <2>1. Get(store, j)' # NoJob /\ SameTask(Get(store, j)', x.job)
      BY <1>1 DEF Reads, Onward, RecordsLast, SameTask
    <2>2. \A m \in 1..Len(x.job.work) : Behind(x, m) => Fulfilled(x.job, m)'
      BY <1>1, FulfilledStays DEF Reads
    <2> QED
      BY <1>1, <2>1, <2>2 DEF Reads
  <1>2. store'.kind = store.kind
    BY DEF Onward
  <1> QED
    BY <1>1, <1>2 DEF OnTask

----------------------------------------------------------------------------
(* Saving a record, moving an execution. *)

\* Job ids are numbered from one.
LEMMA IdsAreNumbers == JobIds \subseteq Nat \ {0}
  <1>1. Cardinality(JobIds) \in Nat
    BY JobsAssumption, FS_CardinalityType
  <1> QED
    BY <1>1, JobsAssumption

\* Saving writes one record.
LEMMA SaveIsOneRecord ==
  ASSUME NEW s, DOMAIN s = {"kind", "jobs", "index"}, DOMAIN s.jobs = JobIds,
         NEW id \in JobIds, NEW job \in Job, NEW t, t = Save(s, id, job)
  PROVE  /\ Get(t, id) = job
         /\ \A k \in JobIds \ {id} : Get(t, k) = Get(s, k)
         /\ t.kind = s.kind
         /\ DOMAIN t = {"kind", "jobs", "index"} /\ DOMAIN t.jobs = JobIds
  <1>1. Stored(job) = job
    BY DEF Stored, Job
  <1>2. CASE s.kind = "redis"
    BY <1>1, <1>2 DEF Save, RedisSave, Get
  <1>3. CASE s.kind # "redis"
    BY <1>1, <1>3 DEF Save, InMemorySave, Get
  <1> QED
    BY <1>2, <1>3

\* A job's record is a new one, or takes the place of one of the same task.
OfItsTask(id, job) ==
    /\ Sound(job)
    /\ Get(store, id) = NoJob \/ SameTask(job, Get(store, id))

\* Saving a job of the same task makes no record disappear.
LEMMA SavesLast ==
  ASSUME RecordsTruthful, NEW id \in JobIds, NEW job, OfItsTask(id, job),
         store' = Save(store, id, job)
  PROVE  RecordsLast /\ store'.kind = store.kind
  <1>1. job \in Job /\ job # NoJob
    BY InputsAssumption DEF OfItsTask, Sound
  <1>2. /\ Get(store, id)' = job /\ \A k \in JobIds \ {id} : Get(store, k)' = Get(store, k)
        /\ store'.kind = store.kind
    BY <1>1, SaveIsOneRecord DEF RecordsTruthful
  <1>3. ASSUME NEW k \in JobIds, Get(store, k) # NoJob
        PROVE  Get(store, k)' # NoJob /\ SameTask(Get(store, k)', Get(store, k))
    BY <1>1, <1>2, <1>3 DEF OfItsTask, SameTask
  <1> QED
    BY <1>2, <1>3 DEF RecordsLast

\* Saving a truthful record keeps all of them truthful.
LEMMA SavesAreTruthful ==
  ASSUME RecordsTruthful, Onward, NEW id \in JobIds, NEW job, OfItsTask(id, job),
         store' = Save(store, id, job), Truthful(job)',
         created' \in Nat, created <= created', id <= created'
  PROVE  RecordsTruthful'
  <1>1. job \in Job /\ Sound(job)
    BY DEF OfItsTask, Sound
  <1>2. /\ Get(store, id)' = job /\ \A k \in JobIds \ {id} : Get(store, k)' = Get(store, k)
        /\ store'.kind = store.kind
        /\ DOMAIN store' = {"kind", "jobs", "index"} /\ DOMAIN store'.jobs = JobIds
    BY <1>1, SaveIsOneRecord DEF RecordsTruthful
  <1>3. ASSUME NEW k \in JobIds, Get(store, k)' # NoJob
        PROVE  k <= created' /\ Sound(Get(store, k)') /\ Truthful(Get(store, k))'
    <2>1. CASE k = id
      BY <1>1, <1>2, <2>1
    <2>2. CASE k # id
      <3>1. Get(store, k)' = Get(store, k)
        BY <1>2, <2>2
      <3>2. k <= created /\ Sound(Get(store, k)) /\ Truthful(Get(store, k))
        BY <1>3, <3>1 DEF RecordsTruthful
      <3>3. ASSUME NEW x, x = Get(store, k), x = Get(store, k)', Sound(x), Truthful(x)
            PROVE  Truthful(Get(store, k))'
        <4>1. Truthful(x)'
          BY <3>3, TruthStays
        <4> QED
          BY <3>3, <4>1
      <3>4. k <= created'
        BY <3>2, IdsAreNumbers DEF RecordsTruthful
      <3> QED
        BY <3>1, <3>2, <3>3, <3>4
    <2> QED
      BY <2>1, <2>2
  <1>4. faults' \in Nat
    BY DEF Onward
  <1> QED
    BY <1>3, <1>4, <1>2 DEF RecordsTruthful

\* Without a save the records stay truthful.
LEMMA NoSaveIsTruthful ==
  ASSUME RecordsTruthful, Onward, UNCHANGED <<store, created>>
  PROVE  RecordsTruthful'
  <1>1. ASSUME NEW k \in JobIds, Get(store, k)' # NoJob
        PROVE  k <= created' /\ Sound(Get(store, k)') /\ Truthful(Get(store, k))'
    <2>1. Get(store, k)' = Get(store, k)
      BY DEF Get
    <2>2. k <= created /\ Sound(Get(store, k)) /\ Truthful(Get(store, k))
      BY <1>1, <2>1 DEF RecordsTruthful
    <2>3. ASSUME NEW x, x = Get(store, k), x = Get(store, k)', Sound(x), Truthful(x)
          PROVE  Truthful(Get(store, k))'
      <3>1. Truthful(x)'
        BY <2>3, TruthStays
      <3> QED
        BY <2>3, <3>1
    <2> QED
      BY <2>1, <2>2, <2>3
  <1>2. faults' \in Nat
    BY DEF Onward
  <1> QED
    BY <1>1, <1>2 DEF RecordsTruthful

\* One run moves.
LEMMA OneRunMoves ==
  ASSUME RunsOnTask, Onward, NEW j \in JobIds, NEW p \in Processes, NEW x, OnTask(j, p, x)',
         runs' = [runs EXCEPT ![<<j, p>>] = x]
  PROVE  RunsOnTask'
  <1>1. ASSUME NEW k \in JobIds, NEW q \in Processes
        PROVE  OnTask(k, q, runs[<<k, q>>])'
    <2>1. ASSUME NEW y, y = runs[<<k, q>>], OnTask(k, q, y)
          PROVE  OnTask(k, q, y)'
      BY <2>1, OnTaskStays
    <2>2. OnTask(k, q, runs[<<k, q>>])
      BY DEF RunsOnTask
    <2>3. runs'[<<k, q>>] = IF k = j /\ q = p THEN x ELSE runs[<<k, q>>]
      BY DEF RunsOnTask
    <2>4. CASE k = j /\ q = p
      BY <2>3, <2>4
    <2>5. CASE ~(k = j /\ q = p)
      BY <2>1, <2>2, <2>3, <2>5
    <2> QED
      BY <2>4, <2>5
  <1> QED
    BY <1>1 DEF RunsOnTask

\* Whatever becomes idle, starts or stays as it is.
LEMMA RunsEndOrStart ==
  ASSUME RunsOnTask, Onward, DOMAIN runs' = JobIds \X Processes,
         \A j \in JobIds, p \in Processes :
            \/ runs'[<<j, p>>] \in {runs[<<j, p>>], Idle}
            \/ runs'[<<j, p>>] = Starting /\ (store.kind = "redis" \/ p = API)
  PROVE  RunsOnTask'
  <1>1. ASSUME NEW k \in JobIds, NEW q \in Processes
        PROVE  OnTask(k, q, runs[<<k, q>>])'
    <2>1. ASSUME NEW y, y = runs[<<k, q>>], OnTask(k, q, y)
          PROVE  OnTask(k, q, y)'
      BY <2>1, OnTaskStays
    <2>2. OnTask(k, q, runs[<<k, q>>])
      BY DEF RunsOnTask
    <2>3. store'.kind = store.kind
      BY DEF Onward
    <2>4. CASE runs'[<<k, q>>] = runs[<<k, q>>]
      BY <2>1, <2>2, <2>4
    <2>5. CASE runs'[<<k, q>>] = Idle
      BY <2>5 DEF OnTask
    <2>6. CASE runs'[<<k, q>>] = Starting /\ (store.kind = "redis" \/ q = API)
      BY <2>3, <2>6 DEF OnTask
    <2> QED
      BY <2>4, <2>5, <2>6
  <1> QED
    BY <1>1 DEF RunsOnTask

\* The graph is left alone.
LEMMA GraphStays ==
  ASSUME DoneInvariant, Onward, UNCHANGED <<active, applied>>
  PROVE  ActiveTakenUp' /\ AppliedInOrder'
  <1>1. Remembers' => Remembers
    BY MemoryIsLost DEF Onward
  <1>2. ASSUME Remembers', NEW d \in Stems, active'[d] # NoContent
        PROVE  TakenUp(active[d])'
    <2>1. ASSUME NEW c, c = active[d], c = active'[d], TakenUp(c)
          PROVE  TakenUp(active[d])'
      <3>1. TakenUp(c)'
        BY <2>1, TakenUpStays DEF Onward
      <3> QED
        BY <2>1, <3>1
    <2> QED
      BY <1>1, <1>2, <2>1 DEF DoneInvariant, ActiveTakenUp
  <1> QED
    BY <1>2 DEF DoneInvariant, ActiveTakenUp, AppliedInOrder

----------------------------------------------------------------------------
(* The steps. *)

\* A fault happened, or not.
LEMMA FaultsGrow ==
  ASSUME RecordsTruthful, faults' = faults \/ Fault
  PROVE  faults \in Nat /\ faults' \in {faults, faults + 1}
  BY DEF RecordsTruthful, Fault

\* A step that saves one record, not as completed, and applies no statement.
LEMMA SavesGoOnward ==
  ASSUME RecordsTruthful, NEW id \in JobIds, NEW job, OfItsTask(id, job),
         store' = Save(store, id, job), job.status # "completed",
         applied' = applied, faults' = faults \/ Fault,
         created' \in Nat, created <= created', id <= created'
  PROVE  Onward /\ RecordsTruthful'
  <1>1. Onward
    BY SavesLast, FaultsGrow DEF Onward, StatementsLast
  <1>2. Truthful(job)'
    BY DEF Truthful
  <1> QED
    BY <1>1, <1>2, SavesAreTruthful

\* A step that saves nothing undoes nothing.
LEMMA NoSaveGoesOnward ==
  ASSUME RecordsTruthful, UNCHANGED <<store, created>>, StatementsLast, faults' = faults \/ Fault
  PROVE  Onward /\ RecordsTruthful'
  <1>1. \A k \in JobIds : Get(store, k)' = Get(store, k)
    BY DEF Get
  <1>2. RecordsLast
    BY <1>1 DEF RecordsLast, SameTask
  <1>3. Onward
    BY <1>2, FaultsGrow DEF Onward
  <1> QED
    BY <1>3, NoSaveIsTruthful

\* What a submission makes is a job of one of the three types.
LEMMA NewJobsAreSound ==
  ASSUME NEW path \in SourcePaths \cup TempPaths \cup {<<"corpus">>}, NEW work, NEW owns \in BOOLEAN,
         NEW type, \/ type = "unstructured" /\ \E f \in Files : work = <<f>>
                   \/ type = "corpus" /\ work \in Corpora
                   \/ type = "cypher" /\ work \in Scripts
  PROVE  Sound(NewJob(type, path, work, owns))
  <1>1. work \in Works
    BY DEF Works
  <1>2. <<>> \in Seq(JobIds)
    OBVIOUS
  <1>3. NewJob(type, path, work, owns) \in Job
    BY <1>1, <1>2 DEF NewJob, Job
  <1> QED
    BY <1>3 DEF Sound, NewJob

\* A new record claims nothing yet.
LEMMA NewRecordsAreTruthful ==
  ASSUME RecordsTruthful, NEW path, NEW work, NEW owns, NEW type,
         Sound(NewJob(type, path, work, owns)), FreshId \in JobIds, created' = FreshId,
         store' = Save(store, FreshId, NewJob(type, path, work, owns)),
         applied' = applied, faults' = faults \/ Fault
  PROVE  Onward /\ RecordsTruthful' /\ Get(store, FreshId) = NoJob
  <1>1. created \in Nat /\ FreshId = created + 1
    BY DEF RecordsTruthful, FreshId
  <1>2. Get(store, FreshId) = NoJob
    BY <1>1 DEF RecordsTruthful
  <1>3. OfItsTask(FreshId, NewJob(type, path, work, owns))
    BY <1>2 DEF OfItsTask
  <1>4. NewJob(type, path, work, owns).status # "completed"
    BY DEF NewJob
  <1>5. created' \in Nat /\ created <= created' /\ FreshId <= created'
    BY <1>1
  <1> QED
    BY <1>2, <1>3, <1>4, <1>5, SavesGoOnward

\* The submissions of the three types of job.
LEMMA SubmissionsKeepTheWord ==
  ASSUME DoneInvariant,
         \/ \E f \in Uploads : SubmitUnstructured(f)
         \/ \E script \in Scripts : SubmitCypher(script)
         \/ \E files \in Corpora : SubmitCorpus(files)
  PROVE  DoneInvariant'
  <1>1. RecordsTruthful /\ RunsOnTask
    BY DEF DoneInvariant
  <1>2. ASSUME NEW path \in SourcePaths \cup TempPaths \cup {<<"corpus">>}, NEW work,
               NEW owns \in BOOLEAN, NEW type, Submit(NewJob(type, path, work, owns)),
               \/ type = "unstructured" /\ \E f \in Files : work = <<f>>
               \/ type = "corpus" /\ work \in Corpora
               \/ type = "cypher" /\ work \in Scripts
        PROVE  DoneInvariant'
    <2>1. Sound(NewJob(type, path, work, owns))
      BY <1>2, NewJobsAreSound
    <2>2. /\ FreshId \in JobIds /\ created' = FreshId
          /\ store' = Save(store, FreshId, NewJob(type, path, work, owns))
          /\ UNCHANGED <<runs, active, applied, faults>>
      BY <1>2 DEF Submit
    <2>3. Onward /\ RecordsTruthful'
      BY <1>1, <2>1, <2>2, NewRecordsAreTruthful
    <2>4. RunsOnTask'
      BY <1>1, <2>2, <2>3, RunsEndOrStart DEF RunsOnTask
    <2> QED
      BY <2>2, <2>3, <2>4, GraphStays DEF DoneInvariant
  <1>3. FreshId \in JobIds => <<"temp", FreshId>> \in TempPaths
    BY DEF TempPaths
  <1>4. \A f \in Uploads : f \in Files
    BY InputsAssumption
  <1>5. ASSUME NEW f \in Uploads, SubmitUnstructured(f) PROVE DoneInvariant'
    BY <1>2, <1>3, <1>4, <1>5 DEF SubmitUnstructured, Submit
  <1>6. ASSUME NEW script \in Scripts, SubmitCypher(script) PROVE DoneInvariant'
    BY <1>2, <1>3, <1>6 DEF SubmitCypher, Submit
  <1>7. ASSUME NEW files \in Corpora, SubmitCorpus(files) PROVE DoneInvariant'
    BY <1>2, <1>7 DEF SubmitCorpus, Submit
  <1> QED
    BY <1>5, <1>6, <1>7

\* Dispatch, the queue and the deaths of its workers.
LEMMA ExecutionsKeepTheWord ==
  ASSUME DoneInvariant, NEW j \in JobIds,
         Dispatch(j) \/ WorkerDequeues(j) \/ WorkerFindsNoJob(j) \/ WorkerDies(j) \/ Redeliver(j)
  PROVE  DoneInvariant'
  <1>1. RecordsTruthful /\ RunsOnTask /\ applied \in [Statements -> Nat]
    BY DEF DoneInvariant, AppliedInOrder
  <1>2. /\ UNCHANGED <<store, created, active, applied>> /\ (faults' = faults \/ Fault)
    BY DEF Dispatch, WorkerDequeues, WorkerFindsNoJob, WorkerDies, Redeliver
  <1>3. Onward /\ RecordsTruthful'
    BY <1>1, <1>2, NoSaveGoesOnward DEF StatementsLast
  <1>4. API \in Processes /\ j \in Processes
    BY DEF Processes
  <1>5. DOMAIN runs = JobIds \X Processes
    BY <1>1 DEF RunsOnTask
  <1>6. RunsOnTask'
    <2>1. CASE UNCHANGED runs
      BY <1>1, <1>3, <1>5, <2>1, RunsEndOrStart
    <2>2. CASE runs' = [runs EXCEPT ![<<j, API>>] = Starting]
      BY <1>1, <1>3, <1>4, <1>5, <2>2, RunsEndOrStart
    <2>3. CASE store.kind = "redis" /\ runs' = [runs EXCEPT ![<<j, j>>] = Starting]
      BY <1>1, <1>3, <1>4, <1>5, <2>3, RunsEndOrStart
    <2>4. CASE runs' = WithoutRunsOf(j)
      BY <1>1, <1>3, <1>4, <1>5, <2>4, RunsEndOrStart DEF WithoutRunsOf
    <2> QED
      BY <2>1, <2>2, <2>3, <2>4
         DEF Dispatch, WorkerDequeues, WorkerFindsNoJob, WorkerDies, Redeliver
  <1> QED
    BY <1>2, <1>3, <1>6, GraphStays DEF DoneInvariant

\* The memory of the API process is lost with its executions.
LEMMA RestartsKeepTheWord ==
  ASSUME DoneInvariant, ApiRestarts
  PROVE  DoneInvariant'
  <1>1. RecordsTruthful /\ RunsOnTask /\ applied \in [Statements -> Nat]
    BY DEF DoneInvariant, AppliedInOrder
  <1>2. /\ UNCHANGED <<created, active, applied>> /\ Fault /\ runs' = WithoutRunsOf(API)
        /\ store' = IF store.kind = "memory" THEN EmptyStore("memory") ELSE store
    BY DEF ApiRestarts
  <1>3. DOMAIN runs = JobIds \X Processes
    BY <1>1 DEF RunsOnTask
  <1>4. CASE store.kind = "memory"
    <2>1. /\ store'.kind = "memory" /\ \A k \in JobIds : Get(store, k)' = NoJob
          /\ DOMAIN store' = {"kind", "jobs", "index"} /\ DOMAIN store'.jobs = JobIds
      BY <1>2, <1>4 DEF EmptyStore, Get
    <2>2. faults' = faults + 1 /\ faults \in Nat
      BY <1>1, <1>2 DEF Fault, RecordsTruthful
    <2>3. RecordsTruthful'
      BY <1>1, <1>2, <2>1, <2>2 DEF RecordsTruthful
    <2>4. \A j \in JobIds, p \in Processes : runs'[<<j, p>>] = Idle
      BY <1>1, <1>2, <1>4 DEF RunsOnTask, OnTask, WithoutRunsOf
    <2>5. RunsOnTask'
      BY <1>2, <2>4 DEF RunsOnTask, OnTask, WithoutRunsOf
    <2>6. ~Remembers'
      BY <2>1, <2>2 DEF Remembers
    <2>7. ActiveTakenUp' /\ AppliedInOrder'
      BY <1>2, <2>6 DEF DoneInvariant, ActiveTakenUp, AppliedInOrder
    <2> QED
      BY <2>3, <2>5, <2>7 DEF DoneInvariant
  <1>5. CASE store.kind # "memory"
    <2>1. store' = store
      BY <1>2, <1>5
    <2>2. Onward /\ RecordsTruthful'
      BY <1>1, <1>2, <2>1, NoSaveGoesOnward DEF StatementsLast
    <2>3. RunsOnTask'
      BY <1>1, <1>2, <1>3, <2>2, RunsEndOrStart DEF WithoutRunsOf
    <2> QED
      BY <1>2, <2>2, <2>3, GraphStays DEF DoneInvariant
  <1> QED
    BY <1>4, <1>5

----------------------------------------------------------------------------
(* The steps of an execution. *)

\* A process that runs a job reads the record it works on.
LEMMA ReadersRead ==
  ASSUME RecordsTruthful, RunsOnTask, NEW j \in JobIds, NEW p \in Processes,
         runs[<<j, p>>].at \notin {"idle", "start"}
  PROVE  /\ Reads(j, runs[<<j, p>>]) /\ (store.kind = "redis" \/ p = API)
         /\ Local(j, p) = runs[<<j, p>>].job
         /\ j <= created /\ created \in Nat
  <1>1. Reads(j, runs[<<j, p>>]) /\ (store.kind = "redis" \/ p = API)
    BY DEF RunsOnTask, OnTask, Idle, Starting, Started
  <1> QED
    BY <1>1 DEF Reads, RecordsTruthful, Local

\* A status does not change what a job is to do.
LEMMA StatusIsNoTask ==
  ASSUME NEW job, Sound(job), NEW status \in {"queued", "validating"} \cup Final
  PROVE  LET changed == [job EXCEPT !.status = status]
         IN  Sound(changed) /\ SameTask(changed, job) /\ changed.status = status
  <1>1. job \in Job
    BY DEF Sound
  <1>2. [job EXCEPT !.status = status] \in Job
    BY <1>1 DEF Job
  <1>3. [job EXCEPT !.status = status].status = status
    BY <1>1 DEF Job
  <1> QED
    BY <1>1, <1>2, <1>3 DEF Sound, SameTask

\* Nor do the children it names.
LEMMA ChildrenAreNoTask ==
  ASSUME NEW job, Sound(job), NEW children \in Seq(JobIds),
         NEW changed, changed = [job EXCEPT !.children = children]
  PROVE  Sound(changed) /\ SameTask(changed, job) /\ changed.status = job.status
  <1>1. job \in Job
    BY DEF Sound
  <1>2. [job EXCEPT !.children = children] \in Job
    BY <1>1 DEF Job
  <1> QED
    BY <1>1, <1>2 DEF Sound, SameTask, Job

\* What is done of a task is done of every copy of it.
LEMMA SameTaskIsFulfilled ==
  ASSUME NEW a, NEW b, SameTask(a, b), NEW m, Fulfilled(a, m)
  PROVE  Fulfilled(b, m)
  BY DEF SameTask, Fulfilled

\* An execution that has done one more piece, or knows more of its children.
LEMMA ReadersGoOn ==
  ASSUME Onward, NEW j \in JobIds, NEW x, Reads(j, x), NEW y \in RunRecord,
         Sound(y.job), SameTask(y.job, x.job), y.job.status = "validating",
         y.at \in StepsOf[y.job.type],
         \A m \in 1..Len(x.job.work) : Behind(y, m) => Behind(x, m) \/ Fulfilled(x.job, m)'
  PROVE  Reads(j, y)'
  <1>1. Get(store, j)' # NoJob /\ SameTask(Get(store, j)', y.job)
    BY DEF Reads, Onward, RecordsLast, SameTask
  <1>2. ASSUME NEW m \in 1..Len(y.job.work), Behind(y, m) PROVE Fulfilled(y.job, m)'
    <2>1. m \in 1..Len(x.job.work)
      BY DEF SameTask
    <2>2. Fulfilled(x.job, m)'
      BY <1>2, <2>1, FulfilledStays DEF Reads
    <2> QED
      BY <2>2 DEF SameTask, Fulfilled
  <1> QED
    BY <1>1, <1>2 DEF Reads

\* A job begins.
LEMMA BeginKeepsTheWord ==
  ASSUME DoneInvariant, NEW j \in JobIds, NEW p \in Processes, BeginJob(j, p)
  PROVE  DoneInvariant'
  <1> PICK job : job = [Get(store, j) EXCEPT !.status = "validating"]
    OBVIOUS
  <1> PICK x : x = Started(job, FirstStep[job.type])
    OBVIOUS
  <1>1. RecordsTruthful /\ RunsOnTask
    BY DEF DoneInvariant
  <1>2. /\ Get(store, j) # NoJob /\ store' = Save(store, j, job)
        /\ runs' = [runs EXCEPT ![<<j, p>>] = x] /\ runs[<<j, p>>].at = "start"
        /\ UNCHANGED <<created, active, applied, faults>>
    BY DEF BeginJob, At
  <1>3. Sound(Get(store, j)) /\ j <= created /\ created \in Nat
    BY <1>1, <1>2 DEF RecordsTruthful
  <1>4. Sound(job) /\ SameTask(job, Get(store, j)) /\ job.status = "validating"
    BY <1>3, StatusIsNoTask DEF Final
  <1>5. job \in Job /\ job # NoJob /\ job.type \in {"unstructured", "corpus", "cypher"}
    BY <1>4, InputsAssumption DEF Sound, Job
  <1>6. x.at = FirstStep[job.type] /\ x.i = 1 /\ x.job = job /\ x.child = 0
    BY DEF Started
  <1>7. /\ x \in RunRecord /\ x.at \in StepsOf[job.type]
        /\ x.at \in {"process", "scan", "statement"}
    <2>1. FirstStep[job.type] \in StepsOf[job.type] \cap {"process", "scan", "statement"}
      BY <1>5 DEF FirstStep, StepsOf
    <2> QED
      BY <1>5, <2>1 DEF Started, RunRecord, Step
  <1>8. Onward /\ RecordsTruthful'
    <2>1. OfItsTask(j, job) /\ job.status # "completed"
      BY <1>4 DEF OfItsTask
    <2>2. created' \in Nat /\ created <= created' /\ j <= created'
      BY <1>2, <1>3
    <2>3. store' = Save(store, j, job) /\ applied' = applied /\ (faults' = faults \/ Fault)
      BY <1>2
    <2> QED
      BY <1>1, <2>1, <2>2, <2>3, SavesGoOnward
  <1>9. Get(store, j)' = job
    BY <1>1, <1>2, <1>5, SaveIsOneRecord DEF RecordsTruthful
  <1>10. \A m \in 1..Len(x.job.work) : ~Behind(x, m)
    BY <1>6, <1>7 DEF Behind
  <1>11. Reads(j, x)'
    BY <1>4, <1>5, <1>6, <1>7, <1>9, <1>10 DEF Reads, SameTask
  <1>12. store'.kind = "redis" \/ p = API
    BY <1>1, <1>2, <1>8 DEF RunsOnTask, OnTask, Idle, Onward
  <1>13. RunsOnTask'
    BY <1>1, <1>2, <1>8, <1>11, <1>12, OneRunMoves DEF OnTask
  <1> QED
    BY <1>2, <1>8, <1>13, GraphStays DEF DoneInvariant

\* A record is saved as failed: this says nothing of its work.
LEMMA FailuresKeepTheWord ==
  ASSUME DoneInvariant, NEW j \in JobIds, NEW p \in Processes,
         runs[<<j, p>>].at \notin {"idle", "start"}, JobFails(j, p),
         UNCHANGED <<created, active, applied>>, faults' = faults \/ Fault
  PROVE  DoneInvariant'
  <1> DEFINE job == [Local(j, p) EXCEPT !.status = "failed"]
  <1>1. RecordsTruthful /\ RunsOnTask
    BY DEF DoneInvariant
  <1>2. store' = Save(store, j, job) /\ runs' = [runs EXCEPT ![<<j, p>>] = Idle]
    BY DEF JobFails, FailedIn
  <1>3. /\ Sound(Local(j, p)) /\ SameTask(Get(store, j), Local(j, p))
        /\ j <= created /\ created \in Nat
    BY <1>1, ReadersRead DEF Reads
  <1>4. Sound(job) /\ SameTask(job, Local(j, p)) /\ job.status = "failed"
    BY <1>3, StatusIsNoTask DEF Final
  <1>5. OfItsTask(j, job)
    BY <1>3, <1>4 DEF OfItsTask, SameTask
  <1> HIDE DEF job
  <1>6. Onward /\ RecordsTruthful'
    BY <1>1, <1>2, <1>3, <1>4, <1>5, SavesGoOnward
  <1>7. RunsOnTask'
    BY <1>1, <1>2, <1>6, OneRunMoves DEF OnTask
  <1> QED
    BY <1>6, <1>7, GraphStays DEF DoneInvariant

\* A job is completed when an execution has all of its work behind it.
LEMMA FinishKeepsTheWord ==
  ASSUME DoneInvariant, NEW j \in JobIds, NEW p \in Processes, FinishJob(j, p)
  PROVE  DoneInvariant'
  <1> PICK job : job = [Local(j, p) EXCEPT !.status = "completed"]
    OBVIOUS
  <1>1. RecordsTruthful /\ RunsOnTask
    BY DEF DoneInvariant
  <1>2. /\ store' = Save(store, j, job) /\ runs' = [runs EXCEPT ![<<j, p>>] = Idle]
        /\ UNCHANGED <<created, active, applied, faults>> /\ runs[<<j, p>>].at = "finish"
    BY DEF FinishJob, At
  <1>3. /\ Reads(j, runs[<<j, p>>]) /\ Local(j, p) = runs[<<j, p>>].job
        /\ j <= created /\ created \in Nat
    BY <1>1, <1>2, ReadersRead
  <1>4. Sound(Local(j, p)) /\ SameTask(Get(store, j), Local(j, p))
    BY <1>3 DEF Reads
  <1>5. Sound(job) /\ SameTask(job, Local(j, p)) /\ SameTask(Local(j, p), job)
    BY <1>4, StatusIsNoTask DEF Final, SameTask
  <1>6. OfItsTask(j, job)
    BY <1>4, <1>5 DEF OfItsTask, SameTask
  <1>7. \A m \in 1..Len(job.work) : Fulfilled(job, m)
    <2>1. \A m \in 1..Len(Local(j, p).work) : Fulfilled(Local(j, p), m)
      BY <1>2, <1>3 DEF Reads, Behind
    <2> QED
      BY <1>5, <2>1, SameTaskIsFulfilled DEF SameTask
  <1>8. Onward
    BY <1>1, <1>2, <1>6, SavesLast, FaultsGrow DEF Onward, StatementsLast
  <1>9. Truthful(job)'
    BY <1>5, <1>7, <1>8, FulfilledStays DEF Truthful
  <1>10. RecordsTruthful'
    BY <1>1, <1>2, <1>3, <1>6, <1>8, <1>9, SavesAreTruthful
  <1>11. RunsOnTask'
    BY <1>1, <1>2, <1>8, OneRunMoves DEF OnTask
  <1> QED
    BY <1>2, <1>8, <1>10, <1>11, GraphStays DEF DoneInvariant

\* A step of an execution that saves no record and changes no content.
LEMMA ProgressKeepsTheWord ==
  ASSUME DoneInvariant, NEW j \in JobIds, NEW p \in Processes,
         runs[<<j, p>>].at \notin {"idle", "start"},
         UNCHANGED <<store, created, active, applied, faults>>,
         NEW y \in RunRecord, runs' = [runs EXCEPT ![<<j, p>>] = y],
         y.job = Local(j, p), y.at \in StepsOf[y.job.type],
         \A m \in 1..Len(Local(j, p).work) :
            Behind(y, m) => Behind(runs[<<j, p>>], m) \/ Fulfilled(Local(j, p), m)
  PROVE  DoneInvariant'
  <1>1. RecordsTruthful /\ RunsOnTask
    BY DEF DoneInvariant
  <1>2. Onward /\ RecordsTruthful'
    BY <1>1, NoSaveGoesOnward DEF StatementsLast
  <1> PICK x : x = runs[<<j, p>>]
    OBVIOUS
  <1>3. /\ Reads(j, x) /\ (store.kind = "redis" \/ p = API) /\ Local(j, p) = x.job
    BY <1>1, ReadersRead
  <1>4. Sound(y.job) /\ SameTask(y.job, x.job) /\ y.job.status = "validating"
    BY <1>3 DEF Reads, SameTask
  <1>5. \A m \in 1..Len(x.job.work) : Behind(y, m) => Behind(x, m) \/ Fulfilled(x.job, m)'
    <2>1. Sound(x.job)
      BY <1>3 DEF Reads
    <2> QED
      BY <1>2, <1>3, <2>1, FulfilledStays
  <1>6. Reads(j, y)'
    BY <1>2, <1>3, <1>4, <1>5, ReadersGoOn
  <1>7. RunsOnTask'
    BY <1>1, <1>2, <1>3, <1>6, OneRunMoves DEF OnTask
  <1> QED
    BY <1>2, <1>7, GraphStays DEF DoneInvariant

\* The record of an execution after a field of it has changed.
LEMMA RunsHaveFields ==
  ASSUME DoneInvariant, NEW j \in JobIds, NEW p \in Processes,
         runs[<<j, p>>].at \notin {"idle", "start"}
  PROVE  LET x == runs[<<j, p>>]
         IN  /\ x \in RunRecord /\ x.i \in Nat \ {0}
             /\ x.at \in StepsOf[x.job.type] /\ Local(j, p) = x.job
             /\ x.job.type \in {"unstructured", "corpus", "cypher"}
             /\ Sound(x.job) /\ Len(x.job.work) \in Nat
             /\ x.at \in {"scan", "file", "enqueue", "inline"} => x.job.type = "corpus"
             /\ x.at = "statement" => x.job.type = "cypher"
             /\ x.at = "process" => x.job.type = "unstructured"
  <1> PICK x : x = runs[<<j, p>>]
    OBVIOUS
  <1>1. Reads(j, x) /\ Local(j, p) = x.job
    BY ReadersRead DEF DoneInvariant
  <1>2. x \in RunRecord /\ x.i \in Nat \ {0} /\ x.job \in Job
    BY <1>1 DEF Reads, RunRecord
  <1>3. x.job.type \in {"unstructured", "corpus", "cypher"} /\ Sound(x.job)
    BY <1>1, <1>2 DEF Job, Reads
  <1>4. Len(x.job.work) \in Nat
    <2>1. \/ \E f \in Files : x.job.work = <<f>>
          \/ x.job.work \in Seq(Files)
          \/ x.job.work \in Seq(Statements)
      BY <1>3, InputsAssumption DEF Sound
    <2> QED
      BY <2>1
  <1>5. /\ x.at \in StepsOf[x.job.type]
        /\ x.at \in {"scan", "file", "enqueue", "inline"} => x.job.type = "corpus"
        /\ x.at = "statement" => x.job.type = "cypher"
        /\ x.at = "process" => x.job.type = "unstructured"
    BY <1>1, <1>3 DEF Reads, StepsOf
  <1> QED
    BY <1>1, <1>2, <1>3, <1>4, <1>5

\* A script ends, a corpus is scanned, or processing fails.
LEMMA ScriptsAndScansKeepTheWord ==
  ASSUME DoneInvariant, NEW j \in JobIds, NEW p \in Processes,
         \/ EndScript(j, p) \/ ScanCorpus(j, p) \/ ProcessingFails(j, p)
  PROVE  DoneInvariant'
  <1> PICK x : x = runs[<<j, p>>]
    OBVIOUS
  <1>1. x.at \in {"statement", "scan", "process"} /\ x.at \notin {"idle", "start"}
    BY DEF EndScript, ScanCorpus, ProcessingFails, At
  <1>2. /\ x \in RunRecord /\ x.i \in Nat \ {0} /\ Local(j, p) = x.job /\ Len(x.job.work) \in Nat
        /\ x.at = "statement" => x.job.type = "cypher"
        /\ x.at = "scan" => x.job.type = "corpus"
    BY <1>1, RunsHaveFields
  <1>3. CASE JobFails(j, p)
    BY <1>1, <1>3, FailuresKeepTheWord DEF EndScript, ScanCorpus, ProcessingFails
  <1>4. CASE EndScript(j, p) /\ ~JobFails(j, p)
    <2> PICK y : y = [x EXCEPT !.at = "finish"]
      OBVIOUS
    <2>1. /\ x.i > Len(x.job.work) /\ runs' = [runs EXCEPT ![<<j, p>>] = y]
          /\ UNCHANGED <<store, created, active, applied, faults>> /\ x.at = "statement"
      BY <1>2, <1>4 DEF EndScript, At
    <2>2. y \in RunRecord /\ y.job = x.job /\ y.at = "finish"
      BY <1>2 DEF RunRecord, Step
    <2>3. y.at \in StepsOf[y.job.type]
      BY <1>2, <2>1, <2>2 DEF StepsOf
    <2>4. \A m \in 1..Len(x.job.work) : Behind(x, m)
      BY <1>2, <2>1 DEF Behind
    <2> QED
      BY <1>1, <1>2, <2>1, <2>2, <2>3, <2>4, ProgressKeepsTheWord
  <1>5. CASE ScanCorpus(j, p) /\ ~JobFails(j, p)
    <2> PICK y : y = [x EXCEPT !.at = "file"]
      OBVIOUS
    <2>1. /\ runs' = [runs EXCEPT ![<<j, p>>] = y]
          /\ UNCHANGED <<store, created, active, applied, faults>> /\ x.at = "scan"
      BY <1>5 DEF ScanCorpus, At
    <2>2. y \in RunRecord /\ y.job = x.job /\ y.at = "file" /\ y.i = x.i
      BY <1>2 DEF RunRecord, Step
    <2>3. y.at \in StepsOf[y.job.type]
      BY <1>2, <2>1, <2>2 DEF StepsOf
    <2>4. \A m \in 1..Len(x.job.work) : Behind(y, m) => Behind(x, m)
      BY <2>2 DEF Behind
    <2> QED
      BY <1>1, <1>2, <2>1, <2>2, <2>3, <2>4, ProgressKeepsTheWord
  <1> QED
    BY <1>3, <1>4, <1>5 DEF ProcessingFails

\* A skipped file is insane, or the ACTIVE revision's content is its own.
LEMMA SkippedFilesKeepTheWord ==
  ASSUME DoneInvariant, NEW j \in JobIds, NEW p \in Processes, SkipFile(j, p)
  PROVE  DoneInvariant'
  <1> PICK x : x = runs[<<j, p>>]
    OBVIOUS
  <1> PICK y : y = [x EXCEPT !.i = @ + 1]
    OBVIOUS
  <1>1. /\ x.at = "file" /\ x.i \in 1..Len(Local(j, p).work)
        /\ runs' = [runs EXCEPT ![<<j, p>>] = y]
        /\ UNCHANGED <<store, created, active, applied, faults>>
    BY DEF SkipFile, AtFile, At
  <1>2. /\ x \in RunRecord /\ x.i \in Nat \ {0} /\ Local(j, p) = x.job /\ Len(x.job.work) \in Nat
        /\ x.job.type = "corpus" /\ x.at \in StepsOf[x.job.type] /\ Sound(x.job)
    BY <1>1, RunsHaveFields
  <1>3. y \in RunRecord /\ y.job = x.job /\ y.at = "file" /\ y.i = x.i + 1
    BY <1>1, <1>2 DEF RunRecord
  <1>4. Fulfilled(x.job, x.i)
    <2> PICK f : f = x.job.work[x.i]
      OBVIOUS
    <2>1. f \in Files /\ (f \in Insane \/ active[Stem[f]] = Content[f])
      BY <1>1, <1>2, WorkIsInPieces DEF SkipFile, Candidate, IsDuplicate
    <2>2. Stem[f] \in Stems /\ Content[f] # NoContent
      BY <2>1, InputsAssumption DEF Stems
    <2>3. Remembers => f \in Insane \/ TakenUp(Content[f])
      BY <2>1, <2>2 DEF DoneInvariant, ActiveTakenUp
    <2> QED
      BY <1>2, <2>3 DEF Fulfilled
  <1>5. \A m \in 1..Len(x.job.work) : Behind(y, m) => Behind(x, m) \/ m = x.i
    BY <1>2, <1>3, <1>1 DEF Behind
  <1> QED
    BY <1>1, <1>2, <1>3, <1>4, <1>5, ProgressKeepsTheWord

\* A statement of a script runs.
LEMMA StatementsKeepTheWord ==
  ASSUME DoneInvariant, NEW j \in JobIds, NEW p \in Processes, RunStatement(j, p)
  PROVE  DoneInvariant'
  <1>x. PICK x : x = runs[<<j, p>>]
    OBVIOUS
  <1>y. PICK y : y = [x EXCEPT !.i = @ + 1]
    OBVIOUS
  <1>s. PICK s : s = Local(j, p).work[x.i]
    OBVIOUS
  <1>1. /\ x.at = "statement" /\ x.i \in 1..Len(Local(j, p).work)
        /\ runs' = [runs EXCEPT ![<<j, p>>] = y]
        /\ applied' = IF s \in SchemaStatements /\ applied[s] > 0 THEN applied
                      ELSE [applied EXCEPT ![s] = @ + 1]
        /\ UNCHANGED <<store, created, active, faults>>
    BY <1>x, <1>y, <1>s DEF RunStatement, At
  <1>2. /\ x \in RunRecord /\ x.i \in Nat \ {0} /\ Local(j, p) = x.job /\ Len(x.job.work) \in Nat
        /\ x.job.type = "cypher" /\ x.at \in StepsOf[x.job.type] /\ Sound(x.job)
    BY <1>x, <1>1, RunsHaveFields
  <1>3. /\ RecordsTruthful /\ RunsOnTask /\ Reads(j, x) /\ (store.kind = "redis" \/ p = API)
        /\ applied \in [Statements -> Nat] /\ AppliedInOrder
    BY <1>x, <1>1, ReadersRead DEF DoneInvariant, AppliedInOrder
  <1>4. y \in RunRecord /\ y.job = x.job /\ y.at = "statement" /\ y.i = x.i + 1
    BY <1>y, <1>1, <1>2 DEF RunRecord
  <1>5. s = x.job.work[x.i] /\ s \in Statements
    BY <1>s, <1>1, <1>2, WorkIsInPieces
  <1>6. /\ applied' \in [Statements -> Nat] /\ applied'[s] > 0 /\ StatementsLast
        /\ \A t \in Statements : t # s => applied'[t] = applied[t]
    <2>1. CASE s \in SchemaStatements /\ applied[s] > 0
      <3>1. applied' = applied
        BY <1>1, <2>1
      <3> QED
        BY <1>3, <2>1, <3>1 DEF StatementsLast
    <2>2. CASE ~(s \in SchemaStatements /\ applied[s] > 0)
      <3>1. applied' = [applied EXCEPT ![s] = @ + 1]
        BY <1>1, <2>2
      <3>2. applied[s] \in Nat
        BY <1>3, <1>5
      <3>3. /\ applied' \in [Statements -> Nat] /\ applied'[s] = applied[s] + 1
            /\ \A t \in Statements : t # s => applied'[t] = applied[t]
        BY <1>3, <1>5, <3>1
      <3>4. applied'[s] > 0
        BY <3>2, <3>3
      <3>5. ASSUME NEW t \in Statements, applied[t] > 0 PROVE applied'[t] > 0
        BY <3>3, <3>4, <3>5
      <3> QED
        BY <3>3, <3>4, <3>5 DEF StatementsLast
    <2> QED
      BY <2>1, <2>2
  <1>7. Onward /\ RecordsTruthful'
    BY <1>1, <1>3, <1>6, NoSaveGoesOnward
  <1>8. \A m \in 1..Len(x.job.work) : Behind(y, m) => Behind(x, m) \/ Fulfilled(x.job, m)'
    <2>1. Fulfilled(x.job, x.i)'
      BY <1>2, <1>5, <1>6 DEF Fulfilled
    <2>2. \A m \in 1..Len(x.job.work) : Behind(y, m) => Behind(x, m) \/ m = x.i
      BY <1>1, <1>2, <1>4 DEF Behind
    <2> QED
      BY <2>1, <2>2
  <1>9. Reads(j, y)'
    <2>1. SameTask(y.job, x.job) /\ y.job.status = "validating"
      BY <1>3, <1>4 DEF SameTask, Reads
    <2>2. y.at \in StepsOf[y.job.type]
      BY <1>1, <1>2, <1>4
    <2> QED
      BY <1>2, <1>3, <1>4, <1>7, <1>8, <2>1, <2>2, ReadersGoOn
  <1>10. RunsOnTask'
    BY <1>1, <1>3, <1>7, <1>9, OneRunMoves DEF OnTask
  <1>11. ActiveTakenUp'
    <2>1. ASSUME Remembers', NEW d \in Stems, active'[d] # NoContent
          PROVE  TakenUp(active[d])'
      <3>1. TakenUp(active[d]) /\ active' = active
        BY <1>1, <1>7, <2>1, MemoryIsLost DEF DoneInvariant, ActiveTakenUp, Onward
      <3> PICK c : c = active[d]
        OBVIOUS
      <3>2. TakenUp(c)'
        BY <1>7, <3>1, TakenUpStays DEF Onward
      <3> QED
        BY <3>1, <3>2
    <2> QED
      BY <1>1, <2>1 DEF DoneInvariant, ActiveTakenUp
  <1>12. AppliedInOrder'
    <2>1. ASSUME StatementsApart, NEW t \in Scripts, NEW k \in 1..Len(t), NEW l \in 1..Len(t),
                 k < l, applied'[t[l]] > 0
          PROVE  applied'[t[k]] > 0
      <3>1. t[k] \in Statements /\ t[l] \in Statements
        BY InputsAssumption
      <3>2. CASE t[l] = s
        <4>1. x.job.work \in Scripts
          BY <1>2 DEF Sound
        <4>2. t = x.job.work /\ l = x.i
          BY <1>1, <1>2, <1>5, <2>1, <3>2, <4>1 DEF StatementsApart
        <4>3. k \in 1..Len(x.job.work) /\ Behind(x, k)
          BY <2>1, <4>2 DEF Behind
        <4>4. applied[t[k]] > 0
          BY <1>2, <1>3, <4>2, <4>3 DEF Reads, Fulfilled
        <4> QED
          BY <1>6, <3>1, <4>4 DEF StatementsLast
      <3>3. CASE t[l] # s
        <4>1. applied[t[l]] > 0
          BY <1>6, <2>1, <3>1, <3>3
        <4>2. applied[t[k]] > 0
          BY <1>3, <2>1, <4>1 DEF AppliedInOrder
        <4> QED
          BY <1>6, <3>1, <4>2 DEF StatementsLast
      <3> QED
        BY <3>2, <3>3
    <2> QED
      BY <1>6, <2>1 DEF AppliedInOrder
  <1> QED
    BY <1>7, <1>10, <1>11, <1>12 DEF DoneInvariant

\* A revision becomes ACTIVE for the file of a stored job.
LEMMA DocumentsKeepTheWord ==
  ASSUME DoneInvariant, NEW j \in JobIds, NEW p \in Processes, ProcessUnstructured(j, p)
  PROVE  DoneInvariant'
  <1> PICK x : x = runs[<<j, p>>]
    OBVIOUS
  <1> PICK y : y = [x EXCEPT !.at = "finish"]
    OBVIOUS
  <1> PICK f : f = Local(j, p).work[1]
    OBVIOUS
  <1>1. x.at = "process" /\ UNCHANGED <<created, applied, faults>>
    BY DEF ProcessUnstructured, At
  <1>2. /\ x \in RunRecord /\ Local(j, p) = x.job /\ x.job.type = "unstructured"
        /\ x.at \in StepsOf[x.job.type] /\ Sound(x.job)
    BY <1>1, RunsHaveFields
  <1>3. RecordsTruthful /\ RunsOnTask /\ Reads(j, x) /\ (store.kind = "redis" \/ p = API)
    BY <1>1, ReadersRead DEF DoneInvariant
  <1>4. CASE Local(j, p).path \notin disk
    BY <1>1, <1>4, FailuresKeepTheWord DEF ProcessUnstructured
  <1>5. CASE Local(j, p).path \in disk
    <2>1. /\ active' = IF \E d \in Stems : active[d] = Content[f] THEN active
                       ELSE [active EXCEPT ![Stem[f]] = Content[f]]
          /\ runs' = [runs EXCEPT ![<<j, p>>] = y] /\ store' = store
      BY <1>5 DEF ProcessUnstructured
    <2>2. Onward /\ RecordsTruthful'
      BY <1>1, <1>3, <2>1, NoSaveGoesOnward DEF StatementsLast
    <2>3. y \in RunRecord /\ y.job = x.job /\ y.at = "finish"
      BY <1>2 DEF RunRecord, Step
    <2>4. y.at \in StepsOf[y.job.type] /\ SameTask(y.job, x.job) /\ y.job.status = "validating"
      BY <1>2, <1>3, <2>3 DEF StepsOf, SameTask, Reads
    <2>5. \A m \in 1..Len(x.job.work) : Fulfilled(x.job, m)'
      BY <1>2 DEF Fulfilled
    <2>6. Reads(j, y)'
      BY <1>2, <1>3, <2>2, <2>3, <2>4, <2>5, ReadersGoOn
    <2>7. RunsOnTask'
      BY <1>3, <2>1, <2>2, <2>6, OneRunMoves DEF OnTask
    <2>8. /\ Get(store, j) # NoJob /\ Get(store, j).type = "unstructured"
          /\ Get(store, j).work[1] = f
      BY <1>2, <1>3 DEF Reads, SameTask
    <2>9. TakenUp(Content[f])'
      BY <2>1, <2>8 DEF TakenUp, StoredJobs, Get
    <2>10. ASSUME Remembers', NEW d \in Stems, active'[d] # NoContent
           PROVE  TakenUp(active[d])'
      <3>1. DOMAIN active = Stems
        BY DEF DoneInvariant, ActiveTakenUp
      <3>2. active'[d] = Content[f] \/ active'[d] = active[d]
        BY <2>1, <3>1
      <3>3. CASE active'[d] = Content[f]
        BY <2>9, <3>3
      <3>4. CASE active'[d] = active[d]
        <4>1. TakenUp(active[d])
          BY <2>2, <2>10, <3>4, MemoryIsLost DEF DoneInvariant, ActiveTakenUp, Onward
        <4> PICK c : c = active[d]
          OBVIOUS
        <4>2. TakenUp(c)'
          BY <2>2, <4>1, TakenUpStays DEF Onward
        <4> QED
          BY <3>4, <4>2
      <3> QED
        BY <3>2, <3>3, <3>4
    <2>11. ActiveTakenUp'
      BY <2>1, <2>10 DEF DoneInvariant, ActiveTakenUp
    <2>12. AppliedInOrder'
      BY <1>1 DEF DoneInvariant, AppliedInOrder
    <2> QED
      BY <2>2, <2>7, <2>11, <2>12 DEF DoneInvariant
  <1> QED
    BY <1>4, <1>5

\* The child of a file is stored before the corpus job goes on.
LEMMA AcceptedFilesKeepTheWord ==
  ASSUME DoneInvariant, NEW j \in JobIds, NEW p \in Processes, AcceptFile(j, p)
  PROVE  DoneInvariant'
  <1> PICK x : x = runs[<<j, p>>]
    OBVIOUS
  <1> PICK id : id = FreshId
    OBVIOUS
  <1> PICK f : f = Candidate(j, p)
    OBVIOUS
  <1>y. PICK y : y = [x EXCEPT !.at = "enqueue", !.child = id, !.job.children = Append(@, id)]
    OBVIOUS
  <1>c. PICK child : child = NewJob("unstructured", <<"source", f>>, <<f>>, FALSE)
    OBVIOUS
  <1>1. /\ x.at = "file" /\ x.i \in 1..Len(Local(j, p).work) /\ id \in JobIds
        /\ created' = id /\ store' = Save(store, id, child)
        /\ UNCHANGED <<active, applied>> /\ (faults' = faults \/ Fault)
    BY <1>c DEF AcceptFile, AtFile, At
  <1>2. /\ x \in RunRecord /\ x.i \in Nat \ {0} /\ Local(j, p) = x.job /\ Len(x.job.work) \in Nat
        /\ x.job.type = "corpus" /\ x.at \in StepsOf[x.job.type] /\ Sound(x.job)
    BY <1>1, RunsHaveFields
  <1>3. /\ RecordsTruthful /\ RunsOnTask /\ Reads(j, x) /\ (store.kind = "redis" \/ p = API)
    BY <1>1, ReadersRead DEF DoneInvariant
  <1>4. runs' = [runs EXCEPT ![<<j, p>>] = y]
    BY <1>y, <1>2, <1>3 DEF AcceptFile, RunsOnTask, RunRecord
  <1>5. f = x.job.work[x.i] /\ f \in Files /\ f \in CorpusFiles
    BY <1>1, <1>2, WorkIsInPieces DEF Candidate
  <1>6. Sound(child) /\ child \in Job /\ child.type = "unstructured" /\ child.work = <<f>>
    <2>1. <<"source", f>> \in SourcePaths
      BY <1>5 DEF SourcePaths
    <2>2. Sound(child)
      BY <1>c, <1>5, <2>1, NewJobsAreSound
    <2> QED
      BY <1>c, <2>2 DEF Sound, NewJob
  <1>7. Onward /\ RecordsTruthful' /\ Get(store, id) = NoJob
    <2>1. Sound(NewJob("unstructured", <<"source", f>>, <<f>>, FALSE))
      BY <1>c, <1>6
    <2> QED
      BY <1>c, <1>1, <1>3, <2>1, NewRecordsAreTruthful
  <1>8. Get(store, id)' = child
    <2>1. DOMAIN store = {"kind", "jobs", "index"} /\ DOMAIN store.jobs = JobIds
      BY <1>3 DEF RecordsTruthful
    <2>2. id \in JobIds /\ child \in Job /\ store' = Save(store, id, child)
      BY <1>1, <1>6
    <2> QED
      BY <2>1, <2>2, SaveIsOneRecord
  <1>9. TakenUp(Content[f])'
    <2>1. /\ Get(store, id)' # NoJob /\ Get(store, id)'.type = "unstructured"
          /\ Get(store, id)'.work[1] = f
      <3>1. child # NoJob /\ child.work[1] = f
        BY <1>6, InputsAssumption
      <3> QED
        BY <1>6, <1>8, <3>1
    <2> QED
      BY <1>1, <2>1 DEF TakenUp, StoredJobs
  <1>10. /\ y \in RunRecord /\ y.at = "enqueue" /\ y.i = x.i
         /\ Sound(y.job) /\ SameTask(y.job, x.job) /\ y.job.status = x.job.status
    <2>1. Append(x.job.children, id) \in Seq(JobIds)
      BY <1>1, <1>2 DEF RunRecord, Job
    <2>2. y.job = [x.job EXCEPT !.children = Append(x.job.children, id)]
      BY <1>y, <1>2 DEF RunRecord
    <2>3. Sound(y.job) /\ SameTask(y.job, x.job) /\ y.job.status = x.job.status
      <3>1. PICK job : job = x.job
        OBVIOUS
      <3>2. PICK children : children = Append(x.job.children, id)
        OBVIOUS
      <3>3. PICK changed : changed = y.job
        OBVIOUS
      <3>4. Sound(job) /\ children \in Seq(JobIds) /\ changed = [job EXCEPT !.children = children]
        BY <1>2, <2>1, <2>2, <3>1, <3>2, <3>3
      <3>5. Sound(changed) /\ SameTask(changed, job) /\ changed.status = job.status
        BY <3>4, ChildrenAreNoTask
      <3> QED
        BY <3>1, <3>3, <3>5
    <2>4. y.at = "enqueue" /\ y.i = x.i /\ y.child = id /\ DOMAIN y = DOMAIN x
      BY <1>y, <1>2 DEF RunRecord
    <2>5. y = [at |-> y.at, i |-> y.i, job |-> y.job, child |-> y.child]
      BY <1>y, <1>2, <2>4 DEF RunRecord
    <2>6. y \in RunRecord
      BY <1>1, <1>2, <2>3, <2>4, <2>5 DEF RunRecord, Step, Sound
    <2> QED
      BY <2>3, <2>4, <2>6
  <1>11. \A m \in 1..Len(x.job.work) : Behind(y, m) => Behind(x, m) \/ Fulfilled(x.job, m)'
    <2>1. Fulfilled(x.job, x.i)'
      BY <1>2, <1>5, <1>9 DEF Fulfilled
    <2>2. \A m \in 1..Len(x.job.work) : Behind(y, m) => Behind(x, m) \/ m = x.i
      BY <1>10 DEF Behind
    <2> QED
      BY <2>1, <2>2
  <1>12. Reads(j, y)'
    <2>1. y.job.status = "validating" /\ y.at \in StepsOf[y.job.type]
      BY <1>2, <1>3, <1>10 DEF Reads, SameTask, StepsOf
    <2> QED
      BY <1>3, <1>7, <1>10, <1>11, <2>1, ReadersGoOn
  <1>13. RunsOnTask'
    <2>1. OnTask(j, p, y)'
      BY <1>3, <1>7, <1>12 DEF OnTask, Onward
    <2> QED
      BY <1>3, <1>4, <1>7, <2>1, OneRunMoves
  <1> QED
    BY <1>1, <1>7, <1>13, GraphStays DEF DoneInvariant

\* An execution that saves the record as it knows it, and goes on.
LEMMA SavedProgressKeepsTheWord ==
  ASSUME DoneInvariant, NEW j \in JobIds, NEW p \in Processes,
         runs[<<j, p>>].at \notin {"idle", "start"},
         store' = Save(store, j, Local(j, p)) \/ store' = store,
         UNCHANGED <<created, active, applied, faults>>,
         NEW y \in RunRecord, runs' = [runs EXCEPT ![<<j, p>>] = y],
         y.job = Local(j, p), y.at \in StepsOf[y.job.type],
         \A m \in 1..Len(Local(j, p).work) : Behind(y, m) => Behind(runs[<<j, p>>], m)
  PROVE  DoneInvariant'
  <1> PICK x : x = runs[<<j, p>>]
    OBVIOUS
  <1>1. RecordsTruthful /\ RunsOnTask
    BY DEF DoneInvariant
  <1>2. /\ Reads(j, x) /\ (store.kind = "redis" \/ p = API) /\ Local(j, p) = x.job
        /\ j <= created /\ created \in Nat
    BY <1>1, ReadersRead
  <1>3. Sound(x.job) /\ SameTask(y.job, x.job) /\ x.job.status = "validating"
    BY <1>2 DEF Reads, SameTask
  <1>4. OfItsTask(j, x.job) /\ x.job.status # "completed"
    BY <1>2, <1>3 DEF OfItsTask, Reads, SameTask
  <1>5. Onward /\ RecordsTruthful'
    <2>1. created' \in Nat /\ created <= created' /\ j <= created'
      BY <1>2
    <2>2. CASE store' = store
      BY <1>1, <2>2, NoSaveGoesOnward DEF StatementsLast
    <2>3. CASE store' = Save(store, j, Local(j, p))
      BY <1>1, <1>2, <1>4, <2>1, <2>3, SavesGoOnward
    <2> QED
      BY <2>2, <2>3
  <1>6. Reads(j, y)'
    BY <1>2, <1>3, <1>5, ReadersGoOn
  <1>7. RunsOnTask'
    <2>1. OnTask(j, p, y)'
      BY <1>2, <1>5, <1>6 DEF OnTask, Onward
    <2> QED
      BY <1>1, <1>5, <2>1, OneRunMoves
  <1> QED
    BY <1>5, <1>7, GraphStays DEF DoneInvariant

\* A child of a corpus is queued, awaited, or the last one is done.
LEMMA CorporaKeepTheWord ==
  ASSUME DoneInvariant, NEW j \in JobIds, NEW p \in Processes,
         EnqueueChild(j, p) \/ ResumeCorpus(j, p) \/ EndCorpus(j, p)
  PROVE  DoneInvariant'
  <1> PICK x : x = runs[<<j, p>>]
    OBVIOUS
  <1>1. /\ x.at \in {"enqueue", "inline", "file"}
        /\ UNCHANGED <<created, active, applied, faults>>
    BY DEF EnqueueChild, ResumeCorpus, EndCorpus, At
  <1>2. /\ x \in RunRecord /\ x.i \in Nat \ {0} /\ Local(j, p) = x.job /\ Len(x.job.work) \in Nat
        /\ x.job.type = "corpus" /\ x.at \in StepsOf[x.job.type] /\ Sound(x.job)
    BY <1>1, RunsHaveFields
  <1>3. DOMAIN runs = JobIds \X Processes
    BY DEF DoneInvariant, RunsOnTask
  <1>4. CASE Advance(j, p) /\ x.at \in {"enqueue", "inline"}
    <2> PICK y : y = [x EXCEPT !.at = "file", !.i = @ + 1, !.child = 0]
      OBVIOUS
    <2>1. runs' = [runs EXCEPT ![<<j, p>>] = y]
      BY <1>2, <1>3, <1>4 DEF Advance, RunRecord
    <2>2. store' = Save(store, j, Local(j, p)) \/ store' = store
      BY <1>4 DEF Advance
    <2>3. y \in RunRecord /\ y.job = x.job /\ y.at = "file" /\ y.i = x.i + 1
      <3>1. /\ y.at = "file" /\ y.i = x.i + 1 /\ y.job = x.job /\ y.child = 0
            /\ y = [at |-> y.at, i |-> y.i, job |-> y.job, child |-> y.child]
        BY <1>2 DEF RunRecord
      <3>2. x.i + 1 \in Nat \ {0} /\ x.job \in Job /\ "file" \in Step
        BY <1>2 DEF RunRecord, Step
      <3> QED
        BY <3>1, <3>2 DEF RunRecord
    <2>4. y.at \in StepsOf[y.job.type]
      BY <1>2, <2>3 DEF StepsOf
    <2>5. \A m \in 1..Len(x.job.work) : Behind(y, m) => Behind(x, m)
      BY <1>2, <1>4, <2>3 DEF Behind
    <2> QED
      BY <1>1, <1>2, <2>1, <2>2, <2>3, <2>4, <2>5, SavedProgressKeepsTheWord
  <1>5. CASE EndCorpus(j, p)
    <2> PICK y : y = [x EXCEPT !.at = "finish"]
      OBVIOUS
    <2>1. /\ runs' = [runs EXCEPT ![<<j, p>>] = y] /\ store' = Save(store, j, Local(j, p))
          /\ x.i > Len(x.job.work)
      BY <1>2, <1>5 DEF EndCorpus
    <2>2. y \in RunRecord /\ y.job = x.job /\ y.at = "finish"
      BY <1>2 DEF RunRecord, Step
    <2>3. y.at \in StepsOf[y.job.type]
      BY <1>2, <2>2 DEF StepsOf
    <2>4. \A m \in 1..Len(x.job.work) : Behind(x, m)
      BY <1>2, <2>1 DEF Behind
    <2> QED
      BY <1>1, <1>2, <2>1, <2>2, <2>3, <2>4, SavedProgressKeepsTheWord
  <1> QED
    BY <1>4, <1>5 DEF EnqueueChild, ResumeCorpus, At

\* The child starts in the process of its corpus job.
LEMMA InlineChildrenKeepTheWord ==
  ASSUME DoneInvariant, NEW j \in JobIds, NEW p \in Processes, RunChildInline(j, p)
  PROVE  DoneInvariant'
  <1> PICK x : x = runs[<<j, p>>]
    OBVIOUS
  <1> PICK y : y = [x EXCEPT !.at = "inline"]
    OBVIOUS
  <1>1. /\ x.at = "enqueue" /\ UNCHANGED <<store, created, active, applied>>
        /\ (faults' = faults \/ Fault)
        /\ runs' = [runs EXCEPT ![<<j, p>>] = y, ![<<x.child, p>>] = Starting]
    BY DEF RunChildInline, At
  <1>2. /\ x \in RunRecord /\ x.job.type = "corpus" /\ Sound(x.job)
    BY <1>1, RunsHaveFields
  <1>3. /\ RecordsTruthful /\ RunsOnTask /\ Reads(j, x) /\ (store.kind = "redis" \/ p = API)
        /\ DOMAIN runs = JobIds \X Processes
    BY <1>1, ReadersRead DEF DoneInvariant, RunsOnTask
  <1>4. Onward /\ RecordsTruthful'
    BY <1>1, <1>3, NoSaveGoesOnward DEF StatementsLast
  <1>5. y \in RunRecord /\ y.job = x.job /\ y.at = "inline" /\ y.i = x.i
    BY <1>2 DEF RunRecord, Step
  <1>6. Reads(j, y)'
    <2>1. SameTask(y.job, x.job) /\ y.job.status = "validating" /\ y.at \in StepsOf[y.job.type]
      BY <1>2, <1>3, <1>5 DEF SameTask, Reads, StepsOf
    <2>2. \A m \in 1..Len(x.job.work) : Behind(y, m) => Behind(x, m)
      BY <1>1, <1>5 DEF Behind
    <2> QED
      BY <1>2, <1>3, <1>4, <1>5, <2>1, <2>2, ReadersGoOn
  <1>7. store'.kind = store.kind
    BY <1>4 DEF Onward
  <1>8. ASSUME NEW k \in JobIds, NEW q \in Processes
        PROVE  OnTask(k, q, runs[<<k, q>>])'
    <2>1. \/ runs'[<<k, q>>] = Starting /\ q = p
          \/ runs'[<<k, q>>] = y /\ k = j /\ q = p
          \/ runs'[<<k, q>>] = runs[<<k, q>>]
      BY <1>1, <1>3
    <2>2. CASE runs'[<<k, q>>] = Starting /\ q = p
      BY <1>3, <1>7, <2>2 DEF OnTask
    <2>3. CASE runs'[<<k, q>>] = y /\ k = j /\ q = p
      BY <1>3, <1>6, <1>7, <2>3 DEF OnTask
    <2>4. CASE runs'[<<k, q>>] = runs[<<k, q>>]
      <3> PICK z : z = runs[<<k, q>>]
        OBVIOUS
      <3>1. OnTask(k, q, z)'
        BY <1>3, <1>4, OnTaskStays DEF RunsOnTask
      <3> QED
        BY <2>4, <3>1
    <2> QED
      BY <2>1, <2>2, <2>3, <2>4
  <1>9. RunsOnTask'
    BY <1>1, <1>3, <1>8 DEF RunsOnTask
  <1> QED
    BY <1>1, <1>4, <1>9, GraphStays DEF DoneInvariant

\* One record is saved as begun, and that of its corpus job as failed.
LEMMA RbacFailureKeepsTheWord ==
  ASSUME DoneInvariant, NEW j \in JobIds, NEW p \in Processes, RbacSchemaFails(j, p)
  PROVE  DoneInvariant'
  <1>b. PICK begun : begun = [Get(store, j) EXCEPT !.status = "validating"]
    OBVIOUS
  <1>s. PICK s : s = Save(store, j, begun)
    OBVIOUS
  <1>1. /\ Get(store, j) # NoJob /\ UNCHANGED <<created, active, applied>> /\ Fault
        /\ runs[<<j, p>>].at = "start"
    BY DEF RbacSchemaFails, At
  <1>2. RecordsTruthful /\ RunsOnTask /\ DOMAIN runs = JobIds \X Processes
    BY DEF DoneInvariant, RunsOnTask
  <1>3. Sound(Get(store, j)) /\ j <= created /\ created \in Nat
    BY <1>1, <1>2 DEF RecordsTruthful
  <1>4. Sound(begun) /\ SameTask(begun, Get(store, j)) /\ begun.status = "validating"
    BY <1>b, <1>3, StatusIsNoTask DEF Final
  <1>5. begun \in Job /\ begun # NoJob
    BY <1>4, InputsAssumption DEF Sound
  <1>6. /\ Get(s, j) = begun /\ \A k \in JobIds \ {j} : Get(s, k) = Get(store, k)
        /\ s.kind = store.kind
        /\ DOMAIN s = {"kind", "jobs", "index"} /\ DOMAIN s.jobs = JobIds
    <2>1. DOMAIN store = {"kind", "jobs", "index"} /\ DOMAIN store.jobs = JobIds
      BY <1>2 DEF RecordsTruthful
    <2> QED
      BY <1>s, <1>5, <2>1, SaveIsOneRecord
  <1>7. CASE Parents(j, p) = {}
    <2>1. store' = s /\ runs' = [runs EXCEPT ![<<j, p>>] = Idle]
      BY <1>b, <1>s, <1>7 DEF RbacSchemaFails
    <2>2. OfItsTask(j, begun) /\ begun.status # "completed"
      BY <1>4 DEF OfItsTask
    <2>3. created' \in Nat /\ created <= created' /\ j <= created'
      BY <1>1, <1>3
    <2>4. Onward /\ RecordsTruthful'
      BY <1>s, <1>1, <1>2, <2>1, <2>2, <2>3, SavesGoOnward
    <2>5. RunsOnTask'
      BY <1>2, <2>1, <2>4, OneRunMoves DEF OnTask
    <2> QED
      BY <1>1, <2>4, <2>5, GraphStays DEF DoneInvariant
  <1>8. CASE Parents(j, p) # {}
    <2>1. PICK q \in Parents(j, p) :
              FailedIn(s, q, p) /\ runs' = [runs EXCEPT ![<<j, p>>] = Idle, ![<<q, p>>] = Idle]
      BY <1>b, <1>s, <1>8 DEF RbacSchemaFails
    <2>f. PICK failed : failed = [Local(q, p) EXCEPT !.status = "failed"]
      OBVIOUS
    <2>2. q \in JobIds /\ runs[<<q, p>>].at = "inline" /\ q # j
      BY <1>1 DEF Parents, At
    <2>3. /\ Sound(Local(q, p)) /\ Get(store, q) # NoJob /\ SameTask(Get(store, q), Local(q, p))
      BY <1>2, <2>2, ReadersRead DEF Reads
    <2>4. Sound(failed) /\ SameTask(failed, Get(store, q)) /\ failed.status = "failed"
      BY <2>f, <2>3, StatusIsNoTask DEF Final, SameTask
    <2>5. failed \in Job /\ failed # NoJob
      BY <2>4, InputsAssumption DEF Sound
    <2>6. store' = Save(s, q, failed)
      BY <2>f, <2>1 DEF FailedIn
    <2>7. /\ Get(store, q)' = failed /\ Get(store, j)' = begun
          /\ \A k \in JobIds \ {j, q} : Get(store, k)' = Get(store, k)
          /\ store'.kind = store.kind
          /\ DOMAIN store' = {"kind", "jobs", "index"} /\ DOMAIN store'.jobs = JobIds
      <3>1. /\ Get(store, q)' = failed /\ \A k \in JobIds \ {q} : Get(store, k)' = Get(s, k)
            /\ store'.kind = s.kind
            /\ DOMAIN store' = {"kind", "jobs", "index"} /\ DOMAIN store'.jobs = JobIds
        BY <1>6, <2>2, <2>5, <2>6, SaveIsOneRecord
      <3> QED
        BY <1>6, <2>2, <3>1
    <2>8. RecordsLast
      BY <1>4, <1>5, <2>2, <2>4, <2>5, <2>7 DEF RecordsLast, SameTask
    <2>9. Onward
      BY <1>1, <1>2, <2>7, <2>8, FaultsGrow DEF Onward, StatementsLast
    <2>10. ASSUME NEW k \in JobIds, Get(store, k)' # NoJob
           PROVE  k <= created' /\ Sound(Get(store, k)') /\ Truthful(Get(store, k))'
      <3>1. CASE k = j
        BY <1>1, <1>3, <1>4, <2>7, <3>1 DEF Truthful
      <3>2. CASE k = q
        BY <1>1, <1>2, <2>3, <2>4, <2>7, <3>2 DEF Truthful, RecordsTruthful
      <3>3. CASE k \notin {j, q}
        <4> PICK r : r = Get(store, k)
          OBVIOUS
        <4>1. Get(store, k)' = r
          BY <2>7, <3>3
        <4>2. k <= created /\ Sound(r) /\ Truthful(r)
          BY <1>2, <2>10, <4>1 DEF RecordsTruthful
        <4>3. Truthful(r)'
          BY <2>9, <4>2, TruthStays
        <4> QED
          BY <1>1, <4>1, <4>2, <4>3
      <3> QED
        BY <3>1, <3>2, <3>3
    <2>11. RecordsTruthful'
      BY <1>1, <1>2, <2>7, <2>9, <2>10 DEF RecordsTruthful, Onward
    <2>12. RunsOnTask'
      BY <1>2, <2>1, <2>9, RunsEndOrStart
    <2> QED
      BY <1>1, <2>9, <2>11, <2>12, GraphStays DEF DoneInvariant
  <1> QED
    BY <1>7, <1>8

----------------------------------------------------------------------------
(* The invariant of completed jobs. *)

\* At first nothing is claimed.
LEMMA InitiallyDone ==
  ASSUME Init
  PROVE  DoneInvariant
  <1>1. /\ DOMAIN store = {"kind", "jobs", "index"} /\ DOMAIN store.jobs = JobIds
        /\ store.kind \in {"redis", "memory"} /\ \A k \in JobIds : Get(store, k) = NoJob
    BY DEF Init, EmptyStore, Get
  <1>2. created \in Nat /\ faults \in Nat
    BY DEF Init
  <1>3. RecordsTruthful
    BY <1>1, <1>2 DEF RecordsTruthful
  <1>4. RunsOnTask /\ ActiveTakenUp
    BY DEF Init, RunsOnTask, OnTask, ActiveTakenUp
  <1>5. applied \in [Statements -> Nat] /\ \A s \in Statements : ~(applied[s] > 0)
    BY DEF Init
  <1>6. \A s \in Scripts : \A l \in 1..Len(s) : s[l] \in Statements
    BY InputsAssumption
  <1>7. AppliedInOrder
    BY <1>5, <1>6 DEF AppliedInOrder
  <1> QED
    BY <1>3, <1>4, <1>7 DEF DoneInvariant

\* Every step keeps the invariant.
LEMMA StepsKeepTheWord ==
  ASSUME DoneInvariant, [Next]_vars
  PROVE  DoneInvariant'
  <1>1. ASSUME NEW j \in JobIds, NEW p \in Processes,
               RunStep(j, p) \/ RbacSchemaFails(j, p) \/ ProcessingFails(j, p)
        PROVE  DoneInvariant'
    BY <1>1, BeginKeepsTheWord, FinishKeepsTheWord, DocumentsKeepTheWord, StatementsKeepTheWord,
       ScriptsAndScansKeepTheWord, SkippedFilesKeepTheWord, AcceptedFilesKeepTheWord,
       CorporaKeepTheWord, InlineChildrenKeepTheWord, RbacFailureKeepsTheWord DEF RunStep
  <1>2. ASSUME NEW j \in JobIds, Dispatch(j) \/ Dequeue(j) \/ WorkerDies(j) \/ Redeliver(j)
        PROVE  DoneInvariant'
    BY <1>2, ExecutionsKeepTheWord DEF Dequeue
  <1>3. CASE UNCHANGED vars
    <2>1. /\ UNCHANGED <<store, created, runs, active, applied>> /\ faults' = faults
          /\ RecordsTruthful /\ RunsOnTask
      BY <1>3 DEF vars, DoneInvariant
    <2>2. Onward /\ RecordsTruthful'
      BY <2>1, NoSaveGoesOnward DEF StatementsLast
    <2>3. RunsOnTask'
      BY <2>1, <2>2, RunsEndOrStart DEF RunsOnTask
    <2> QED
      BY <2>1, <2>2, <2>3, GraphStays DEF DoneInvariant
  <1> QED
    BY <1>1, <1>2, <1>3, SubmissionsKeepTheWord, RestartsKeepTheWord DEF Next

\* The records of the job store claim no more than what was done, and every
\* process that runs a job is on its task and has done the pieces it has passed
\* (ingestion/jobs.py), whatever restarts, redeliveries and deaths come.
THEOREM DoneInvariance == Spec => []DoneInvariant
  <1>1. Init => DoneInvariant
    BY InitiallyDone
  <1>2. DoneInvariant /\ [Next]_vars => DoneInvariant'
    BY StepsKeepTheWord
  <1> QED
    BY <1>1, <1>2, PTL DEF Spec

\* A truthful record that says completed is of a job that is done.
LEMMA TruthfulJobsAreDone ==
  ASSUME DoneInvariant, StatementsApart
  PROVE  CompletedJobsAreDone
  <1>1. RecordsTruthful /\ AppliedInOrder
    BY DEF DoneInvariant
  <1>2. ASSUME Remembers, NEW j \in StoredJobs("corpus"), Completed(j),
               NEW f \in ToSet(Get(store, j).work) \ Insane
        PROVE  \E k \in StoredJobs("unstructured") : Content[Get(store, k).work[1]] = Content[f]
    <2> PICK job : job = Get(store, j)
      OBVIOUS
    <2>1. Sound(job) /\ Truthful(job) /\ job.type = "corpus" /\ job.status = "completed"
      BY <1>1, <1>2 DEF RecordsTruthful, StoredJobs, Completed
    <2>2. job.work \in Seq(Files)
      BY <2>1, InputsAssumption DEF Sound
    <2>3. PICK m \in 1..Len(job.work) : job.work[m] = f
      BY <2>2 DEF ToSet
    <2>4. TakenUp(Content[f])
      BY <1>2, <2>1, <2>3 DEF Truthful, Fulfilled
    <2> QED
      BY <2>4 DEF TakenUp
  <1>3. CorpusCovered
    BY <1>2 DEF CorpusCovered, Remembers
  <1>4. ASSUME NEW j \in StoredJobs("cypher"), Completed(j), NEW s \in ToSet(Get(store, j).work)
        PROVE  applied[s] > 0
    <2> PICK job : job = Get(store, j)
      OBVIOUS
    <2>1. Sound(job) /\ Truthful(job) /\ job.type = "cypher" /\ job.status = "completed"
      BY <1>1, <1>4 DEF RecordsTruthful, StoredJobs, Completed
    <2>2. job.work \in Seq(Statements)
      BY <2>1, InputsAssumption DEF Sound
    <2>3. PICK m \in 1..Len(job.work) : job.work[m] = s
      BY <2>2 DEF ToSet
    <2> QED
      BY <2>1, <2>3 DEF Truthful, Fulfilled
  <1>5. ScriptsInOrder
    BY <1>1, <1>4 DEF ScriptsInOrder, AppliedInOrder
  <1> QED
    BY <1>3, <1>5 DEF CompletedJobsAreDone

\* What a client may conclude from "completed", however often RQ runs a job
\* again, whichever process dies and whoever else saves the record: all of the
\* script's statements have been applied, in their order, and no acceptable
\* file of the corpus has been left out.
THEOREM DoneMeansDone ==
  ASSUME StatementsApart
  PROVE  Spec => []CompletedJobsAreDone
  <1>1. DoneInvariant => CompletedJobsAreDone
    BY TruthfulJobsAreDone
  <1> QED
    BY <1>1, DoneInvariance, PTL
----------------------------------------------------------------------------
(* What a fold over a sequence computes, value by value. *)

\* Induction, over a set of numbers: < is well-founded, and so a set that holds
\* 0 and every successor has no least number outside it.
LEMMA NumbersAreReached ==
  ASSUME NEW T, 0 \in T, \A n \in T : n + 1 \in T
  PROVE  Nat \subseteq T
  <1>1. ASSUME Nat \ T # {} PROVE FALSE
    <2>1. PICK R : R = OpToRel(<, Nat)
      OBVIOUS
    <2>2. IsWellFoundedOn(R, Nat)
      BY <2>1, NatLessThanWellFounded
    <2>3. PICK x \in Nat \ T : \A y \in Nat \ T : ~(<<y, x>> \in R)
      BY <1>1, <2>2, WFMin
    <2>4. x # 0 /\ x - 1 \in Nat /\ x - 1 < x
      BY <2>3
    <2>5. <<x - 1, x>> \in R
      BY <2>1, <2>3, <2>4 DEF OpToRel
    <2>6. x - 1 \in T
      BY <2>3, <2>4, <2>5
    <2>7. (x - 1) + 1 \in T
      BY <2>6
    <2> QED
      BY <2>3, <2>4, <2>7
  <1> QED
    BY <1>1

\* A fold as a function on the sets of places of a sequence: the place that is
\* taken last is the greatest.
Folding(f, base, step, items, n) ==
    \A T \in SUBSET (1..n) :
        f[T] = IF T = {} THEN base ELSE step[<<f[T \ {Max(T)}], items[Max(T)]>>]

\* The greatest place, when it is known.
LEMMA Greatest ==
  ASSUME NEW n \in Nat, NEW T \in SUBSET (1..n), n \in T
  PROVE  Max(T) = n
  <1>1. n >= n /\ \A y \in T : n >= y
    OBVIOUS
  <1>2. \A x \in T : (\A y \in T : x >= y) => x = n
    OBVIOUS
  <1> QED
    BY <1>1, <1>2 DEF Max

\* Sets of places have a greatest one, by induction over their bound.
LEMMA GreatestExists ==
  ASSUME NEW n \in Nat, NEW T \in SUBSET (1..n), T # {}
  PROVE  Max(T) \in T
  <1> DEFINE N == {m \in Nat : \A U \in SUBSET (1..m) : U # {} => Max(U) \in U}
  <1>1. 0 \in N
    <2>1. \A U \in SUBSET (1..0) : U = {}
      OBVIOUS
    <2> QED
      BY <2>1
  <1>2. ASSUME NEW m \in N PROVE m + 1 \in N
    <2>1. ASSUME NEW U \in SUBSET (1..(m + 1)), U # {} PROVE Max(U) \in U
      <3>1. CASE m + 1 \in U
        BY <3>1, Greatest
      <3>2. CASE m + 1 \notin U
        <4>1. U \in SUBSET (1..m)
          BY <3>2
        <4> QED
          BY <2>1, <4>1
      <3> QED
        BY <3>1, <3>2
    <2> QED
      BY <2>1
  <1>3. Nat \subseteq N
    <2> HIDE DEF N
    <2> QED
      BY <1>1, <1>2, NumbersAreReached
  <1> QED
    BY <1>3

\* There is such a function, by induction over the length.
LEMMA FoldingExists ==
  ASSUME NEW X, NEW Y, NEW base \in Y, NEW step \in [Y \X X -> Y], NEW items \in Seq(X)
  PROVE  \E f \in [SUBSET (1..Len(items)) -> Y] : Folding(f, base, step, items, Len(items))
  <1> DEFINE N == {n \in Nat : n <= Len(items) =>
                      \E f \in [SUBSET (1..n) -> Y] : Folding(f, base, step, items, n)}
  <1>1. 0 \in N
    <2>1. \A T \in SUBSET (1..0) : T = {}
      OBVIOUS
    <2>2. PICK f : f = [T \in SUBSET (1..0) |-> base]
      OBVIOUS
    <2>3. f \in [SUBSET (1..0) -> Y] /\ Folding(f, base, step, items, 0)
      BY <2>1, <2>2 DEF Folding
    <2> QED
      BY <2>3
  <1>2. ASSUME NEW n \in N PROVE n + 1 \in N
    <2>1. n \in Nat /\ n + 1 \in Nat
      OBVIOUS
    <2>2. ASSUME n + 1 <= Len(items)
          PROVE  \E g \in [SUBSET (1..(n + 1)) -> Y] : Folding(g, base, step, items, n + 1)
      <3>1. PICK f \in [SUBSET (1..n) -> Y] : Folding(f, base, step, items, n)
        <4>1. n <= Len(items)
          BY <2>1, <2>2
        <4>2. n <= Len(items) => \E f \in [SUBSET (1..n) -> Y] : Folding(f, base, step, items, n)
          OBVIOUS
        <4> QED
          BY <4>1, <4>2
      <3>2. items[n + 1] \in X
        BY <2>1, <2>2
      <3>3. PICK g : g = [T \in SUBSET (1..(n + 1)) |->
                             IF n + 1 \in T THEN step[<<f[T \ {n + 1}], items[n + 1]>>] ELSE f[T]]
        OBVIOUS
      <3>4. ASSUME NEW T \in SUBSET (1..(n + 1)), n + 1 \in T
            PROVE  /\ Max(T) = n + 1 /\ T \ {n + 1} \in SUBSET (1..n)
                   /\ g[T \ {n + 1}] = f[T \ {n + 1}]
                   /\ g[T] = step[<<f[T \ {n + 1}], items[n + 1]>>] /\ g[T] \in Y
        <4>1. Max(T) = n + 1
          BY <2>1, <3>4, Greatest
        <4>2. T \ {n + 1} \in SUBSET (1..n) /\ T \ {n + 1} \in SUBSET (1..(n + 1))
          BY <2>1
        <4>3. n + 1 \notin T \ {n + 1}
          OBVIOUS
        <4>4. g[T \ {n + 1}] = f[T \ {n + 1}]
          BY <3>3, <4>2, <4>3
        <4>5. g[T] = step[<<f[T \ {n + 1}], items[n + 1]>>]
          BY <3>3, <3>4
        <4>6. f[T \ {n + 1}] \in Y
          BY <4>2
        <4> QED
          BY <3>2, <4>1, <4>2, <4>4, <4>5, <4>6
      <3>5. ASSUME NEW T \in SUBSET (1..(n + 1)), n + 1 \notin T
            PROVE  /\ g[T] \in Y
                   /\ g[T] = IF T = {} THEN base ELSE step[<<g[T \ {Max(T)}], items[Max(T)]>>]
        <4>1. T \in SUBSET (1..n)
          BY <2>1, <3>5
        <4>2. g[T] = f[T] /\ f[T] \in Y
          BY <3>3, <3>5, <4>1
        <4>3. f[T] = IF T = {} THEN base ELSE step[<<f[T \ {Max(T)}], items[Max(T)]>>]
          BY <3>1, <4>1 DEF Folding
        <4>4. PICK U : U = T \ {Max(T)}
          OBVIOUS
        <4>5. g[U] = f[U]
          <5>1. U \in SUBSET (1..(n + 1)) /\ n + 1 \notin U
            BY <3>5, <4>4
          <5> QED
            BY <3>3, <5>1
        <4> QED
          BY <4>2, <4>3, <4>4, <4>5
      <3>6. Folding(g, base, step, items, n + 1)
        <4>1. ASSUME NEW T \in SUBSET (1..(n + 1))
              PROVE  g[T] = IF T = {} THEN base ELSE step[<<g[T \ {Max(T)}], items[Max(T)]>>]
          <5>1. CASE n + 1 \in T
            BY <3>4, <5>1
          <5>2. CASE n + 1 \notin T
            BY <3>5, <5>2
          <5> QED
            BY <5>1, <5>2
        <4> QED
          BY <4>1 DEF Folding
      <3>7. g \in [SUBSET (1..(n + 1)) -> Y]
        <4>1. \A T \in SUBSET (1..(n + 1)) : g[T] \in Y
          BY <3>4, <3>5
        <4> QED
          BY <3>3, <4>1
      <3> QED
        BY <3>6, <3>7
    <2> QED
      BY <2>1, <2>2
  <1>3. Nat \subseteq N
    <2> HIDE DEF N
    <2> QED
      BY <1>1, <1>2, NumbersAreReached
  <1>4. PICK n \in Nat : n = Len(items)
    OBVIOUS
  <1>5. n \in N
    BY <1>3
  <1>6. n <= Len(items) => \E f \in [SUBSET (1..n) -> Y] : Folding(f, base, step, items, n)
    BY <1>5
  <1>7. \E f \in [SUBSET (1..n) -> Y] : Folding(f, base, step, items, n)
    <2> HIDE DEF N
    <2>1. n <= Len(items)
      BY <1>4
    <2> QED
      BY <1>6, <2>1, Zenon
  <1> HIDE DEF N
  <1> QED
    BY <1>4, <1>7, Zenon

\* The beginnings of a sequence are sets of places.
LEMMA Beginning ==
  ASSUME NEW n \in Nat, NEW k \in 1..n
  PROVE  /\ 1..k \in SUBSET (1..n) /\ 1..k # {}
         /\ Max(1..k) = k /\ (1..k) \ {k} = 1..(k - 1)
  <1>1. k \in Nat /\ k \in 1..k /\ 1..k \in SUBSET (1..n)
    OBVIOUS
  <1>2. Max(1..k) = k
    BY <1>1, Greatest
  <1>3. (1..k) \ {k} = 1..(k - 1)
    OBVIOUS
  <1> QED
    BY <1>1, <1>2, <1>3

\* The ids of a Redis listing, one by one.
LEMMA DistinctIsStepwise ==
  ASSUME NEW ids \in Seq(JobIds)
  PROVE  \E g : /\ Distinct(ids) = g[Len(ids)]
                /\ g[0] = <<>>
                /\ \A k \in 1..Len(ids) : g[k] = AddNew(g[k - 1], ids[k])
  <1> DEFINE n == Len(ids)
             Y == Seq(JobIds)
             step == [x \in Y \X JobIds |-> AddNew(x[1], x[2])]
             Fold(f) == f = [T \in SUBSET (1..n) |->
                               IF T = {} THEN <<>> ELSE AddNew(f[T \ {Max(T)}], ids[Max(T)])]
  <1>1. n \in Nat /\ DOMAIN ids = 1..n
    OBVIOUS
  <1>2. step \in [Y \X JobIds -> Y] /\ <<>> \in Y
    <2>1. \A y \in Y, id \in JobIds : AddNew(y, id) \in Y
      BY DEF AddNew
    <2> QED
      BY <2>1
  <1>3. Distinct(ids) = (CHOOSE f : Fold(f))[1..n]
    BY <1>1 DEF Distinct, FoldLeft, MapThenFoldSet
  <1>4. \E f : Fold(f)
    <2>1. PICK f \in [SUBSET (1..n) -> Y] : Folding(f, <<>>, step, ids, n)
      BY <1>2, FoldingExists
    <2>2. ASSUME NEW T \in SUBSET (1..n)
          PROVE  f[T] = IF T = {} THEN <<>> ELSE AddNew(f[T \ {Max(T)}], ids[Max(T)])
      <3>1. CASE T # {}
        <4>1. Max(T) \in 1..n /\ T \ {Max(T)} \in SUBSET (1..n)
          BY <1>1, <3>1, GreatestExists
        <4>2. f[T \ {Max(T)}] \in Y /\ ids[Max(T)] \in JobIds
          BY <4>1
        <4>3. f[T] = step[<<f[T \ {Max(T)}], ids[Max(T)]>>]
          BY <2>1, <3>1 DEF Folding
        <4> QED
          BY <3>1, <4>2, <4>3
      <3>2. CASE T = {}
        BY <2>1, <3>2 DEF Folding
      <3> QED
        BY <3>1, <3>2
    <2>3. Fold(f)
      BY <2>2
    <2> QED
      BY <2>3
  <1> HIDE DEF Fold
  <1>5. PICK f : f = CHOOSE h : Fold(h)
    OBVIOUS
  <1>6. Fold(f)
    BY <1>4, <1>5
  <1> USE DEF Fold
  <1>7. PICK g : g = [k \in 0..n |-> f[1..k]]
    OBVIOUS
  <1>8. g[0] = <<>>
    <2>1. g[0] = f[1..0] /\ 1..0 = {} /\ {} \in SUBSET (1..n)
      BY <1>1, <1>7
    <2> QED
      BY <1>6, <2>1
  <1>9. ASSUME NEW k \in 1..n PROVE g[k] = AddNew(g[k - 1], ids[k])
    <2>1. /\ 1..k \in SUBSET (1..n) /\ 1..k # {}
          /\ Max(1..k) = k /\ (1..k) \ {k} = 1..(k - 1)
      BY <1>1, Beginning
    <2>2. f[1..k] = AddNew(f[1..(k - 1)], ids[k])
      BY <1>6, <2>1
    <2>3. g[k] = f[1..k] /\ g[k - 1] = f[1..(k - 1)]
      BY <1>1, <1>7
    <2> QED
      BY <2>2, <2>3
  <1>10. g[n] = f[1..n]
    BY <1>1, <1>7
  <1> QED
    BY <1>3, <1>5, <1>8, <1>9, <1>10

\* The jobs of a listing, one by one.
LEMMA ListingIsStepwise ==
  ASSUME NEW s, NEW limit, NEW ids \in Seq(JobIds), ids = Reverse(ListIds(s, limit))
  PROVE  \E g : /\ Listing(s, limit) = g[Len(ids)]
                /\ g[0] = <<>>
                /\ \A k \in 1..Len(ids) :
                      g[k] = IF Get(s, ids[k]) = NoJob THEN g[k - 1] ELSE Append(g[k - 1], ids[k])
  <1> DEFINE n == Len(ids)
             Y == Seq(JobIds)
             step == [x \in Y \X JobIds |-> IF Get(s, x[2]) = NoJob THEN x[1] ELSE Append(x[1], x[2])]
             Fold(f) == f = [T \in SUBSET (1..n) |->
                               IF T = {} THEN <<>>
                               ELSE IF Get(s, ids[Max(T)]) = NoJob THEN f[T \ {Max(T)}]
                                    ELSE Append(f[T \ {Max(T)}], ids[Max(T)])]
  <1>1. n \in Nat /\ DOMAIN ids = 1..n
    OBVIOUS
  <1>2. step \in [Y \X JobIds -> Y] /\ <<>> \in Y
    OBVIOUS
  <1>3. Listing(s, limit) = (CHOOSE f : Fold(f))[1..n]
    BY <1>1 DEF Listing, FoldLeft, MapThenFoldSet
  <1>4. \E f : Fold(f)
    <2>1. PICK f \in [SUBSET (1..n) -> Y] : Folding(f, <<>>, step, ids, n)
      BY <1>2, FoldingExists
    <2>2. ASSUME NEW T \in SUBSET (1..n)
          PROVE  f[T] = IF T = {} THEN <<>>
                        ELSE IF Get(s, ids[Max(T)]) = NoJob THEN f[T \ {Max(T)}]
                             ELSE Append(f[T \ {Max(T)}], ids[Max(T)])
      <3>1. CASE T # {}
        <4>1. Max(T) \in 1..n /\ T \ {Max(T)} \in SUBSET (1..n)
          BY <1>1, <3>1, GreatestExists
        <4>2. f[T \ {Max(T)}] \in Y /\ ids[Max(T)] \in JobIds
          BY <4>1
        <4>3. f[T] = step[<<f[T \ {Max(T)}], ids[Max(T)]>>]
          BY <2>1, <3>1 DEF Folding
        <4> QED
          BY <3>1, <4>2, <4>3
      <3>2. CASE T = {}
        BY <2>1, <3>2 DEF Folding
      <3> QED
        BY <3>1, <3>2
    <2>3. Fold(f)
      BY <2>2
    <2> QED
      BY <2>3
  <1> HIDE DEF Fold
  <1>5. PICK f : f = CHOOSE h : Fold(h)
    OBVIOUS
  <1>6. Fold(f)
    BY <1>4, <1>5
  <1> USE DEF Fold
  <1>7. PICK g : g = [k \in 0..n |-> f[1..k]]
    OBVIOUS
  <1>8. g[0] = <<>>
    <2>1. g[0] = f[1..0] /\ 1..0 = {} /\ {} \in SUBSET (1..n)
      BY <1>1, <1>7
    <2> QED
      BY <1>6, <2>1
  <1>9. ASSUME NEW k \in 1..n
        PROVE  g[k] = IF Get(s, ids[k]) = NoJob THEN g[k - 1] ELSE Append(g[k - 1], ids[k])
    <2>1. /\ 1..k \in SUBSET (1..n) /\ 1..k # {}
          /\ Max(1..k) = k /\ (1..k) \ {k} = 1..(k - 1)
      BY <1>1, Beginning
    <2>2. f[1..k] = IF Get(s, ids[k]) = NoJob THEN f[1..(k - 1)] ELSE Append(f[1..(k - 1)], ids[k])
      BY <1>6, <2>1
    <2>3. g[k] = f[1..k] /\ g[k - 1] = f[1..(k - 1)]
      BY <1>1, <1>7
    <2> QED
      BY <2>2, <2>3
  <1>10. g[n] = f[1..n]
    BY <1>1, <1>7
  <1>11. Listing(s, limit) = g[Len(ids)]
    BY <1>3, <1>5, <1>10
  <1>12. \A k \in 1..Len(ids) :
            g[k] = IF Get(s, ids[k]) = NoJob THEN g[k - 1] ELSE Append(g[k - 1], ids[k])
    BY <1>9
  <1> HIDE DEF n
  <1> QED
    BY <1>8, <1>11, <1>12, Zenon

\* A fold that keeps some of the items, in their order: what holds of the items
\* it keeps, and how many those are.
Keeping(g, ids, keeps) ==
    /\ g[0] = <<>>
    /\ \A k \in 1..Len(ids) : g[k] = IF k \in keeps THEN Append(g[k - 1], ids[k]) ELSE g[k - 1]

\* The items kept are items of the sequence, taken in their order.
KeptItems(y, ids, m) ==
    y \in Seq(JobIds) /\ \A a \in 1..Len(y) : \E i \in 1..m : y[a] = ids[i]

LEMMA KeptAreItems ==
  ASSUME NEW ids \in Seq(JobIds), NEW g, NEW keeps, Keeping(g, ids, keeps),
         NEW k \in 0..Len(ids)
  PROVE  KeptItems(g[k], ids, k)
  <1> DEFINE T == {m \in Nat : m <= Len(ids) => KeptItems(g[m], ids, m)}
  <1>0. Len(ids) \in Nat
    OBVIOUS
  <1>1. 0 \in T
    <2>1. KeptItems(g[0], ids, 0)
      BY DEF Keeping, KeptItems
    <2> QED
      BY <2>1
  <1>2. ASSUME NEW m \in T PROVE m + 1 \in T
    <2>1. m \in Nat /\ (m <= Len(ids) => KeptItems(g[m], ids, m))
      OBVIOUS
    <2>2. ASSUME m + 1 <= Len(ids) PROVE KeptItems(g[m + 1], ids, m + 1)
      <3>1. m + 1 \in 1..Len(ids) /\ m <= Len(ids)
        BY <1>0, <2>1, <2>2
      <3>2. ids[m + 1] \in JobIds
        BY <3>1
      <3>3. g[m + 1] = IF m + 1 \in keeps THEN Append(g[m], ids[m + 1]) ELSE g[m]
        <4>1. (m + 1) - 1 = m
          BY <2>1
        <4> QED
          BY <3>1, <4>1 DEF Keeping
      <3>4. PICK y : y = g[m]
        OBVIOUS
      <3>5. KeptItems(y, ids, m)
        BY <2>1, <3>1, <3>4
      <3>6. KeptItems(y, ids, m + 1)
        BY <2>1, <3>5 DEF KeptItems
      <3>7. KeptItems(Append(y, ids[m + 1]), ids, m + 1)
        <4>1. /\ Append(y, ids[m + 1]) \in Seq(JobIds) /\ Len(y) \in Nat
              /\ Len(Append(y, ids[m + 1])) = Len(y) + 1
              /\ \A a \in 1..Len(y) : Append(y, ids[m + 1])[a] = y[a]
              /\ Append(y, ids[m + 1])[Len(y) + 1] = ids[m + 1]
          BY <3>2, <3>5 DEF KeptItems
        <4>2. m + 1 \in 1..(m + 1)
          BY <2>1
        <4> QED
          BY <3>6, <4>1, <4>2 DEF KeptItems
      <3> QED
        BY <3>3, <3>4, <3>6, <3>7
    <2> QED
      BY <2>1, <2>2
  <1>3. Nat \subseteq T
    <2> HIDE DEF T
    <2> QED
      BY <1>1, <1>2, NumbersAreReached
  <1> QED
    BY <1>0, <1>3

\* When all are kept, the result is the sequence itself.
LEMMA AllAreKept ==
  ASSUME NEW ids \in Seq(JobIds), NEW g, NEW keeps, Keeping(g, ids, keeps),
         \A k \in 1..Len(ids) : k \in keeps
  PROVE  g[Len(ids)] = ids
  <1> DEFINE Same(m) == /\ g[m] \in Seq(JobIds) /\ Len(g[m]) = m
                        /\ \A a \in 1..m : g[m][a] = ids[a]
             T == {m \in Nat : m <= Len(ids) => Same(m)}
  <1>0. Len(ids) \in Nat
    OBVIOUS
  <1>1. 0 \in T
    <2>1. Same(0)
      BY DEF Keeping
    <2> QED
      BY <2>1
  <1>2. ASSUME NEW m \in T PROVE m + 1 \in T
    <2>1. m \in Nat /\ (m <= Len(ids) => Same(m))
      OBVIOUS
    <2>2. ASSUME m + 1 <= Len(ids) PROVE Same(m + 1)
      <3>1. m + 1 \in 1..Len(ids) /\ m <= Len(ids)
        BY <1>0, <2>1, <2>2
      <3>2. ids[m + 1] \in JobIds
        BY <3>1
      <3>3. g[m + 1] = Append(g[m], ids[m + 1])
        <4>1. (m + 1) - 1 = m
          BY <2>1
        <4> QED
          BY <3>1, <4>1 DEF Keeping
      <3>4. PICK y : y = g[m]
        OBVIOUS
      <3>5. y \in Seq(JobIds) /\ Len(y) = m /\ \A a \in 1..m : y[a] = ids[a]
        BY <2>1, <3>1, <3>4
      <3>6. /\ Append(y, ids[m + 1]) \in Seq(JobIds)
            /\ Len(Append(y, ids[m + 1])) = m + 1
            /\ \A a \in 1..(m + 1) : Append(y, ids[m + 1])[a] = ids[a]
        BY <2>1, <3>2, <3>5
      <3> QED
        BY <3>3, <3>4, <3>6
    <2> HIDE DEF Same
    <2> QED
      BY <2>1, <2>2
  <1>3. Nat \subseteq T
    <2> HIDE DEF T
    <2> QED
      BY <1>1, <1>2, NumbersAreReached
  <1>4. Same(Len(ids))
    <2> HIDE DEF Same
    <2> QED
      BY <1>0, <1>3
  <1> QED
    BY <1>0, <1>4

\* When no item is kept that is there already, none is there twice.
LEMMA KeptApart ==
  ASSUME NEW ids \in Seq(JobIds), NEW g, NEW keeps, Keeping(g, ids, keeps),
         \A k \in 1..Len(ids) : k \in keeps => ~Contains(g[k - 1], ids[k])
  PROVE  IsInjective(g[Len(ids)])
  <1> DEFINE T == {m \in Nat : m <= Len(ids) => IsInjective(g[m])}
  <1>0. Len(ids) \in Nat
    OBVIOUS
  <1>1. 0 \in T
    <2>1. IsInjective(g[0])
      BY DEF Keeping, IsInjective
    <2> QED
      BY <2>1
  <1>2. ASSUME NEW m \in T PROVE m + 1 \in T
    <2>1. m \in Nat /\ (m <= Len(ids) => IsInjective(g[m]))
      OBVIOUS
    <2>2. ASSUME m + 1 <= Len(ids) PROVE IsInjective(g[m + 1])
      <3>1. m + 1 \in 1..Len(ids) /\ m \in 0..Len(ids)
        BY <1>0, <2>1, <2>2
      <3>2. ids[m + 1] \in JobIds
        BY <3>1
      <3>3. /\ g[m + 1] = IF m + 1 \in keeps THEN Append(g[m], ids[m + 1]) ELSE g[m]
            /\ m + 1 \in keeps => ~Contains(g[m], ids[m + 1])
        <4>1. (m + 1) - 1 = m
          BY <2>1
        <4> QED
          BY <3>1, <4>1 DEF Keeping
      <3>4. PICK y : y = g[m]
        OBVIOUS
      <3>5. y \in Seq(JobIds) /\ IsInjective(y)
        BY <2>1, <3>1, <3>4, KeptAreItems DEF KeptItems
      <3>6. ASSUME ~Contains(y, ids[m + 1]) PROVE IsInjective(Append(y, ids[m + 1]))
        BY <3>2, <3>5, <3>6 DEF IsInjective, Contains
      <3> QED
        BY <3>3, <3>4, <3>5, <3>6
    <2> QED
      BY <2>1, <2>2
  <1>3. Nat \subseteq T
    <2> HIDE DEF T
    <2> QED
      BY <1>1, <1>2, NumbersAreReached
  <1> QED
    BY <1>0, <1>3

----------------------------------------------------------------------------
(* The listings. *)

\* The index of a store: in memory, the ids of the records there are, in the
\* order in which ids are given.
Indexed(s) ==
    /\ s.index \in Seq(JobIds)
    /\ s.kind # "redis" =>
        /\ \A a, b \in 1..Len(s.index) : a < b => s.index[a] < s.index[b]
        /\ \A k \in JobIds : Get(s, k) # NoJob <=> Contains(s.index, k)

\* A sequence the other way round.
LEMMA Reversed ==
  ASSUME NEW ids \in Seq(JobIds)
  PROVE  /\ Reverse(ids) \in Seq(JobIds) /\ Len(Reverse(ids)) = Len(ids)
         /\ \A a \in 1..Len(ids) : Reverse(ids)[a] = ids[Len(ids) - a + 1]
         /\ IsInjective(ids) => IsInjective(Reverse(ids))
  <1>1. PICK n \in Nat : n = Len(ids)
    OBVIOUS
  <1>2. PICK r : r = [a \in 1..n |-> ids[(n - a) + 1]]
    OBVIOUS
  <1>3. \A a \in 1..n : r[a] = ids[(n - a) + 1] /\ (n - a) + 1 \in 1..n
    BY <1>2
  <1>4. r \in Seq(JobIds) /\ Len(r) = n
    BY <1>1, <1>2, <1>3
  <1>5. r = Reverse(ids)
    BY <1>1, <1>2 DEF Reverse
  <1>6. ASSUME IsInjective(ids) PROVE IsInjective(r)
    <2>1. ASSUME NEW a \in 1..n, NEW b \in 1..n, r[a] = r[b] PROVE a = b
      <3>1. (n - a) + 1 \in DOMAIN ids /\ (n - b) + 1 \in DOMAIN ids
        BY <1>1, <1>3
      <3>2. (n - a) + 1 = (n - b) + 1
        BY <1>3, <1>6, <2>1, <3>1 DEF IsInjective
      <3> QED
        BY <3>2
    <2>2. DOMAIN r = 1..n
      BY <1>2
    <2> QED
      BY <2>1, <2>2 DEF IsInjective
  <1> QED
    BY <1>1, <1>3, <1>4, <1>5, <1>6

\* The end of the index of a memory store.
LEMMA EndOfIndex ==
  ASSUME NEW s, s.index \in Seq(JobIds), NEW limit \in Nat,
         NEW n, n = Len(s.index), NEW m, m = AtMost(limit, n)
  PROVE  /\ InMemoryListIds(s, limit) \in Seq(JobIds) /\ Len(InMemoryListIds(s, limit)) = m
         /\ \A a \in 1..m : InMemoryListIds(s, limit)[a] = s.index[n - m + a]
         /\ n \in Nat /\ m \in Nat /\ m <= n
  <1>0. n \in Nat
    OBVIOUS
  <1>1. n \in Nat /\ m \in Nat /\ m <= n
    BY <1>0 DEF AtMost
  <1>2. PICK q : q = SubSeq(s.index, 1 + n - m, n)
    OBVIOUS
  <1>3. q \in Seq(JobIds) /\ Len(q) = m /\ \A a \in 1..m : q[a] = s.index[n - m + a]
    <2>1. 1 + n - m \in Nat /\ n <= Len(s.index) /\ 1 <= 1 + n - m
      BY <1>1
    <2>2. PICK i \in Nat : i = 1 + n - m
      BY <2>1
    <2>3. q = SubSeq(s.index, i, n)
      BY <1>2, <2>2
    <2>4. q \in Seq(JobIds) /\ Len(q) = IF i <= n THEN n - i + 1 ELSE 0
      BY <1>1, <2>1, <2>2, <2>3
    <2>5. ASSUME NEW a \in 1..(n - i + 1) PROVE q[a] = s.index[i + a - 1]
      <3>1. i \in Int /\ n \in Int /\ \A b \in i..n : s.index[b] \in JobIds
        BY <1>1, <2>1, <2>2, SMTT(60)
      <3> QED
        BY <2>3, <3>1, SubSeqProperties
    <2>6. m = n - i + 1 /\ Len(q) = m
      <3>1. m = n - i + 1 /\ (i <= n \/ m = 0)
        BY <1>1, <2>2
      <3> QED
        BY <2>4, <3>1
    <2>7. ASSUME NEW a \in 1..m PROVE q[a] = s.index[n - m + a]
      <3>1. q[a] = s.index[i + a - 1]
        BY <2>5, <2>6
      <3>2. i + a - 1 = n - m + a
        BY <1>1, <2>2
      <3> QED
        BY <3>1, <3>2
    <2> QED
      BY <2>4, <2>6, <2>7
  <1>4. q = InMemoryListIds(s, limit)
    BY <1>2 DEF InMemoryListIds
  <1> QED
    BY <1>1, <1>3, <1>4

\* No id is twice in what the store lists: in memory, because the ids of the
\* index increase; with Redis, because repetitions are left out.
LEMMA IdsAreApart ==
  ASSUME NEW s, Indexed(s), NEW limit \in Nat
  PROVE  ListIds(s, limit) \in Seq(JobIds) /\ IsInjective(ListIds(s, limit))
  <1>a. PICK n, m : n = Len(s.index) /\ m = AtMost(limit, n)
    OBVIOUS
  <1>b. s.index \in Seq(JobIds) /\ n \in Nat
    BY <1>a DEF Indexed
  <1>0. s.index \in Seq(JobIds) /\ n = Len(s.index) /\ n \in Nat /\ m \in Nat /\ m <= n
    BY <1>a, <1>b DEF AtMost
  <1>1. CASE s.kind = "redis"
    <2>1. PICK p : p = SubSeq(s.index, 1, m)
      OBVIOUS
    <2>2. p \in Seq(JobIds)
      BY <1>0, <2>1
    <2>3. PICK g : /\ Distinct(p) = g[Len(p)] /\ g[0] = <<>>
                   /\ \A k \in 1..Len(p) : g[k] = AddNew(g[k - 1], p[k])
      BY <2>2, DistinctIsStepwise
    <2>4. PICK keeps : keeps = {k \in 1..Len(p) : ~Contains(g[k - 1], p[k])}
      OBVIOUS
    <2>5. Keeping(g, p, keeps)
      BY <2>3, <2>4 DEF Keeping, AddNew
    <2>6. g[Len(p)] \in Seq(JobIds)
      <3>1. Len(p) \in 0..Len(p)
        BY <2>2
      <3> QED
        BY <2>2, <2>5, <3>1, KeptAreItems DEF KeptItems
    <2>7. IsInjective(g[Len(p)])
      BY <2>2, <2>4, <2>5, KeptApart
    <2> QED
      BY <1>a, <1>1, <2>1, <2>3, <2>6, <2>7 DEF ListIds, RedisListIds
  <1>2. CASE s.kind # "redis"
    <2>1. PICK q : q = InMemoryListIds(s, limit)
      OBVIOUS
    <2>2. q \in Seq(JobIds) /\ Len(q) = m /\ \A a \in 1..m : q[a] = s.index[n - m + a]
      <3>1. /\ InMemoryListIds(s, limit) \in Seq(JobIds) /\ Len(InMemoryListIds(s, limit)) = m
            /\ \A a \in 1..m : InMemoryListIds(s, limit)[a] = s.index[n - m + a]
        BY <1>a, <1>b, EndOfIndex
      <3> QED
        BY <2>1, <3>1
    <2>3. \A a, b \in 1..n : a < b => s.index[a] < s.index[b]
      BY <1>0, <1>2 DEF Indexed
    <2>4. ASSUME NEW a \in 1..m, NEW b \in 1..m, q[a] = q[b] PROVE a = b
      <3>1. n - m + a \in 1..n /\ n - m + b \in 1..n
        BY <1>0
      <3>2. PICK c \in 1..n, d \in 1..n : c = n - m + a /\ d = n - m + b
        BY <3>1
      <3>3. s.index[c] = s.index[d] /\ s.index[c] \in Nat
        <4>1. s.index[c] \in JobIds
          BY <1>0
        <4> QED
          BY <2>2, <2>4, <3>2, <4>1, IdsAreNumbers
      <3>4. ~(c < d) /\ ~(d < c)
        BY <2>3, <3>3
      <3> QED
        BY <1>0, <3>2, <3>4
    <2>5. IsInjective(q)
      BY <2>2, <2>4 DEF IsInjective
    <2> QED
      BY <1>2, <2>1, <2>2, <2>5 DEF ListIds
  <1> QED
    BY <1>1, <1>2

\* A job is never listed twice.
LEMMA ListingIsApart ==
  ASSUME NEW s, Indexed(s), NEW limit \in Nat
  PROVE  IsInjective(Listing(s, limit))
  <1>1. PICK ids : ids = Reverse(ListIds(s, limit))
    OBVIOUS
  <1>2. ids \in Seq(JobIds) /\ IsInjective(ids)
    BY <1>1, IdsAreApart, Reversed
  <1>3. PICK g : /\ Listing(s, limit) = g[Len(ids)] /\ g[0] = <<>>
                 /\ \A k \in 1..Len(ids) :
                      g[k] = IF Get(s, ids[k]) = NoJob THEN g[k - 1] ELSE Append(g[k - 1], ids[k])
    BY <1>1, <1>2, ListingIsStepwise
  <1>4. PICK keeps : keeps = {k \in 1..Len(ids) : Get(s, ids[k]) # NoJob}
    OBVIOUS
  <1>5. Keeping(g, ids, keeps)
    BY <1>3, <1>4 DEF Keeping
  <1>6. ASSUME NEW k \in 1..Len(ids), Contains(g[k - 1], ids[k]) PROVE FALSE
    <2>1. k - 1 \in 0..Len(ids) /\ Len(ids) \in Nat
      BY <1>2
    <2>2. PICK y : y = g[k - 1]
      OBVIOUS
    <2>3. \A a \in 1..Len(y) : \E i \in 1..(k - 1) : y[a] = ids[i]
      BY <1>2, <1>5, <2>1, <2>2, KeptAreItems DEF KeptItems
    <2>4. PICK i \in 1..(k - 1) : ids[i] = ids[k]
      BY <1>6, <2>2, <2>3 DEF Contains
    <2>5. i \in 1..Len(ids) /\ i # k
      BY <2>1
    <2> QED
      BY <1>2, <2>4, <2>5 DEF IsInjective
  <1> QED
    BY <1>2, <1>3, <1>5, <1>6, KeptApart

\* With the memory store, the listing is the end of the index the other way
\* round: every id of the index has a record.
LEMMA ListingIsEndOfIndex ==
  ASSUME NEW s, Indexed(s), s.kind # "redis", NEW limit \in Nat,
         NEW n, n = Len(s.index), NEW m, m = AtMost(limit, n)
  PROVE  /\ Listing(s, limit) \in Seq(JobIds) /\ Len(Listing(s, limit)) = m
         /\ \A a \in 1..m : Listing(s, limit)[a] = s.index[n - a + 1]
         /\ n \in Nat /\ m \in Nat /\ m <= n
  <1>1. s.index \in Seq(JobIds)
    BY DEF Indexed
  <1>2. PICK q : q = InMemoryListIds(s, limit)
    OBVIOUS
  <1>3. /\ q \in Seq(JobIds) /\ Len(q) = m /\ \A a \in 1..m : q[a] = s.index[n - m + a]
        /\ n \in Nat /\ m \in Nat /\ m <= n
    BY <1>1, <1>2, EndOfIndex
  <1>4. q = ListIds(s, limit)
    BY <1>2 DEF ListIds
  <1>5. PICK ids : ids = Reverse(q)
    OBVIOUS
  <1>6. ids \in Seq(JobIds) /\ Len(ids) = m /\ \A a \in 1..m : ids[a] = q[m - a + 1]
    BY <1>3, <1>5, Reversed
  <1>7. ASSUME NEW a \in 1..m PROVE ids[a] = s.index[n - a + 1]
    <2>1. PICK b \in 1..m : b = m - a + 1
      BY <1>3
    <2>2. ids[a] = q[b] /\ q[b] = s.index[n - m + b]
      BY <1>3, <1>6, <2>1
    <2>3. n - m + b = n - a + 1
      BY <1>3, <2>1
    <2> QED
      BY <2>2, <2>3
  <1>8. PICK g : /\ Listing(s, limit) = g[Len(ids)] /\ g[0] = <<>>
                 /\ \A k \in 1..Len(ids) :
                      g[k] = IF Get(s, ids[k]) = NoJob THEN g[k - 1] ELSE Append(g[k - 1], ids[k])
    BY <1>4, <1>5, <1>6, ListingIsStepwise
  <1>9. PICK keeps : keeps = {k \in 1..Len(ids) : Get(s, ids[k]) # NoJob}
    OBVIOUS
  <1>10. Keeping(g, ids, keeps)
    BY <1>8, <1>9 DEF Keeping
  <1>11. ASSUME NEW k \in 1..Len(ids) PROVE k \in keeps
    <2>0. k \in 1..m /\ n \in Nat /\ m \in Nat /\ m <= n
      BY <1>3, <1>6
    <2>1. PICK c \in 1..n : c = n - k + 1
      <3>1. n - k + 1 \in 1..n
        BY ONLY <2>0
      <3> QED
        BY ONLY <3>1
    <2>2. ids[k] = s.index[c] /\ ids[k] \in JobIds
      BY <1>6, <1>7, <2>0, <2>1
    <2>3. Contains(s.index, ids[k])
      BY <2>2 DEF Contains
    <2>4. Get(s, ids[k]) # NoJob
      BY <2>2, <2>3 DEF Indexed
    <2> QED
      BY <1>9, <2>4
  <1>12. g[Len(ids)] = ids
    BY <1>6, <1>10, <1>11, AllAreKept
  <1>13. Listing(s, limit) = ids
    BY <1>8, <1>12
  <1> QED
    BY <1>3, <1>6, <1>7, <1>13

\* The listing of a memory store is in the order of creation, and a job that is
\* not on a full page is older than those that are.
LEMMA ListingIsNewest ==
  ASSUME Indexed(store), store.kind # "redis", NEW limit \in Nat
  PROVE  NewestFirst(limit)
  <1>1. PICK n, m : n = Len(store.index) /\ m = AtMost(limit, n)
    OBVIOUS
  <1>2. PICK x : x = Listing(store, limit)
    OBVIOUS
  <1>3. /\ x \in Seq(JobIds) /\ Len(x) = m
        /\ \A a \in 1..m : x[a] = store.index[n - a + 1]
        /\ n \in Nat /\ m \in Nat /\ m <= n
    BY <1>1, <1>2, ListingIsEndOfIndex
  <1>4. /\ store.index \in Seq(JobIds)
        /\ \A a, b \in 1..n : a < b => store.index[a] < store.index[b]
        /\ \A k \in JobIds : Get(store, k) # NoJob => \E c \in 1..n : store.index[c] = k
    BY <1>1 DEF Indexed, Contains
  <1>5. ASSUME NEW a \in 1..m, NEW b \in 1..m, a < b PROVE x[a] > x[b]
    <2>1. PICK c \in 1..n, d \in 1..n : c = n - a + 1 /\ d = n - b + 1 /\ d < c
      BY <1>3, <1>5
    <2>2. store.index[d] < store.index[c]
      BY <1>4, <2>1
    <2>3. store.index[c] \in Nat /\ store.index[d] \in Nat
      <3>1. store.index[c] \in JobIds /\ store.index[d] \in JobIds
        BY <1>1, <1>4, <2>1
      <3> QED
        BY <3>1, IdsAreNumbers
    <2>4. x[a] = store.index[c] /\ x[b] = store.index[d]
      BY <1>3, <2>1
    <2> QED
      BY <2>2, <2>3, <2>4
  <1>6. ASSUME NEW j \in JobIds, Get(store, j) # NoJob, ~Contains(x, j)
        PROVE  m = limit /\ \A a \in 1..m : x[a] > j
    <2>1. PICK c \in 1..n : store.index[c] = j
      BY <1>4, <1>6
    <2>2. ASSUME c > n - m PROVE FALSE
      <3>1. PICK a \in 1..m : a = n - c + 1
        BY <1>3, <2>2
      <3>2. n - a + 1 = c
        BY <1>3, <3>1
      <3>3. x[a] = j
        BY <1>3, <2>1, <3>1, <3>2
      <3> QED
        BY <1>3, <1>6, <3>3 DEF Contains
    <2>3. c <= n - m /\ m < n
      BY <1>3, <2>2
    <2>4. m = limit
      BY <1>1, <2>3 DEF AtMost
    <2>5. ASSUME NEW a \in 1..m PROVE x[a] > j
      <3>1. PICK d \in 1..n : d = n - a + 1 /\ c < d
        BY <1>3, <2>3
      <3>2. store.index[c] < store.index[d]
        BY <1>4, <3>1
      <3>3. store.index[d] \in Nat /\ j \in Nat
        <4>1. store.index[d] \in JobIds
          BY <1>1, <1>4, <3>1
        <4> QED
          BY <4>1, IdsAreNumbers
      <3>4. x[a] = store.index[d]
        BY <1>3, <3>1
      <3> QED
        BY <2>1, <3>2, <3>3, <3>4
    <2> QED
      BY <2>4, <2>5
  <1> QED
    BY <1>2, <1>3, <1>5, <1>6 DEF NewestFirst

\* A record is saved under an id that has one, or under a later id than all
\* that have.
SavedOnto(s, t) ==
    \E id \in JobIds, job \in Job :
        /\ t = Save(s, id, job)
        /\ Get(s, id) # NoJob \/ \A k \in JobIds : Get(s, k) # NoJob => k < id

\* Saving keeps the index.
LEMMA SaveIsIndexed ==
  ASSUME NEW s, DOMAIN s = {"kind", "jobs", "index"}, DOMAIN s.jobs = JobIds, Indexed(s),
         NEW t, SavedOnto(s, t)
  PROVE  Indexed(t)
  <1>1. PICK id \in JobIds, job \in Job :
            /\ t = Save(s, id, job)
            /\ Get(s, id) # NoJob \/ \A k \in JobIds : Get(s, k) # NoJob => k < id
    BY DEF SavedOnto
  <1>2. /\ Get(t, id) = job /\ \A k \in JobIds \ {id} : Get(t, k) = Get(s, k)
        /\ t.kind = s.kind /\ job # NoJob
    BY <1>1, SaveIsOneRecord, InputsAssumption
  <1>3. s.index \in Seq(JobIds)
    BY DEF Indexed
  <1>4. CASE s.kind = "redis"
    <2>1. PICK y, m : y = <<id>> \o s.index /\ m = AtMost(IndexMax, Len(s.index) + 1)
      OBVIOUS
    <2>2. y \in Seq(JobIds) /\ Len(y) = Len(s.index) + 1 /\ m \in Nat /\ m <= Len(y)
      BY <1>3, <2>1, IndexMaxAssumption DEF AtMost
    <2>3. t.index = SubSeq(y, 1, m)
      BY <1>1, <1>4, <2>1 DEF Save, RedisSave
    <2>4. t.index \in Seq(JobIds)
      BY <2>2, <2>3
    <2> QED
      BY <1>2, <1>4, <2>4 DEF Indexed
  <1>5. CASE s.kind # "redis"
    <2> PICK x : x = s.index
      OBVIOUS
    <2>1. t.index = IF Contains(x, id) THEN x ELSE Append(x, id)
      BY <1>1, <1>5 DEF Save, InMemorySave
    <2>2. /\ x \in Seq(JobIds) /\ \A a, b \in 1..Len(x) : a < b => x[a] < x[b]
          /\ \A k \in JobIds : Get(s, k) # NoJob <=> Contains(x, k)
      BY <1>5 DEF Indexed
    <2>3. CASE Contains(x, id)
      <3>1. \A k \in JobIds : Get(t, k) # NoJob <=> Contains(x, k)
        BY <1>2, <2>2, <2>3
      <3> QED
        BY <1>2, <1>5, <2>1, <2>2, <2>3, <3>1 DEF Indexed
    <2>4. CASE ~Contains(x, id)
      <3> PICK y : y = Append(x, id)
        OBVIOUS
      <3>1. /\ y \in Seq(JobIds) /\ Len(y) = Len(x) + 1 /\ Len(x) \in Nat
            /\ \A a \in 1..Len(x) : y[a] = x[a] /\ y[Len(x) + 1] = id
        BY <2>2
      <3>2. y[Len(x) + 1] = id
        BY <2>2
      <3>3. \A a \in 1..Len(x) : x[a] < id
        <4>1. ASSUME NEW a \in 1..Len(x) PROVE x[a] < id
          <5>1. x[a] \in JobIds /\ Contains(x, x[a])
            BY <2>2 DEF Contains
          <5>2. Get(s, x[a]) # NoJob /\ Get(s, id) = NoJob
            BY <2>2, <2>4, <5>1
          <5> QED
            BY <1>1, <5>1, <5>2
        <4> QED
          BY <4>1
      <3>4. ASSUME NEW a \in 1..Len(y), NEW b \in 1..Len(y), a < b PROVE y[a] < y[b]
        <4>1. a \in 1..Len(x) /\ y[a] = x[a]
          BY <3>1, <3>4
        <4>2. CASE b = Len(x) + 1
          BY <3>2, <3>3, <4>1, <4>2
        <4>3. CASE b \in 1..Len(x)
          BY <2>2, <3>1, <3>4, <4>1, <4>3
        <4> QED
          BY <3>1, <4>2, <4>3
      <3>5. ASSUME NEW k \in JobIds PROVE Get(t, k) # NoJob <=> Contains(y, k)
        <4>1. Contains(y, k) <=> Contains(x, k) \/ k = id
          BY <3>1, <3>2 DEF Contains
        <4> QED
          BY <1>2, <2>2, <4>1
      <3>6. t.index = y
        BY <2>1, <2>4
      <3> QED
        BY <1>2, <3>1, <3>4, <3>5, <3>6 DEF Indexed
    <2> QED
      BY <2>3, <2>4
  <1> QED
    BY <1>4, <1>5

\* What a step makes of the job store: nothing, an empty one, or a save or two.
StoreMoves ==
    \/ store' = store
    \/ store' = EmptyStore("memory")
    \/ SavedOnto(store, store')
    \/ \E s : SavedOnto(store, s) /\ SavedOnto(s, store')

\* An empty store has an empty index.
LEMMA EmptyIsIndexed ==
  ASSUME NEW kind
  PROVE  Indexed(EmptyStore(kind))
  <1>1. EmptyStore(kind).index = <<>> /\ \A k \in JobIds : Get(EmptyStore(kind), k) = NoJob
    BY DEF EmptyStore, Get
  <1> QED
    BY <1>1 DEF Indexed, Contains

\* Whatever becomes of the store, its index stays one.
LEMMA MovesAreIndexed ==
  ASSUME RecordsTruthful, Indexed(store), StoreMoves
  PROVE  Indexed(store')
  <1>1. DOMAIN store = {"kind", "jobs", "index"} /\ DOMAIN store.jobs = JobIds
    BY DEF RecordsTruthful
  <1>2. ASSUME NEW s, SavedOnto(store, s)
        PROVE  Indexed(s) /\ DOMAIN s = {"kind", "jobs", "index"} /\ DOMAIN s.jobs = JobIds
    <2>1. \E id \in JobIds, job \in Job : s = Save(store, id, job)
      BY <1>2 DEF SavedOnto
    <2>2. DOMAIN s = {"kind", "jobs", "index"} /\ DOMAIN s.jobs = JobIds
      BY <1>1, <2>1, SaveIsOneRecord
    <2> QED
      BY <1>1, <1>2, <2>2, SaveIsIndexed
  <1>3. ASSUME NEW s, SavedOnto(store, s), SavedOnto(s, store') PROVE Indexed(store')
    BY <1>2, <1>3, SaveIsIndexed
  <1> QED
    BY <1>2, <1>3, EmptyIsIndexed DEF StoreMoves

\* A record that an execution saves is that of its job, in another status.
LEMMA CopiesAreSaved ==
  ASSUME DoneInvariant, NEW j \in JobIds, NEW p \in Processes,
         runs[<<j, p>>].at \notin {"idle", "start"},
         NEW status \in {"queued", "validating"} \cup Final,
         NEW s, \A k \in JobIds : Get(store, k) # NoJob => Get(s, k) # NoJob
  PROVE  /\ SavedOnto(s, Save(s, j, [Local(j, p) EXCEPT !.status = status]))
         /\ SavedOnto(s, Save(s, j, Local(j, p)))
  <1>1. Sound(Local(j, p)) /\ Get(s, j) # NoJob
    BY ReadersRead DEF DoneInvariant, Reads
  <1>2. Local(j, p) \in Job /\ [Local(j, p) EXCEPT !.status = status] \in Job
    BY <1>1, StatusIsNoTask DEF Sound
  <1> QED
    BY <1>1, <1>2 DEF SavedOnto

\* A new job is saved under a new id.
LEMMA NewJobsAreSaved ==
  ASSUME DoneInvariant, FreshId \in JobIds, NEW job \in Job
  PROVE  SavedOnto(store, Save(store, FreshId, job))
  <1>1. \A k \in JobIds : Get(store, k) # NoJob => k < FreshId
    BY IdsAreNumbers DEF DoneInvariant, RecordsTruthful, FreshId
  <1> QED
    BY <1>1 DEF SavedOnto

\* What an execution of run_job does to the store.
LEMMA RunsMoveTheStore ==
  ASSUME DoneInvariant, NEW j \in JobIds, NEW p \in Processes,
         RunStep(j, p) \/ ProcessingFails(j, p)
  PROVE  StoreMoves
  <1>1. RecordsTruthful
    BY DEF DoneInvariant
  <1>2. CASE BeginJob(j, p)
    <2>1. PICK job : job = [Get(store, j) EXCEPT !.status = "validating"]
      OBVIOUS
    <2>2. Get(store, j) # NoJob /\ store' = Save(store, j, job)
      BY <1>2, <2>1 DEF BeginJob
    <2>3. Sound(Get(store, j))
      BY <1>1, <2>2 DEF RecordsTruthful
    <2>4. job \in Job
      BY <2>1, <2>3, StatusIsNoTask DEF Sound
    <2> QED
      BY <2>2, <2>4 DEF StoreMoves, SavedOnto
  <1>3. CASE AcceptFile(j, p)
    <2>1. PICK job : job = NewJob("unstructured", <<"source", Candidate(j, p)>>,
                                  <<Candidate(j, p)>>, FALSE)
      OBVIOUS
    <2>2. FreshId \in JobIds /\ store' = Save(store, FreshId, job)
      BY <1>3, <2>1 DEF AcceptFile
    <2>3. PICK f : f = Candidate(j, p)
      OBVIOUS
    <2>4. f \in CorpusFiles /\ f \in Files
      <3>1. /\ runs[<<j, p>>].at = "file" /\ runs[<<j, p>>].at \notin {"idle", "start"}
            /\ runs[<<j, p>>].i \in 1..Len(Local(j, p).work)
        BY <1>3 DEF AcceptFile, AtFile, At
      <3>2. Sound(Local(j, p)) /\ Local(j, p).type = "corpus"
        BY <3>1, RunsHaveFields
      <3> QED
        BY <2>3, <3>1, <3>2, WorkIsInPieces DEF Candidate
    <2>5. <<"source", f>> \in SourcePaths
      BY <2>4 DEF SourcePaths
    <2>6. job \in Job
      <3>1. Sound(NewJob("unstructured", <<"source", f>>, <<f>>, FALSE))
        BY <2>4, <2>5, NewJobsAreSound
      <3> QED
        BY <2>1, <2>3, <3>1 DEF Sound
    <2> QED
      BY <2>2, <2>6, NewJobsAreSaved DEF StoreMoves
  <1>4. CASE /\ runs[<<j, p>>].at \notin {"idle", "start"}
             /\ \/ store' = store
                \/ store' = Save(store, j, Local(j, p))
                \/ \E status \in Final :
                      store' = Save(store, j, [Local(j, p) EXCEPT !.status = status])
    BY <1>4, CopiesAreSaved DEF StoreMoves
  <1>5. FinishJob(j, p) \/ JobFails(j, p) =>
            \E status \in Final : store' = Save(store, j, [Local(j, p) EXCEPT !.status = status])
    BY DEF FinishJob, JobFails, FailedIn, Final
  <1>6. CASE FinishJob(j, p) \/ ProcessingFails(j, p)
    BY <1>4, <1>5, <1>6 DEF FinishJob, ProcessingFails, At
  <1>7. CASE ProcessUnstructured(j, p) \/ EndScript(j, p) \/ ScanCorpus(j, p)
    BY <1>4, <1>5, <1>7 DEF ProcessUnstructured, EndScript, ScanCorpus, At
  <1>8. CASE RunStatement(j, p) \/ SkipFile(j, p) \/ RunChildInline(j, p)
    BY <1>8 DEF RunStatement, SkipFile, RunChildInline, StoreMoves
  <1>9. CASE EnqueueChild(j, p) \/ ResumeCorpus(j, p) \/ EndCorpus(j, p)
    BY <1>4, <1>9 DEF EnqueueChild, ResumeCorpus, EndCorpus, Advance, At
  <1> QED
    BY <1>2, <1>3, <1>6, <1>7, <1>8, <1>9 DEF RunStep

\* The record of a job that began, and that of the corpus job that failed.
LEMMA RbacFailureMovesTheStore ==
  ASSUME DoneInvariant, NEW j \in JobIds, NEW p \in Processes, RbacSchemaFails(j, p)
  PROVE  StoreMoves
  <1>1. RecordsTruthful
    BY DEF DoneInvariant
  <1>b. PICK begun : begun = [Get(store, j) EXCEPT !.status = "validating"]
    OBVIOUS
  <1>s. PICK s : s = Save(store, j, begun)
    OBVIOUS
  <1>2. Get(store, j) # NoJob
    BY DEF RbacSchemaFails
  <1>3. begun \in Job /\ begun # NoJob
    <2>1. Sound(Get(store, j))
      BY <1>1, <1>2 DEF RecordsTruthful
    <2> QED
      BY <1>b, <2>1, StatusIsNoTask, InputsAssumption DEF Sound
  <1>4. SavedOnto(store, s)
    BY <1>2, <1>3, <1>s DEF SavedOnto
  <1>5. \A k \in JobIds : Get(store, k) # NoJob => Get(s, k) # NoJob
    <2>1. Get(s, j) = begun /\ \A k \in JobIds \ {j} : Get(s, k) = Get(store, k)
      BY <1>1, <1>3, <1>s, SaveIsOneRecord DEF RecordsTruthful
    <2> QED
      BY <1>3, <2>1
  <1>6. CASE Parents(j, p) = {}
    <2>1. store' = s
      BY <1>b, <1>s, <1>6 DEF RbacSchemaFails
    <2> QED
      BY <1>4, <2>1 DEF StoreMoves
  <1>7. CASE Parents(j, p) # {}
    <2>1. PICK q \in Parents(j, p) : FailedIn(s, q, p)
      BY <1>b, <1>s, <1>7 DEF RbacSchemaFails
    <2>2. q \in JobIds /\ runs[<<q, p>>].at = "inline" /\ "failed" \in Final
      BY DEF Parents, At, Final
    <2>3. store' = Save(s, q, [Local(q, p) EXCEPT !.status = "failed"])
      BY <2>1 DEF FailedIn
    <2>4. SavedOnto(s, Save(s, q, [Local(q, p) EXCEPT !.status = "failed"]))
      BY <1>5, <2>2, CopiesAreSaved
    <2> QED
      BY <1>4, <2>3, <2>4 DEF StoreMoves
  <1> QED
    BY <1>6, <1>7

\* What any step does to the store.
LEMMA StepsMoveTheStore ==
  ASSUME DoneInvariant, [Next]_vars
  PROVE  StoreMoves
  <1>1. ASSUME NEW path \in SourcePaths \cup TempPaths \cup {<<"corpus">>}, NEW work,
               NEW owns \in BOOLEAN, NEW type, Submit(NewJob(type, path, work, owns)),
               \/ type = "unstructured" /\ \E f \in Files : work = <<f>>
               \/ type = "corpus" /\ work \in Corpora
               \/ type = "cypher" /\ work \in Scripts
        PROVE  StoreMoves
    <2>1. NewJob(type, path, work, owns) \in Job
      BY <1>1, NewJobsAreSound DEF Sound
    <2>2. FreshId \in JobIds /\ store' = Save(store, FreshId, NewJob(type, path, work, owns))
      BY <1>1 DEF Submit
    <2> QED
      BY <2>1, <2>2, NewJobsAreSaved DEF StoreMoves
  <1>2. FreshId \in JobIds => <<"temp", FreshId>> \in TempPaths
    BY DEF TempPaths
  <1>3. \A f \in Uploads : f \in Files
    BY InputsAssumption
  <1>4. ASSUME NEW f \in Uploads, SubmitUnstructured(f) PROVE StoreMoves
    BY <1>1, <1>2, <1>3, <1>4 DEF SubmitUnstructured, Submit
  <1>5. ASSUME NEW script \in Scripts, SubmitCypher(script) PROVE StoreMoves
    BY <1>1, <1>2, <1>5 DEF SubmitCypher, Submit
  <1>6. ASSUME NEW files \in Corpora, SubmitCorpus(files) PROVE StoreMoves
    BY <1>1, <1>6 DEF SubmitCorpus, Submit
  <1>7. ASSUME NEW j \in JobIds, Dispatch(j) \/ Dequeue(j) \/ WorkerDies(j) \/ Redeliver(j)
        PROVE  StoreMoves
    BY <1>7 DEF Dispatch, Dequeue, WorkerDequeues, WorkerFindsNoJob, WorkerDies, Redeliver, StoreMoves
  <1>8. CASE ApiRestarts \/ UNCHANGED vars
    BY <1>8 DEF ApiRestarts, vars, StoreMoves
  <1> QED
    BY <1>4, <1>5, <1>6, <1>7, <1>8, RunsMoveTheStore, RbacFailureMovesTheStore DEF Next

\* The index of the job store holds the jobs of its records, whichever process
\* saves them, however often, and in whatever order (ingestion/job_store.py).
LEMMA IndexInvariance == Spec => []Indexed(store)
  <1>1. Init => Indexed(store)
    <2>1. Init => \E kind : store = EmptyStore(kind)
      BY DEF Init
    <2> QED
      BY <2>1, EmptyIsIndexed
  <1>2. DoneInvariant /\ Indexed(store) /\ [Next]_vars => Indexed(store)'
    BY StepsMoveTheStore, MovesAreIndexed DEF DoneInvariant
  <1> QED
    BY <1>1, <1>2, DoneInvariance, PTL DEF Spec

\* GET /ingest/jobs never lists a job twice, and with the in-memory store it
\* lists the most recent ones, newest first (ingestion/job_store.py,
\* interface/routes/ingest.py), whoever saves which record in between.
THEOREM RecentListing == Spec => []ListingIsRecent
  <1>1. Indexed(store) => ListingIsRecent
    <2>1. ASSUME Indexed(store), NEW limit \in Limits
          PROVE  /\ store.kind = "memory" => NewestFirst(limit)
                 /\ IsInjective(Listing(store, limit))
      <3>1. limit \in Nat
        BY DEF Limits
      <3>2. store.kind = "memory" => NewestFirst(limit)
        BY <2>1, <3>1, ListingIsNewest
      <3> QED
        BY <2>1, <3>1, <3>2, ListingIsApart
    <2> QED
      BY <2>1 DEF ListingIsRecent
  <1> QED
    BY <1>1, IndexInvariance, PTL

----------------------------------------------------------------------------
(* The children of a corpus job. *)

ChildrenIn(s) ==
    {k \in JobIds : Get(s, k) # NoJob /\ Get(s, k).type = "unstructured" /\ ~Get(s, k).owns}

\* The children a record names are there, whichever job it is of.
NamesChildren(s) ==
    \A k \in JobIds : Get(s, k) # NoJob => ToSet(Get(s, k).children) \subseteq ChildrenIn(s)

\* An execution past its start: it has read the job's record.
Past(x) == x.at \notin {"idle", "start"}

\* What an execution knows of its job agrees with the record, except for its
\* status and for children the record may not name yet.
KnowsChildren(s, j, x) ==
    Past(x) =>
        /\ Get(s, j) # NoJob /\ x.job.type = Get(s, j).type /\ x.job.owns = Get(s, j).owns
        /\ ToSet(x.job.children) \subseteq ChildrenIn(s)

ChildrenInvariant ==
    /\ NamesChildren(store)
    /\ \A j \in JobIds, p \in Processes : KnowsChildren(store, j, runs[<<j, p>>])

\* No record disappears, or becomes one of another kind.
KindsLast(s, t) ==
    \A k \in JobIds : Get(s, k) # NoJob =>
        Get(t, k) # NoJob /\ Get(t, k).type = Get(s, k).type /\ Get(t, k).owns = Get(s, k).owns

\* A record is new and names no child, or is one of the same kind as before
\* and names children that are there.
SavedInKind(s, t) ==
    \E id \in JobIds, job \in Job :
        /\ t = Save(s, id, job)
        /\ \/ Get(s, id) = NoJob /\ job.children = <<>>
           \/ /\ Get(s, id) # NoJob /\ job.type = Get(s, id).type /\ job.owns = Get(s, id).owns
              /\ ToSet(job.children) \subseteq ChildrenIn(s)

\* Children stay children as long as no record disappears.
LEMMA ChildrenLast ==
  ASSUME NEW s, NEW t, KindsLast(s, t)
  PROVE  ChildrenIn(s) \subseteq ChildrenIn(t)
  BY DEF KindsLast, ChildrenIn

\* Saving a record in kind keeps the others what they are.
LEMMA SavesInKind ==
  ASSUME NEW s, DOMAIN s = {"kind", "jobs", "index"}, DOMAIN s.jobs = JobIds,
         NamesChildren(s), NEW t, SavedInKind(s, t)
  PROVE  /\ NamesChildren(t) /\ KindsLast(s, t)
         /\ DOMAIN t = {"kind", "jobs", "index"} /\ DOMAIN t.jobs = JobIds
  <1>1. PICK id \in JobIds, job \in Job :
            /\ t = Save(s, id, job)
            /\ \/ Get(s, id) = NoJob /\ job.children = <<>>
               \/ /\ Get(s, id) # NoJob /\ job.type = Get(s, id).type /\ job.owns = Get(s, id).owns
                  /\ ToSet(job.children) \subseteq ChildrenIn(s)
    BY DEF SavedInKind
  <1>2. /\ Get(t, id) = job /\ \A k \in JobIds \ {id} : Get(t, k) = Get(s, k)
        /\ job # NoJob
        /\ DOMAIN t = {"kind", "jobs", "index"} /\ DOMAIN t.jobs = JobIds
    BY <1>1, SaveIsOneRecord, InputsAssumption
  <1>3. KindsLast(s, t)
    BY <1>1, <1>2 DEF KindsLast
  <1>4. ChildrenIn(s) \subseteq ChildrenIn(t)
    BY <1>3, ChildrenLast
  <1>5. ToSet(job.children) \subseteq ChildrenIn(s)
    <2>1. ToSet(<<>>) = {}
      BY DEF ToSet
    <2> QED
      BY <1>1, <2>1
  <1>6. ASSUME NEW k \in JobIds, Get(t, k) # NoJob
        PROVE  ToSet(Get(t, k).children) \subseteq ChildrenIn(t)
    <2>1. CASE k = id
      BY <1>2, <1>4, <1>5, <2>1
    <2>2. CASE k # id
      BY <1>2, <1>4, <1>6, <2>2 DEF NamesChildren
    <2> QED
      BY <2>1, <2>2
  <1> QED
    BY <1>2, <1>3, <1>6 DEF NamesChildren

\* What an execution knows stays right while no record disappears.
LEMMA KnowledgeLasts ==
  ASSUME NEW s, NEW t, KindsLast(s, t), NEW j \in JobIds, NEW x, KnowsChildren(s, j, x)
  PROVE  KnowsChildren(t, j, x)
  BY ChildrenLast DEF KnowsChildren, KindsLast

\* The executions that go on know what they knew.
LEMMA RunsKnowChildren ==
  ASSUME ChildrenInvariant, KindsLast(store, store'),
         \A j \in JobIds, p \in Processes :
            LET y == runs'[<<j, p>>]
            IN  \/ ~Past(y)
                \/ Past(runs[<<j, p>>]) /\ y.job = runs[<<j, p>>].job
                \/ KnowsChildren(store', j, y)
  PROVE  \A j \in JobIds, p \in Processes : KnowsChildren(store', j, runs'[<<j, p>>])
  <1>1. ASSUME NEW j \in JobIds, NEW p \in Processes
        PROVE  KnowsChildren(store', j, runs'[<<j, p>>])
    <2> PICK x, y : x = runs[<<j, p>>] /\ y = runs'[<<j, p>>]
      OBVIOUS
    <2>1. KnowsChildren(store', j, x)
      BY KnowledgeLasts DEF ChildrenInvariant
    <2>2. \/ ~Past(y)
          \/ Past(x) /\ y.job = x.job
          \/ KnowsChildren(store', j, y)
      OBVIOUS
    <2>3. KnowsChildren(store', j, y)
      BY <2>1, <2>2 DEF KnowsChildren
    <2> QED
      BY <2>3
  <1> QED
    BY <1>1

\* The ways an execution of run_job goes on, apart from beginning, from
\* accepting a file and from starting another execution: it ends, with the
\* record in a final status, ...
Ends(j, p) ==
    /\ \E status \in Final : store' = Save(store, j, [Local(j, p) EXCEPT !.status = status])
    /\ runs' = [runs EXCEPT ![<<j, p>>] = Idle]
    /\ rq' = Returned(j, p)

\* ... or takes a step of its task, may save its copy of the record and may
\* hand a child to RQ.
GoesOn(j, p) ==
    \E y \in RunRecord :
        /\ y.job = Local(j, p) /\ y.at \notin {"idle", "start", "enqueue"}
        /\ runs' = [runs EXCEPT ![<<j, p>>] = y]
        /\ store' \in {store, Save(store, j, Local(j, p))}
        /\ \/ rq' = rq
           \/ At(j, p, "enqueue") /\ rq' = Enqueued(runs[<<j, p>>].child)

LEMMA RunsEndOrGoOn ==
  ASSUME DoneInvariant, NEW j \in JobIds, NEW p \in Processes,
         RunStep(j, p) \/ ProcessingFails(j, p),
         ~BeginJob(j, p), ~AcceptFile(j, p), ~RunChildInline(j, p)
  PROVE  Past(runs[<<j, p>>]) /\ (Ends(j, p) \/ GoesOn(j, p)) /\ UNCHANGED <<created, undispatched>>
  <1> PICK x : x = runs[<<j, p>>]
    OBVIOUS
  <1>1. x.at \notin {"idle", "start"} /\ UNCHANGED <<created, undispatched>>
    BY DEF RunStep, ProcessingFails, FinishJob, ProcessUnstructured, RunStatement, EndScript,
           ScanCorpus, SkipFile, AtFile, EnqueueChild, ResumeCorpus, EndCorpus, At
  <1>2. Past(runs[<<j, p>>])
    BY <1>1 DEF Past
  <1>3. x \in RunRecord /\ Local(j, p) = x.job
    BY <1>1, RunsHaveFields
  <1>4. CASE FinishJob(j, p) \/ JobFails(j, p)
    <2>1. /\ \/ store' = Save(store, j, [Local(j, p) EXCEPT !.status = "completed"])
             \/ store' = Save(store, j, [Local(j, p) EXCEPT !.status = "failed"])
          /\ runs' = [runs EXCEPT ![<<j, p>>] = Idle] /\ rq' = Returned(j, p)
      BY <1>4 DEF FinishJob, JobFails, FailedIn
    <2>2. "completed" \in Final /\ "failed" \in Final
      BY DEF Final
    <2> QED
      BY <1>1, <1>2, <2>1, <2>2 DEF Ends
  <1>5. ASSUME NEW at \in {"finish", "file"},
               runs' = [runs EXCEPT ![<<j, p>>] = [x EXCEPT !.at = at]],
               store' \in {store, Save(store, j, Local(j, p))}, rq' = rq
        PROVE  GoesOn(j, p)
    <2> PICK y : y = [x EXCEPT !.at = at]
      OBVIOUS
    <2>1. y \in RunRecord /\ y.job = x.job /\ y.at = at
      BY <1>3 DEF RunRecord, Step
    <2> QED
      BY <1>3, <1>5, <2>1 DEF GoesOn
  <1>7. CASE ProcessUnstructured(j, p) /\ ~JobFails(j, p)
    <2>1. runs' = [runs EXCEPT ![<<j, p>>] = [x EXCEPT !.at = "finish"]] /\ UNCHANGED <<store, rq>>
      BY <1>7 DEF ProcessUnstructured
    <2> QED
      BY <1>1, <1>2, <1>5, <2>1
  <1>8. CASE EndScript(j, p) /\ ~JobFails(j, p)
    <2>1. runs' = [runs EXCEPT ![<<j, p>>] = [x EXCEPT !.at = "finish"]] /\ UNCHANGED <<store, rq>>
      BY <1>8 DEF EndScript
    <2> QED
      BY <1>1, <1>2, <1>5, <2>1
  <1>9. CASE ScanCorpus(j, p) /\ ~JobFails(j, p)
    <2>1. runs' = [runs EXCEPT ![<<j, p>>] = [x EXCEPT !.at = "file"]] /\ UNCHANGED <<store, rq>>
      BY <1>9 DEF ScanCorpus
    <2> QED
      BY <1>1, <1>2, <1>5, <2>1
  <1>10. CASE EndCorpus(j, p)
    <2>1. /\ runs' = [runs EXCEPT ![<<j, p>>] = [x EXCEPT !.at = "finish"]]
          /\ store' = Save(store, j, Local(j, p)) /\ rq' = rq
      BY <1>10 DEF EndCorpus
    <2> QED
      BY <1>1, <1>2, <1>5, <2>1
  <1>11. CASE RunStatement(j, p) \/ SkipFile(j, p)
    <2> PICK y : y = [x EXCEPT !.i = @ + 1]
      OBVIOUS
    <2>1. y \in RunRecord /\ y.job = x.job /\ y.at = x.at
      BY <1>3 DEF RunRecord
    <2>2. x.at \in {"statement", "file"} /\ runs' = [runs EXCEPT ![<<j, p>>] = y]
      BY <1>11 DEF RunStatement, SkipFile, AtFile, At
    <2>3. store' = store /\ rq' = rq
      BY <1>11 DEF RunStatement, SkipFile
    <2> QED
      BY <1>1, <1>2, <1>3, <2>1, <2>2, <2>3 DEF GoesOn
  <1>12. CASE EnqueueChild(j, p) \/ ResumeCorpus(j, p)
    <2> PICK y : y = [x EXCEPT !.at = "file", !.i = @ + 1, !.child = 0]
      OBVIOUS
    <2>1. y \in RunRecord /\ y.job = x.job /\ y.at = "file"
      <3>1. x.i + 1 \in Nat \ {0} /\ DOMAIN x = {"at", "i", "job", "child"}
        BY <1>3 DEF RunRecord
      <3> QED
        BY <1>3, <3>1 DEF RunRecord, Step
    <2>2. runs' = [runs EXCEPT ![<<j, p>>] = y]
      BY <1>12 DEF EnqueueChild, ResumeCorpus, Advance
    <2>3. /\ store' \in {store, Save(store, j, Local(j, p))}
          /\ \/ rq' = rq
             \/ At(j, p, "enqueue") /\ rq' = Enqueued(runs[<<j, p>>].child)
      BY <1>12 DEF EnqueueChild, ResumeCorpus, Advance
    <2> QED
      BY <1>1, <1>2, <1>3, <2>1, <2>2, <2>3 DEF GoesOn
  <1> QED
    BY <1>1, <1>2, <1>4, <1>7, <1>8, <1>9, <1>10, <1>11, <1>12 DEF RunStep, ProcessingFails

\* An execution saves its copy of the record in kind.
LEMMA CopiesAreInKind ==
  ASSUME DoneInvariant, ChildrenInvariant, NEW j \in JobIds, NEW p \in Processes,
         Past(runs[<<j, p>>]), NEW s, KindsLast(store, s),
         NEW status \in {"queued", "validating"} \cup Final
  PROVE  /\ SavedInKind(s, Save(s, j, [Local(j, p) EXCEPT !.status = status]))
         /\ SavedInKind(s, Save(s, j, Local(j, p)))
  <1>1. Sound(Local(j, p)) /\ Local(j, p) = runs[<<j, p>>].job
    BY RunsHaveFields DEF Past
  <1> PICK job, copy : job = Local(j, p) /\ copy = [job EXCEPT !.status = status]
    OBVIOUS
  <1>2. job \in Job /\ copy \in Job
    BY <1>1, StatusIsNoTask DEF Sound
  <1>3. copy.type = job.type /\ copy.owns = job.owns /\ copy.children = job.children
    BY <1>2 DEF Job
  <1>4. KnowsChildren(s, j, runs[<<j, p>>])
    BY KnowledgeLasts DEF ChildrenInvariant
  <1>5. /\ Get(s, j) # NoJob /\ job.type = Get(s, j).type /\ job.owns = Get(s, j).owns
        /\ ToSet(job.children) \subseteq ChildrenIn(s)
    BY <1>1, <1>4 DEF KnowsChildren
  <1> QED
    BY <1>2, <1>3, <1>5 DEF SavedInKind

\* A record of a status that the job began with, in kind.
LEMMA BeginningIsInKind ==
  ASSUME RecordsTruthful, NamesChildren(store), NEW j \in JobIds, Get(store, j) # NoJob,
         NEW job, job = [Get(store, j) EXCEPT !.status = "validating"]
  PROVE  /\ SavedInKind(store, Save(store, j, job)) /\ job \in Job
         /\ job.type = Get(store, j).type /\ job.owns = Get(store, j).owns
         /\ job.children = Get(store, j).children /\ job.status = "validating"
  <1>1. Sound(Get(store, j))
    BY DEF RecordsTruthful
  <1>2. job \in Job
    BY <1>1, StatusIsNoTask DEF Sound
  <1>3. Get(store, j) \in Job
    BY <1>1 DEF Sound
  <1>4. /\ job.type = Get(store, j).type /\ job.owns = Get(store, j).owns
        /\ job.children = Get(store, j).children /\ job.status = "validating"
    BY <1>3 DEF Job
  <1> QED
    BY <1>2, <1>4 DEF SavedInKind, NamesChildren

\* A new record is in kind.
LEMMA NewJobsAreInKind ==
  ASSUME RecordsTruthful, FreshId \in JobIds, NEW job \in Job, job.children = <<>>
  PROVE  SavedInKind(store, Save(store, FreshId, job))
  <1>1. Get(store, FreshId) = NoJob
    BY DEF RecordsTruthful, FreshId
  <1> QED
    BY <1>1 DEF SavedInKind

\* One save in kind, while the executions know what they knew or what is said
\* of the new record, is a step that keeps the invariant.
LEMMA SavingKeepsChildren ==
  ASSUME DoneInvariant, ChildrenInvariant, store' = store \/ SavedInKind(store, store')
  PROVE  /\ NamesChildren(store') /\ KindsLast(store, store')
         /\ DOMAIN store' = {"kind", "jobs", "index"} /\ DOMAIN store'.jobs = JobIds
  <1>1. /\ DOMAIN store = {"kind", "jobs", "index"} /\ DOMAIN store.jobs = JobIds
        /\ NamesChildren(store)
    BY DEF DoneInvariant, RecordsTruthful, ChildrenInvariant
  <1>2. CASE store' = store
    BY <1>1, <1>2 DEF KindsLast
  <1>3. CASE SavedInKind(store, store')
    BY <1>1, <1>3, SavesInKind
  <1> QED
    BY <1>2, <1>3

\* The executions of run_job, but for the two below.
LEMMA RunsKeepChildren ==
  ASSUME DoneInvariant, ChildrenInvariant, NEW j \in JobIds, NEW p \in Processes,
         RunStep(j, p) \/ ProcessingFails(j, p),
         ~BeginJob(j, p), ~AcceptFile(j, p), ~RunChildInline(j, p)
  PROVE  ChildrenInvariant'
  <1>1. Past(runs[<<j, p>>]) /\ (Ends(j, p) \/ GoesOn(j, p))
    BY RunsEndOrGoOn
  <1>2. DOMAIN runs = JobIds \X Processes
    BY DEF DoneInvariant, RunsOnTask
  <1>3. KindsLast(store, store)
    BY DEF KindsLast
  <1>4. store' = store \/ SavedInKind(store, store')
    <2>1. ASSUME NEW status \in Final PROVE status \in {"queued", "validating"} \cup Final
      OBVIOUS
    <2>2. CASE Ends(j, p)
      <3>1. PICK status \in Final : store' = Save(store, j, [Local(j, p) EXCEPT !.status = status])
        BY <2>2 DEF Ends
      <3>2. SavedInKind(store, Save(store, j, [Local(j, p) EXCEPT !.status = status]))
        BY <1>1, <1>3, <2>1, CopiesAreInKind
      <3> QED
        BY <3>1, <3>2
    <2>3. CASE GoesOn(j, p)
      <3>1. store' \in {store, Save(store, j, Local(j, p))}
        BY <2>3 DEF GoesOn
      <3>2. SavedInKind(store, Save(store, j, Local(j, p)))
        BY <1>1, <1>3, CopiesAreInKind
      <3> QED
        BY <3>1, <3>2
    <2> QED
      BY <1>1, <2>2, <2>3
  <1>5. NamesChildren(store') /\ KindsLast(store, store')
    BY <1>4, SavingKeepsChildren
  <1>6. PICK y : runs' = [runs EXCEPT ![<<j, p>>] = y] /\ (~Past(y) \/ y.job = runs[<<j, p>>].job)
    BY <1>1 DEF Ends, GoesOn, Past, Idle, Local
  <1>7. ASSUME NEW k \in JobIds, NEW q \in Processes
        PROVE  LET z == runs'[<<k, q>>]
               IN  \/ ~Past(z)
                   \/ Past(runs[<<k, q>>]) /\ z.job = runs[<<k, q>>].job
                   \/ KnowsChildren(store', k, z)
    <2>1. CASE k = j /\ q = p
      BY <1>1, <1>2, <1>6, <2>1
    <2>2. CASE ~(k = j /\ q = p)
      BY <1>2, <1>6, <2>2
    <2> QED
      BY <2>1, <2>2
  <1>8. \A k \in JobIds, q \in Processes : KnowsChildren(store', k, runs'[<<k, q>>])
    BY <1>5, <1>7, RunsKnowChildren
  <1> QED
    BY <1>5, <1>8 DEF ChildrenInvariant

\* A job begins: what it knows is what the record says.
LEMMA BeginKeepsChildren ==
  ASSUME DoneInvariant, ChildrenInvariant, NEW j \in JobIds, NEW p \in Processes, BeginJob(j, p)
  PROVE  ChildrenInvariant'
  <1> PICK job : job = [Get(store, j) EXCEPT !.status = "validating"]
    OBVIOUS
  <1> PICK y : y = Started(job, FirstStep[job.type])
    OBVIOUS
  <1>1. /\ Get(store, j) # NoJob /\ store' = Save(store, j, job)
        /\ runs' = [runs EXCEPT ![<<j, p>>] = y] /\ y.job = job
    BY DEF BeginJob, Started
  <1>2. RecordsTruthful /\ DOMAIN runs = JobIds \X Processes /\ NamesChildren(store)
    BY DEF DoneInvariant, RunsOnTask, ChildrenInvariant
  <1>3. /\ SavedInKind(store, store') /\ job \in Job
        /\ job.type = Get(store, j).type /\ job.owns = Get(store, j).owns
        /\ job.children = Get(store, j).children
    BY <1>1, <1>2, BeginningIsInKind
  <1>4. NamesChildren(store') /\ KindsLast(store, store')
    BY <1>3, SavingKeepsChildren
  <1>5. KnowsChildren(store', j, y)
    <2>1. Get(store', j) = job /\ job # NoJob
      BY <1>1, <1>2, <1>3, SaveIsOneRecord, InputsAssumption DEF RecordsTruthful
    <2> QED
      BY <1>1, <1>4, <2>1 DEF KnowsChildren, NamesChildren
  <1>6. ASSUME NEW k \in JobIds, NEW q \in Processes
        PROVE  LET z == runs'[<<k, q>>]
               IN  \/ ~Past(z)
                   \/ Past(runs[<<k, q>>]) /\ z.job = runs[<<k, q>>].job
                   \/ KnowsChildren(store', k, z)
    <2>1. CASE k = j /\ q = p
      BY <1>1, <1>2, <1>5, <2>1
    <2>2. CASE ~(k = j /\ q = p)
      BY <1>1, <1>2, <2>2
    <2> QED
      BY <2>1, <2>2
  <1>7. \A k \in JobIds, q \in Processes : KnowsChildren(store', k, runs'[<<k, q>>])
    BY <1>4, <1>6, RunsKnowChildren
  <1> QED
    BY <1>4, <1>7 DEF ChildrenInvariant

\* A corpus job has stored a child under a new id, and knows of it.
AcceptedAs(j, p, job, y) ==
    LET x == runs[<<j, p>>]
    IN  /\ FreshId \in JobIds /\ Get(store, FreshId) = NoJob
        /\ store' = Save(store, FreshId, job)
        /\ job.type = "unstructured" /\ ~job.owns /\ job.children = <<>> /\ job.status = "queued"
        /\ x.at = "file" /\ x.job.type = "corpus"
        /\ runs' = [runs EXCEPT ![<<j, p>>] = y]
        /\ y.at = "enqueue" /\ y.child = FreshId
        /\ y.job.type = x.job.type /\ y.job.owns = x.job.owns
        /\ ToSet(y.job.children) = ToSet(x.job.children) \cup {FreshId}

LEMMA AcceptanceInDetail ==
  ASSUME DoneInvariant, NEW j \in JobIds, NEW p \in Processes, AcceptFile(j, p)
  PROVE  \E y : \E job \in Job : AcceptedAs(j, p, job, y)
  <1> PICK x : x = runs[<<j, p>>]
    OBVIOUS
  <1> PICK job : job = NewJob("unstructured", <<"source", Candidate(j, p)>>, <<Candidate(j, p)>>, FALSE)
    OBVIOUS
  <1> PICK y : y = [x EXCEPT !.at = "enqueue", !.child = FreshId, !.job.children = Append(@, FreshId)]
    OBVIOUS
  <1>1. /\ FreshId \in JobIds /\ store' = Save(store, FreshId, job)
        /\ x.at = "file" /\ x.i \in 1..Len(Local(j, p).work)
        /\ runs' = [runs EXCEPT ![<<j, p>>] = y]
    BY DEF AcceptFile, AtFile, At
  <1>2. Get(store, FreshId) = NoJob
    BY <1>1 DEF DoneInvariant, RecordsTruthful, FreshId
  <1>3. /\ x \in RunRecord /\ Sound(x.job) /\ x.job.type = "corpus" /\ Local(j, p) = x.job
    BY <1>1, RunsHaveFields
  <1>4. Candidate(j, p) \in Files /\ Candidate(j, p) \in CorpusFiles
    BY <1>1, <1>3, WorkIsInPieces DEF Candidate
  <1>5. job \in Job
    <2>1. <<"source", Candidate(j, p)>> \in SourcePaths
      BY <1>4 DEF SourcePaths
    <2>2. Sound(job)
      BY <1>4, <2>1, NewJobsAreSound
    <2> QED
      BY <2>2 DEF Sound
  <1>6. job.type = "unstructured" /\ ~job.owns /\ job.children = <<>> /\ job.status = "queued"
    BY DEF NewJob
  <1>7. x.job \in Job /\ x.job.children \in Seq(JobIds)
    BY <1>3 DEF Sound, Job
  <1>8. /\ y.at = "enqueue" /\ y.child = FreshId
        /\ y.job = [x.job EXCEPT !.children = Append(@, FreshId)]
    BY <1>3 DEF RunRecord
  <1>9. /\ y.job.type = x.job.type /\ y.job.owns = x.job.owns
        /\ y.job.children = Append(x.job.children, FreshId)
    <2> PICK z, c : z = x.job /\ c = Append(x.job.children, FreshId)
      OBVIOUS
    <2>1. y.job = [z EXCEPT !.children = c] /\ z \in Job
      BY <1>7, <1>8
    <2>2. DOMAIN z = {"type", "status", "path", "work", "owns", "children"}
      BY <2>1 DEF Job
    <2>3. PICK v : v = y.job
      OBVIOUS
    <2>4. v = [z EXCEPT !.children = c]
      BY <2>1, <2>3
    <2>5. v.type = z.type /\ v.owns = z.owns /\ v.children = c
      BY <2>2, <2>4
    <2> QED
      BY <2>3, <2>5
  <1>10. ToSet(Append(x.job.children, FreshId)) = ToSet(x.job.children) \cup {FreshId}
    <2> PICK c : c = x.job.children
      OBVIOUS
    <2>1. /\ c \in Seq(JobIds) /\ DOMAIN c = 1..Len(c) /\ DOMAIN Append(c, FreshId) = 1..(Len(c) + 1)
          /\ \A a \in 1..Len(c) : Append(c, FreshId)[a] = c[a]
          /\ Append(c, FreshId)[Len(c) + 1] = FreshId /\ Len(c) \in Nat
      BY <1>1, <1>7, SMTT(60)
    <2> PICK d : d = Append(c, FreshId)
      OBVIOUS
    <2>2. ASSUME NEW k PROVE k \in ToSet(d) <=> \E a \in 1..(Len(c) + 1) : d[a] = k
      BY <2>1 DEF ToSet
    <2>3. ASSUME NEW k PROVE k \in ToSet(c) <=> \E a \in 1..Len(c) : c[a] = k
      BY <2>1 DEF ToSet
    <2>4. \A a \in 1..(Len(c) + 1) : a = Len(c) + 1 \/ a \in 1..Len(c)
      BY <2>1
    <2>5. Len(c) + 1 \in 1..(Len(c) + 1) /\ \A a \in 1..Len(c) : a \in 1..(Len(c) + 1)
      <3>1. \A n \in Nat : n + 1 \in 1..(n + 1) /\ \A a \in 1..n : a \in 1..(n + 1)
        OBVIOUS
      <3>2. Len(c) \in Nat
        BY <2>1
      <3> QED
        BY <3>1, <3>2
    <2>6. \A a \in 1..Len(c) : d[a] = c[a]
      BY <2>1
    <2>7. d[Len(c) + 1] = FreshId
      BY <2>1
    <2>8. ASSUME NEW k \in ToSet(d) PROVE k \in ToSet(c) \/ k = FreshId
      <3>1. PICK a \in 1..(Len(c) + 1) : d[a] = k
        BY <2>2, <2>8
      <3>2. CASE a \in 1..Len(c)
        <4>1. c[a] = k
          BY <2>6, <3>1, <3>2
        <4> QED
          BY <2>3, <3>2, <4>1
      <3> QED
        BY <2>4, <2>7, <3>1, <3>2
    <2>9. ASSUME NEW k \in ToSet(c) PROVE k \in ToSet(d)
      <3>1. PICK a \in 1..Len(c) : c[a] = k
        BY <2>3, <2>9
      <3>2. a \in 1..(Len(c) + 1) /\ d[a] = k
        BY <2>5, <2>6, <3>1
      <3> QED
        BY <2>2, <3>2
    <2>10. FreshId \in ToSet(d)
      BY <2>2, <2>5, <2>7
    <2> QED
      BY <2>8, <2>9, <2>10
  <1> QED
    <2>1. AcceptedAs(j, p, job, y)
      BY <1>1, <1>2, <1>3, <1>6, <1>8, <1>9, <1>10 DEF AcceptedAs
    <2> QED
      BY <1>5, <2>1

\* A file is accepted: the child is there when its corpus job names it.
LEMMA AcceptanceKeepsChildren ==
  ASSUME DoneInvariant, ChildrenInvariant, NEW j \in JobIds, NEW p \in Processes, AcceptFile(j, p)
  PROVE  ChildrenInvariant'
  <1>1. PICK y : \E job \in Job : AcceptedAs(j, p, job, y)
    BY AcceptanceInDetail
  <1>2. PICK job \in Job : AcceptedAs(j, p, job, y)
    BY <1>1
  <1> PICK x : x = runs[<<j, p>>]
    OBVIOUS
  <1>3. /\ FreshId \in JobIds /\ Get(store, FreshId) = NoJob
        /\ store' = Save(store, FreshId, job)
        /\ job.type = "unstructured" /\ ~job.owns /\ job.children = <<>>
        /\ Past(x) /\ runs' = [runs EXCEPT ![<<j, p>>] = y]
        /\ y.job.type = x.job.type /\ y.job.owns = x.job.owns
        /\ ToSet(y.job.children) = ToSet(x.job.children) \cup {FreshId}
    BY <1>2 DEF AcceptedAs, Past
  <1>4. RecordsTruthful /\ DOMAIN runs = JobIds \X Processes
    BY DEF DoneInvariant, RunsOnTask
  <1>5. SavedInKind(store, store')
    BY <1>3, <1>4, NewJobsAreInKind
  <1>6. NamesChildren(store') /\ KindsLast(store, store')
    BY <1>5, SavingKeepsChildren
  <1>7. KnowsChildren(store', j, y)
    <2>1. KnowsChildren(store', j, x)
      BY <1>6, KnowledgeLasts DEF ChildrenInvariant
    <2>2. Get(store', FreshId) = job /\ job # NoJob
      BY <1>3, <1>4, SaveIsOneRecord, InputsAssumption DEF RecordsTruthful
    <2>3. FreshId \in ChildrenIn(store')
      BY <1>3, <2>2 DEF ChildrenIn
    <2> QED
      BY <1>3, <2>1, <2>3 DEF KnowsChildren
  <1>8. ASSUME NEW k \in JobIds, NEW q \in Processes
        PROVE  LET z == runs'[<<k, q>>]
               IN  \/ ~Past(z)
                   \/ Past(runs[<<k, q>>]) /\ z.job = runs[<<k, q>>].job
                   \/ KnowsChildren(store', k, z)
    <2>1. CASE k = j /\ q = p
      BY <1>3, <1>4, <1>7, <2>1
    <2>2. CASE ~(k = j /\ q = p)
      BY <1>3, <1>4, <2>2
    <2> QED
      BY <2>1, <2>2
  <1>9. \A k \in JobIds, q \in Processes : KnowsChildren(store', k, runs'[<<k, q>>])
    BY <1>6, <1>8, RunsKnowChildren
  <1> QED
    BY <1>6, <1>9 DEF ChildrenInvariant

\* Executions that start, end or go to another place of the same job.
LEMMA MovingKeepsChildren ==
  ASSUME DoneInvariant, ChildrenInvariant,
         \/ store' = store
         \/ SavedInKind(store, store')
         \/ \E s : SavedInKind(store, s) /\ SavedInKind(s, store'),
         \A j \in JobIds, p \in Processes :
            LET y == runs'[<<j, p>>]
            IN  ~Past(y) \/ (Past(runs[<<j, p>>]) /\ y.job = runs[<<j, p>>].job)
  PROVE  ChildrenInvariant'
  <1>1. /\ DOMAIN store = {"kind", "jobs", "index"} /\ DOMAIN store.jobs = JobIds
        /\ NamesChildren(store)
    BY DEF DoneInvariant, RecordsTruthful, ChildrenInvariant
  <1>2. NamesChildren(store') /\ KindsLast(store, store')
    <2>1. CASE store' = store \/ SavedInKind(store, store')
      BY <2>1, SavingKeepsChildren
    <2>2. ASSUME NEW s, SavedInKind(store, s), SavedInKind(s, store')
          PROVE  NamesChildren(store') /\ KindsLast(store, store')
      <3>1. /\ NamesChildren(s) /\ KindsLast(store, s)
            /\ DOMAIN s = {"kind", "jobs", "index"} /\ DOMAIN s.jobs = JobIds
        BY <1>1, <2>2, SavesInKind
      <3>2. NamesChildren(store') /\ KindsLast(s, store')
        BY <2>2, <3>1, SavesInKind
      <3> QED
        BY <3>1, <3>2 DEF KindsLast
    <2> QED
      BY <2>1, <2>2
  <1>3. \A j \in JobIds, p \in Processes : KnowsChildren(store', j, runs'[<<j, p>>])
    BY <1>2, RunsKnowChildren
  <1> QED
    BY <1>2, <1>3 DEF ChildrenInvariant

\* A child is run inline: its execution has still to read its record.
LEMMA InliningKeepsChildren ==
  ASSUME DoneInvariant, ChildrenInvariant, NEW j \in JobIds, NEW p \in Processes,
         RunChildInline(j, p)
  PROVE  ChildrenInvariant'
  <1> PICK x, y : x = runs[<<j, p>>] /\ y = [x EXCEPT !.at = "inline"]
    OBVIOUS
  <1> PICK c : c = x.child
    OBVIOUS
  <1>1. /\ x.at = "enqueue" /\ store' = store
        /\ runs' = [runs EXCEPT ![<<j, p>>].at = "inline", ![<<c, p>>] = Starting]
    BY DEF RunChildInline, At
  <1>2. DOMAIN runs = JobIds \X Processes
    BY DEF DoneInvariant, RunsOnTask
  <1>3. x \in RunRecord /\ Past(x)
    BY <1>1, RunsHaveFields DEF Past
  <1>4. y.job = x.job
    BY <1>3 DEF RunRecord
  <1>5. ~Past(Starting)
    BY DEF Past, Starting, Started
  <1>6. ASSUME NEW k \in JobIds, NEW q \in Processes
        PROVE  LET z == runs'[<<k, q>>]
               IN  ~Past(z) \/ (Past(runs[<<k, q>>]) /\ z.job = runs[<<k, q>>].job)
    <2>1. runs'[<<k, q>>] = IF k = c /\ q = p THEN Starting
                            ELSE IF k = j /\ q = p THEN y ELSE runs[<<k, q>>]
      BY <1>1, <1>2
    <2> QED
      BY <1>3, <1>4, <1>5, <2>1
  <1> QED
    BY <1>1, <1>6, MovingKeepsChildren

\* The schema fails: the record of the job, or that of its corpus job too.
LEMMA RbacFailureKeepsChildren ==
  ASSUME DoneInvariant, ChildrenInvariant, NEW j \in JobIds, NEW p \in Processes,
         RbacSchemaFails(j, p)
  PROVE  ChildrenInvariant'
  <1>b. PICK begun : begun = [Get(store, j) EXCEPT !.status = "validating"]
    OBVIOUS
  <1>s. PICK s : s = Save(store, j, begun)
    OBVIOUS
  <1>1. Get(store, j) # NoJob
    BY DEF RbacSchemaFails
  <1>2. /\ RecordsTruthful /\ DOMAIN runs = JobIds \X Processes /\ NamesChildren(store)
        /\ DOMAIN store = {"kind", "jobs", "index"} /\ DOMAIN store.jobs = JobIds
    BY DEF DoneInvariant, RunsOnTask, ChildrenInvariant, RecordsTruthful
  <1>3. SavedInKind(store, s)
    BY <1>b, <1>s, <1>1, <1>2, BeginningIsInKind
  <1>4. KindsLast(store, s)
    BY <1>2, <1>3, SavesInKind
  <1>5. CASE Parents(j, p) = {}
    <2>1. store' = s /\ runs' = [runs EXCEPT ![<<j, p>>] = Idle]
      BY <1>b, <1>s, <1>5 DEF RbacSchemaFails
    <2>2. ASSUME NEW k \in JobIds, NEW q \in Processes
          PROVE  LET z == runs'[<<k, q>>]
                 IN  ~Past(z) \/ (Past(runs[<<k, q>>]) /\ z.job = runs[<<k, q>>].job)
      BY <1>2, <2>1 DEF Past, Idle
    <2> QED
      BY <1>3, <2>1, <2>2, MovingKeepsChildren
  <1>6. CASE Parents(j, p) # {}
    <2>1. PICK q \in Parents(j, p) :
              FailedIn(s, q, p) /\ runs' = [runs EXCEPT ![<<j, p>>] = Idle, ![<<q, p>>] = Idle]
      BY <1>b, <1>s, <1>6 DEF RbacSchemaFails
    <2>2. q \in JobIds /\ Past(runs[<<q, p>>]) /\ "failed" \in {"queued", "validating"} \cup Final
      BY DEF Parents, At, Past, Final
    <2>3. store' = Save(s, q, [Local(q, p) EXCEPT !.status = "failed"])
      BY <2>1 DEF FailedIn
    <2>4. SavedInKind(s, store')
      BY <1>4, <2>2, <2>3, CopiesAreInKind
    <2>5. ASSUME NEW k \in JobIds, NEW r \in Processes
          PROVE  LET z == runs'[<<k, r>>]
                 IN  ~Past(z) \/ (Past(runs[<<k, r>>]) /\ z.job = runs[<<k, r>>].job)
      BY <1>2, <2>1 DEF Past, Idle
    <2> QED
      BY <1>3, <2>4, <2>5, MovingKeepsChildren
  <1> QED
    BY <1>5, <1>6

\* Dispatch, the queue and the deaths of its workers: no execution gets on.
LEMMA DispatchersStartAfresh ==
  ASSUME DoneInvariant, NEW j \in JobIds,
         Dispatch(j) \/ Dequeue(j) \/ WorkerDies(j) \/ Redeliver(j)
  PROVE  /\ UNCHANGED <<store, created>>
         /\ \A k \in JobIds, p \in Processes :
                LET y == runs'[<<k, p>>]
                IN  ~Past(y) \/ (Past(runs[<<k, p>>]) /\ y.job = runs[<<k, p>>].job)
  <1>1. DOMAIN runs = JobIds \X Processes
    BY DEF DoneInvariant, RunsOnTask
  <1>2. ~Past(Starting) /\ ~Past(Idle)
    BY DEF Past, Starting, Started, Idle
  <1>3. /\ UNCHANGED <<store, created>>
        /\ \/ runs' = runs
           \/ \E p \in Processes : runs' = [runs EXCEPT ![<<j, p>>] = Starting]
           \/ runs' = WithoutRunsOf(j)
    <2>1. API \in Processes /\ j \in Processes
      BY DEF Processes
    <2> QED
      BY <2>1 DEF Dispatch, Dequeue, WorkerDequeues, WorkerFindsNoJob, WorkerDies, Redeliver
  <1>4. ASSUME NEW k \in JobIds, NEW p \in Processes
        PROVE  runs'[<<k, p>>] \in {runs[<<k, p>>], Starting, Idle}
    BY <1>1, <1>3 DEF WithoutRunsOf
  <1> QED
    BY <1>2, <1>3, <1>4

\* A memory store is lost with the executions that know of its records.
LEMMA RestartsKeepChildren ==
  ASSUME DoneInvariant, ChildrenInvariant, ApiRestarts
  PROVE  ChildrenInvariant'
  <1>1. runs' = WithoutRunsOf(API) /\ DOMAIN runs = JobIds \X Processes /\ ~Past(Idle)
    BY DEF ApiRestarts, DoneInvariant, RunsOnTask, Past, Idle
  <1>2. ASSUME NEW k \in JobIds, NEW p \in Processes
        PROVE  runs'[<<k, p>>] = IF p = API THEN Idle ELSE runs[<<k, p>>]
    BY <1>1 DEF WithoutRunsOf
  <1>3. CASE store.kind = "memory"
    <2>1. store' = EmptyStore("memory")
      BY <1>3 DEF ApiRestarts
    <2>2. \A k \in JobIds : Get(store', k) = NoJob
      BY <2>1 DEF EmptyStore, Get
    <2>3. ASSUME NEW k \in JobIds, NEW p \in Processes, p # API PROVE ~Past(runs[<<k, p>>])
      BY <1>3, <2>3 DEF DoneInvariant, RunsOnTask, OnTask, Past, Idle
    <2>4. \A k \in JobIds, p \in Processes : KnowsChildren(store', k, runs'[<<k, p>>])
      BY <1>1, <1>2, <2>3 DEF KnowsChildren
    <2> QED
      BY <2>2, <2>4 DEF ChildrenInvariant, NamesChildren
  <1>4. CASE store.kind # "memory"
    <2>1. store' = store
      BY <1>4 DEF ApiRestarts
    <2> QED
      BY <1>1, <1>2, <2>1, MovingKeepsChildren
  <1> QED
    BY <1>3, <1>4

\* A job is submitted: it names no child yet.
LEMMA SubmissionsAreInKind ==
  ASSUME DoneInvariant,
         \/ \E f \in Uploads : SubmitUnstructured(f)
         \/ \E script \in Scripts : SubmitCypher(script)
         \/ \E files \in Corpora : SubmitCorpus(files)
  PROVE  \E job \in Job :
            /\ Submit(job) /\ job.children = <<>> /\ job.status = "queued"
            /\ job.type = "unstructured" => job.owns
            /\ SavedInKind(store, store')
  <1>1. RecordsTruthful
    BY DEF DoneInvariant
  <1>2. ASSUME NEW path \in SourcePaths \cup TempPaths \cup {<<"corpus">>}, NEW work,
               NEW owns \in BOOLEAN, NEW type, Submit(NewJob(type, path, work, owns)),
               \/ type = "unstructured" /\ owns /\ \E f \in Files : work = <<f>>
               \/ type = "corpus" /\ work \in Corpora
               \/ type = "cypher" /\ work \in Scripts
        PROVE  \E job \in Job :
                  /\ Submit(job) /\ job.children = <<>> /\ job.status = "queued"
                  /\ job.type = "unstructured" => job.owns
                  /\ SavedInKind(store, store')
    <2>1. PICK job : job = NewJob(type, path, work, owns)
      OBVIOUS
    <2>2. job \in Job
      BY <1>2, <2>1, NewJobsAreSound DEF Sound
    <2>3. /\ job.children = <<>> /\ job.status = "queued"
          /\ job.type = "unstructured" => job.owns
      BY <1>2, <2>1 DEF NewJob
    <2>4. FreshId \in JobIds /\ store' = Save(store, FreshId, job)
      BY <1>2, <2>1 DEF Submit
    <2>5. SavedInKind(store, store')
      BY <1>1, <2>2, <2>3, <2>4, NewJobsAreInKind
    <2> QED
      BY <1>2, <2>1, <2>2, <2>3, <2>5
  <1>3. FreshId \in JobIds => <<"temp", FreshId>> \in TempPaths
    BY DEF TempPaths
  <1>4. \A f \in Uploads : f \in Files
    BY InputsAssumption
  <1>5. CASE \E f \in Uploads : SubmitUnstructured(f)
    BY <1>2, <1>3, <1>4, <1>5 DEF SubmitUnstructured, Submit
  <1>6. CASE \E script \in Scripts : SubmitCypher(script)
    BY <1>2, <1>3, <1>6 DEF SubmitCypher, Submit
  <1>7. CASE \E files \in Corpora : SubmitCorpus(files)
    BY <1>2, <1>7 DEF SubmitCorpus, Submit
  <1> QED
    BY <1>5, <1>6, <1>7

\* Every step keeps what is known of the children.
LEMMA StepsKeepChildren ==
  ASSUME DoneInvariant, ChildrenInvariant, [Next]_vars
  PROVE  ChildrenInvariant'
  <1>1. CASE \/ \E f \in Uploads : SubmitUnstructured(f)
             \/ \E script \in Scripts : SubmitCypher(script)
             \/ \E files \in Corpora : SubmitCorpus(files)
    <2>1. runs' = runs /\ SavedInKind(store, store')
      BY <1>1, SubmissionsAreInKind DEF Submit
    <2> QED
      BY <2>1, MovingKeepsChildren
  <1>2. ASSUME NEW j \in JobIds, Dispatch(j) \/ Dequeue(j) \/ WorkerDies(j) \/ Redeliver(j)
        PROVE  ChildrenInvariant'
    BY <1>2, DispatchersStartAfresh, MovingKeepsChildren
  <1>3. ASSUME NEW j \in JobIds, NEW p \in Processes, RunStep(j, p) \/ ProcessingFails(j, p)
        PROVE  ChildrenInvariant'
    BY <1>3, BeginKeepsChildren, AcceptanceKeepsChildren, InliningKeepsChildren, RunsKeepChildren
  <1>4. ASSUME NEW j \in JobIds, NEW p \in Processes, RbacSchemaFails(j, p)
        PROVE  ChildrenInvariant'
    BY <1>4, RbacFailureKeepsChildren
  <1>5. CASE UNCHANGED vars
    <2>1. runs' = runs /\ store' = store
      BY <1>5 DEF vars
    <2> QED
      BY <2>1, MovingKeepsChildren
  <1> QED
    BY <1>1, <1>2, <1>3, <1>4, <1>5, RestartsKeepChildren DEF Next

\* The children that a record names, and those its executions know of, are
\* jobs of their own, whichever record is saved and whatever restarts.
LEMMA ChildrenInvariance == Spec => []ChildrenInvariant
  <1>1. Init => ChildrenInvariant
    <2>1. ASSUME Init PROVE ChildrenInvariant
      <3>1. \A k \in JobIds : Get(store, k) = NoJob
        BY <2>1 DEF Init, EmptyStore, Get
      <3>2. \A j \in JobIds, p \in Processes : ~Past(runs[<<j, p>>])
        BY <2>1 DEF Init, Past, Idle
      <3> QED
        BY <3>1, <3>2 DEF ChildrenInvariant, NamesChildren, KnowsChildren
    <2> QED
      BY <2>1
  <1>2. DoneInvariant /\ ChildrenInvariant /\ [Next]_vars => ChildrenInvariant'
    BY StepsKeepChildren
  <1> QED
    BY <1>1, <1>2, DoneInvariance, PTL DEF Spec

----------------------------------------------------------------------------
(* As long as nothing fails, a job is in one place at a time. *)

\* The places of a job: with the request that stored it, with RQ, executed by
\* a process, or with the corpus job that stored it and has not passed it on.
Requested(j) == j \in undispatched
Queued(j) == rq[j].state = "queued"
Executed(j, p) == runs[<<j, p>>] # Idle
Offered(j, q, p) == runs[<<q, p>>].at = "enqueue" /\ runs[<<q, p>>].child = j

Nowhere(j) ==
    /\ ~Requested(j) /\ ~Queued(j)
    /\ \A p \in Processes : ~Executed(j, p)
    /\ \A q \in JobIds, p \in Processes : ~Offered(j, q, p)

Once(j) ==
    /\ Requested(j) => ~Queued(j)
    /\ \A p \in Processes : Executed(j, p) =>
            /\ ~Requested(j) /\ ~Queued(j)
            /\ \A r \in Processes : Executed(j, r) => r = p
    /\ \A q \in JobIds, p \in Processes : Offered(j, q, p) =>
            /\ ~Requested(j) /\ ~Queued(j)
            /\ \A r \in Processes : ~Executed(j, r)
            /\ \A s \in JobIds, r \in Processes : Offered(j, s, r) => s = q /\ r = p

\* There is no such job yet, or it has a final record.
Settled(j) == j > created \/ (Get(store, j) # NoJob /\ Get(store, j).status \in Final)

QueueOK == rq \in [JobIds -> [state : RQState, tries : Nat]]

OnceInvariant ==
    faults = 0 => QueueOK /\ \A j \in JobIds : Once(j) /\ (Settled(j) => Nowhere(j))

\* The job comes to no new place.
StaysPut(j) ==
    /\ Requested(j)' => Requested(j)
    /\ Queued(j)' => Queued(j)
    /\ \A p \in Processes : Executed(j, p)' => Executed(j, p)
    /\ \A q \in JobIds, p \in Processes : Offered(j, q, p)' => Offered(j, q, p)

LEMMA StayingIsOnce ==
  ASSUME NEW j \in JobIds, StaysPut(j)
  PROVE  (Once(j) => Once(j)') /\ (Nowhere(j) => Nowhere(j)')
  <1> HIDE DEF Requested, Queued, Executed, Offered
  <1>1. Once(j) => Once(j)'
    BY DEF StaysPut, Once
  <1>2. Nowhere(j) => Nowhere(j)'
    BY DEF StaysPut, Nowhere
  <1> QED
    BY <1>1, <1>2

\* At most one job goes from its place to another one; none settles that is
\* somewhere.
LEMMA OneJobMoves ==
  ASSUME OnceInvariant, faults = 0, QueueOK', NEW c,
         \A k \in JobIds : k # c => StaysPut(k) /\ (Settled(k)' => Settled(k) \/ Nowhere(k)'),
         c \in JobIds => Once(c)' /\ ~Settled(c)'
  PROVE  OnceInvariant'
  <1>1. ASSUME NEW k \in JobIds PROVE Once(k)' /\ (Settled(k)' => Nowhere(k)')
    <2>1. Once(k) /\ (Settled(k) => Nowhere(k))
      BY DEF OnceInvariant
    <2>2. CASE k = c
      BY <2>2
    <2>3. CASE k # c
      BY <2>1, <2>3, StayingIsOnce
    <2> QED
      BY <2>2, <2>3
  <1> QED
    BY <1>1 DEF OnceInvariant

\* No record becomes final by a save of another status.
LEMMA SavesDoNotSettle ==
  ASSUME RecordsTruthful, created' = created,
         \/ store' = store
         \/ \E id \in JobIds, job \in Job :
                store' = Save(store, id, job) /\ job.status \notin Final
  PROVE  \A k \in JobIds : Settled(k)' => Settled(k)
  <1>1. CASE store' = store
    BY <1>1 DEF Settled
  <1>2. ASSUME NEW id \in JobIds, NEW job \in Job, store' = Save(store, id, job),
               job.status \notin Final
        PROVE  \A k \in JobIds : Settled(k)' => Settled(k)
    <2>1. /\ Get(store, id)' = job /\ \A k \in JobIds \ {id} : Get(store, k)' = Get(store, k)
      BY <1>2, SaveIsOneRecord DEF RecordsTruthful
    <2> QED
      BY <1>2, <2>1 DEF Settled
  <1> QED
    BY <1>1, <1>2

\* A save of a new record: it is not final.
LEMMA NewJobsAreNotSettled ==
  ASSUME RecordsTruthful, NEW n \in JobIds, n = FreshId, created' = n,
         NEW job \in Job, job.status = "queued", store' = Save(store, n, job)
  PROVE  ~Settled(n)' /\ \A k \in JobIds : k # n => (Settled(k)' => Settled(k))
  <1>1. Get(store, n)' = job /\ \A k \in JobIds \ {n} : Get(store, k)' = Get(store, k)
    BY SaveIsOneRecord DEF RecordsTruthful
  <1>2. created \in Nat /\ n = created + 1 /\ created' = n
    BY DEF RecordsTruthful, FreshId
  <1>3. ~Settled(n)'
    BY <1>1, <1>2 DEF Settled, Final
  <1>4. ASSUME NEW k \in JobIds, k # n, Settled(k)' PROVE Settled(k)
    <2>1. Get(store, k)' = Get(store, k) /\ k \in Nat
      BY <1>1, <1>4, IdsAreNumbers
    <2>2. k > created' => k > created
      BY <1>2, <2>1
    <2> QED
      BY <1>4, <2>1, <2>2 DEF Settled
  <1> QED
    BY <1>3, <1>4

\* One execution goes on without offering a child: nothing else moves, except
\* for a child it hands to RQ.
LEMMA OneRunGoesOn ==
  ASSUME DoneInvariant, OnceInvariant, faults = 0, NEW j \in JobIds, NEW p \in Processes,
         runs[<<j, p>>] # Idle, NEW y, y.at # "enqueue", runs' = [runs EXCEPT ![<<j, p>>] = y],
         undispatched' = undispatched,
         \A k \in JobIds : Settled(k)' => Settled(k) \/ Nowhere(k)',
         NEW c, c \in JobIds => ~Settled(c)', QueueOK',
         \/ \A k \in JobIds : Queued(k)' => Queued(k)
         \/ /\ runs[<<j, p>>].at = "enqueue" /\ runs[<<j, p>>].child = c
            /\ \A k \in JobIds : k # c => (Queued(k)' => Queued(k))
  PROVE  OnceInvariant'
  <1>1. DOMAIN runs = JobIds \X Processes
    BY DEF DoneInvariant, RunsOnTask
  <1>2. ASSUME NEW k \in JobIds, NEW q \in Processes
        PROVE  runs'[<<k, q>>] = IF k = j /\ q = p THEN y ELSE runs[<<k, q>>]
    BY <1>1
  <1>3. ASSUME NEW k \in JobIds
        PROVE  /\ Requested(k)' => Requested(k)
               /\ \A q \in Processes : Executed(k, q)' => Executed(k, q)
               /\ \A s \in JobIds, q \in Processes : Offered(k, s, q)' =>
                    Offered(k, s, q) /\ (s # j \/ q # p)
    BY <1>2 DEF Requested, Executed, Offered
  <1>4. CASE \A k \in JobIds : Queued(k)' => Queued(k)
    <2>1. \A k \in JobIds : StaysPut(k)
      BY <1>3, <1>4 DEF StaysPut
    <2>2. PICK none : none \notin JobIds
      BY IdsAreNumbers
    <2> QED
      BY <2>1, <2>2, OneJobMoves
  <1>5. CASE /\ runs[<<j, p>>].at = "enqueue" /\ runs[<<j, p>>].child = c
             /\ \A k \in JobIds : k # c => (Queued(k)' => Queued(k))
    <2>1. \A k \in JobIds : k # c => StaysPut(k)
      BY <1>3, <1>5 DEF StaysPut
    <2>2. ASSUME c \in JobIds PROVE Once(c)'
      <3>1. Offered(c, j, p) /\ Once(c)
        BY <1>5, <2>2 DEF Offered, OnceInvariant
      <3>2. /\ ~Requested(c) /\ \A r \in Processes : ~Executed(c, r)
            /\ \A s \in JobIds, r \in Processes : Offered(c, s, r) => s = j /\ r = p
        BY <3>1 DEF Once
      <3>3. /\ ~Requested(c)' /\ \A r \in Processes : ~Executed(c, r)'
            /\ \A s \in JobIds, r \in Processes : ~Offered(c, s, r)'
        BY <1>3, <2>2, <3>2
      <3> QED
        BY <3>3 DEF Once
    <2> QED
      BY <2>1, <2>2, OneJobMoves
  <1> QED
    BY <1>4, <1>5

\* A job is submitted.
LEMMA SubmissionsAreOnce ==
  ASSUME DoneInvariant, OnceInvariant, faults = 0, NEW job \in Job, Submit(job),
         job.status = "queued"
  PROVE  OnceInvariant'
  <1>1. RecordsTruthful /\ QueueOK /\ created \in Nat
    BY DEF DoneInvariant, OnceInvariant, RecordsTruthful
  <1>2. PICK n \in JobIds : n = FreshId
    BY DEF Submit
  <1>3. /\ created' = n /\ store' = Save(store, n, job)
        /\ undispatched' = undispatched \cup {n} /\ UNCHANGED <<rq, runs>>
    BY <1>2 DEF Submit
  <1>4. ~Settled(n)' /\ \A k \in JobIds : k # n => (Settled(k)' => Settled(k))
    BY <1>1, <1>2, <1>3, NewJobsAreNotSettled
  <1>5. Nowhere(n)
    BY <1>1, <1>2 DEF OnceInvariant, Settled, FreshId
  <1>6. ASSUME NEW k \in JobIds
        PROVE  /\ Queued(k)' <=> Queued(k)
               /\ \A p \in Processes : Executed(k, p)' <=> Executed(k, p)
               /\ \A q \in JobIds, p \in Processes : Offered(k, q, p)' <=> Offered(k, q, p)
               /\ k # n => (Requested(k)' <=> Requested(k))
    BY <1>3 DEF Queued, Executed, Offered, Requested
  <1>7. \A k \in JobIds : k # n => StaysPut(k)
    BY <1>6 DEF StaysPut
  <1>8. Once(n)'
    BY <1>5, <1>6 DEF Nowhere, Once
  <1>9. QueueOK'
    BY <1>1, <1>3 DEF QueueOK
  <1> QED
    BY <1>4, <1>7, <1>8, <1>9, OneJobMoves

\* A job is handed to RQ or to the API process.
LEMMA DispatchIsOnce ==
  ASSUME DoneInvariant, OnceInvariant, faults = 0, faults' = 0, NEW j \in JobIds, Dispatch(j)
  PROVE  OnceInvariant'
  <1>1. QueueOK /\ Once(j) /\ DOMAIN runs = JobIds \X Processes /\ API \in Processes
    BY DEF DoneInvariant, RunsOnTask, OnceInvariant, Processes
  <1>2. ~Fault
    BY DEF Fault
  <1>3. /\ j \in undispatched /\ undispatched' = undispatched \ {j}
        /\ UNCHANGED <<store, created>>
        /\ \/ rq' = Enqueued(j) /\ runs' = runs
           \/ rq' = rq /\ runs' = [runs EXCEPT ![<<j, API>>] = Starting]
    BY <1>2 DEF Dispatch
  <1>4. /\ ~Queued(j) /\ \A p \in Processes : ~Executed(j, p)
        /\ \A q \in JobIds, p \in Processes : ~Offered(j, q, p)
    BY <1>1, <1>3 DEF Once, Requested
  <1>5. Starting.at # "enqueue"
    BY DEF Starting, Started
  <1>6. ASSUME NEW k \in JobIds
        PROVE  /\ k # j => (Queued(k)' => Queued(k))
               /\ \A p \in Processes : k # j => (Executed(k, p)' => Executed(k, p))
               /\ \A q \in JobIds, p \in Processes : Offered(k, q, p)' => Offered(k, q, p)
               /\ Requested(k)' => Requested(k) /\ k # j
    <2>1. k # j => rq'[k] = rq[k]
      BY <1>1, <1>3 DEF QueueOK, Enqueued
    <2>2. \A q \in JobIds, p \in Processes :
            runs'[<<q, p>>] = runs[<<q, p>>] \/ (q = j /\ runs'[<<q, p>>] = Starting)
      BY <1>1, <1>3
    <2> QED
      BY <1>3, <1>5, <2>1, <2>2 DEF Queued, Executed, Offered, Requested
  <1>7. \A k \in JobIds : k # j => StaysPut(k)
    BY <1>6 DEF StaysPut
  <1>8. Once(j)'
    <2>1. CASE runs' = runs
      <3>1. \A p \in Processes : ~Executed(j, p)'
        BY <1>4, <2>1 DEF Executed
      <3> QED
        BY <1>4, <1>6, <3>1 DEF Once
    <2>2. CASE rq' = rq /\ runs' = [runs EXCEPT ![<<j, API>>] = Starting]
      <3>1. ~Queued(j)' /\ \A p \in Processes : Executed(j, p)' => p = API
        BY <1>1, <1>4, <2>2 DEF Executed, Queued
      <3> QED
        BY <1>4, <1>6, <3>1 DEF Once
    <2> QED
      BY <1>3, <2>1, <2>2
  <1>9. \A k \in JobIds : Settled(k)' => Settled(k)
    BY <1>3 DEF Settled
  <1>10. ~Settled(j)
    BY <1>3 DEF OnceInvariant, Nowhere, Requested
  <1>11. QueueOK'
    BY <1>1, <1>3 DEF QueueOK, Enqueued, RQState
  <1> QED
    BY <1>7, <1>8, <1>9, <1>10, <1>11, OneJobMoves

\* A worker takes the job from RQ, or does not find it.
LEMMA DequeueIsOnce ==
  ASSUME DoneInvariant, OnceInvariant, faults = 0, NEW j \in JobIds, Dequeue(j)
  PROVE  OnceInvariant'
  <1>1. QueueOK /\ Once(j) /\ DOMAIN runs = JobIds \X Processes /\ j \in Processes
    BY DEF DoneInvariant, RunsOnTask, OnceInvariant, Processes
  <1>2. rq[j].state = "queued" /\ UNCHANGED <<store, created, undispatched>>
    BY DEF Dequeue, WorkerDequeues, WorkerFindsNoJob
  <1>3. \A k \in JobIds : Settled(k)' => Settled(k)
    BY <1>2 DEF Settled
  <1>4. ~Settled(j)
    BY <1>2 DEF OnceInvariant, Nowhere, Queued
  <1>5. CASE WorkerDequeues(j)
    <2>1. /\ rq' = [rq EXCEPT ![j].state = "running"]
          /\ runs' = [runs EXCEPT ![<<j, j>>] = Starting]
      BY <1>5 DEF WorkerDequeues
    <2>2. QueueOK' /\ ~Queued(j)' /\ \A k \in JobIds : k # j => (Queued(k)' => Queued(k))
      BY <1>1, <2>1 DEF QueueOK, Queued, RQState
    <2>3. Starting.at # "enqueue"
      BY DEF Starting, Started
    <2>4. \A q \in JobIds, p \in Processes :
            runs'[<<q, p>>] = IF q = j /\ p = j THEN Starting ELSE runs[<<q, p>>]
      BY <1>1, <2>1
    <2>5. ASSUME NEW k \in JobIds
          PROVE  /\ \A p \in Processes : k # j \/ p # j => (Executed(k, p)' => Executed(k, p))
                 /\ \A q \in JobIds, p \in Processes : Offered(k, q, p)' => Offered(k, q, p)
                 /\ Requested(k)' => Requested(k)
      BY <1>2, <2>3, <2>4 DEF Executed, Offered, Requested
    <2>6. \A k \in JobIds : k # j => StaysPut(k)
      BY <2>2, <2>5 DEF StaysPut
    <2>7. Once(j)'
      <3>1. /\ ~Requested(j) /\ \A p \in Processes : ~Executed(j, p)
            /\ \A q \in JobIds, p \in Processes : ~Offered(j, q, p)
        BY <1>1, <1>2 DEF Once, Queued
      <3>2. \A p \in Processes : Executed(j, p)' => p = j
        BY <2>5, <3>1
      <3> QED
        BY <2>2, <2>5, <3>1, <3>2 DEF Once
    <2> QED
      BY <1>3, <1>4, <2>2, <2>6, <2>7, OneJobMoves
  <1>6. CASE WorkerFindsNoJob(j)
    <2>1. rq' = Requeued(j) /\ runs' = runs
      BY <1>6 DEF WorkerFindsNoJob
    <2>2. QueueOK' /\ \A k \in JobIds : Queued(k)' => Queued(k)
      <3>1. /\ rq'[j] \in [state : RQState, tries : Nat]
            /\ \A k \in JobIds \ {j} : rq'[k] = rq[k]
        BY <1>1, <2>1 DEF QueueOK, Requeued, RQState
      <3>2. rq' \in [JobIds -> [state : RQState, tries : Nat]]
        BY <1>1, <2>1, <3>1 DEF QueueOK, Requeued
      <3> QED
        BY <1>2, <3>1, <3>2 DEF QueueOK, Queued
    <2>3. \A k \in JobIds : StaysPut(k)
      BY <1>2, <2>1, <2>2 DEF StaysPut, Executed, Offered, Requested
    <2>4. PICK none : none \notin JobIds
      BY IdsAreNumbers
    <2> QED
      BY <1>3, <2>2, <2>3, <2>4, OneJobMoves
  <1> QED
    BY <1>5, <1>6 DEF Dequeue

\* What RQ makes of a job that ended, or is handed to it.
LEMMA QueueMovesAreOK ==
  ASSUME QueueOK, NEW j \in JobIds, NEW p, NEW c
  PROVE  /\ rq' = Returned(j, p) => QueueOK' /\ \A k \in JobIds : Queued(k)' => Queued(k)
         /\ rq' = Enqueued(c) => QueueOK' /\ \A k \in JobIds : k # c => (Queued(k)' => Queued(k))
         /\ rq' = rq => QueueOK' /\ \A k \in JobIds : Queued(k)' => Queued(k)
  <1>1. ASSUME rq' = Returned(j, p) PROVE QueueOK' /\ \A k \in JobIds : Queued(k)' => Queued(k)
    BY <1>1 DEF QueueOK, Returned, Queued, RQState
  <1>2. ASSUME rq' = Enqueued(c)
        PROVE  QueueOK' /\ \A k \in JobIds : k # c => (Queued(k)' => Queued(k))
    <2> PICK r : r = [state |-> "queued", tries |-> 0]
      OBVIOUS
    <2>1. r \in [state : RQState, tries : Nat]
      BY DEF RQState
    <2>2. rq' = [rq EXCEPT ![c] = r]
      BY <1>2 DEF Enqueued
    <2>3. QueueOK'
      BY <2>1, <2>2 DEF QueueOK
    <2>4. \A k \in JobIds : k # c => rq'[k] = rq[k]
      BY <2>2 DEF QueueOK
    <2> QED
      BY <2>3, <2>4 DEF Queued
  <1>3. ASSUME rq' = rq PROVE QueueOK' /\ \A k \in JobIds : Queued(k)' => Queued(k)
    BY <1>3 DEF QueueOK, Queued
  <1> QED
    BY <1>1, <1>2, <1>3

\* An execution begins its job.
LEMMA BeginsAreOnce ==
  ASSUME DoneInvariant, OnceInvariant, faults = 0, NEW j \in JobIds, NEW p \in Processes,
         BeginJob(j, p), NamesChildren(store)
  PROVE  OnceInvariant'
  <1> PICK job : job = [Get(store, j) EXCEPT !.status = "validating"]
    OBVIOUS
  <1> PICK y : y = Started(job, FirstStep[job.type])
    OBVIOUS
  <1>1. /\ runs[<<j, p>>].at = "start" /\ Get(store, j) # NoJob /\ store' = Save(store, j, job)
        /\ runs' = [runs EXCEPT ![<<j, p>>] = y] /\ UNCHANGED <<created, undispatched, rq>>
    BY DEF BeginJob, At
  <1>2. RecordsTruthful /\ QueueOK
    BY DEF DoneInvariant, OnceInvariant
  <1>3. job \in Job /\ job.status = "validating"
    BY <1>1, <1>2, BeginningIsInKind
  <1>4. y.at # "enqueue"
    <2>1. job.type \in {"unstructured", "corpus", "cypher"}
      BY <1>3 DEF Job
    <2> QED
      BY <2>1 DEF Started, FirstStep
  <1>5. \A k \in JobIds : Settled(k)' => Settled(k)
    BY <1>1, <1>2, <1>3, SavesDoNotSettle DEF Final
  <1>6. QueueOK' /\ \A k \in JobIds : Queued(k)' => Queued(k)
    BY <1>1, <1>2, QueueMovesAreOK
  <1>7. runs[<<j, p>>] # Idle
    BY <1>1 DEF Idle
  <1>8. PICK none : none \notin JobIds
    BY IdsAreNumbers
  <1> QED
    BY <1>1, <1>4, <1>5, <1>6, <1>7, <1>8, OneRunGoesOn

\* An execution ends: its job is nowhere any more.
LEMMA EndsAreOnce ==
  ASSUME DoneInvariant, OnceInvariant, faults = 0, NEW j \in JobIds, NEW p \in Processes,
         Past(runs[<<j, p>>]), Ends(j, p), UNCHANGED <<created, undispatched>>
  PROVE  OnceInvariant'
  <1>1. PICK status \in Final : store' = Save(store, j, [Local(j, p) EXCEPT !.status = status])
    BY DEF Ends
  <1>2. runs' = [runs EXCEPT ![<<j, p>>] = Idle] /\ rq' = Returned(j, p)
    BY DEF Ends
  <1> PICK job : job = [Local(j, p) EXCEPT !.status = status]
    OBVIOUS
  <1>3. RecordsTruthful /\ QueueOK /\ Once(j) /\ DOMAIN runs = JobIds \X Processes
    BY DEF DoneInvariant, RunsOnTask, OnceInvariant
  <1>4. job \in Job
    BY <1>1, RunsHaveFields, StatusIsNoTask DEF Past, Sound
  <1>5. \A k \in JobIds \ {j} : Get(store, k)' = Get(store, k)
    BY <1>1, <1>3, <1>4, SaveIsOneRecord DEF RecordsTruthful
  <1>6. QueueOK' /\ \A k \in JobIds : Queued(k)' => Queued(k)
    BY <1>2, <1>3, QueueMovesAreOK
  <1>7. runs[<<j, p>>] # Idle /\ Executed(j, p)
    BY DEF Past, Idle, Executed
  <1>8. Nowhere(j)'
    <2>1. /\ ~Requested(j) /\ ~Queued(j) /\ \A r \in Processes : Executed(j, r) => r = p
          /\ \A q \in JobIds, r \in Processes : ~Offered(j, q, r)
      BY <1>3, <1>7 DEF Once
    <2>2. ~Requested(j)' /\ ~Queued(j)'
      BY <1>6, <2>1 DEF Requested
    <2>3. \A r \in Processes : ~Executed(j, r)'
      BY <1>2, <1>3, <2>1 DEF Executed
    <2>4. \A q \in JobIds, r \in Processes : Offered(j, q, r)' => Offered(j, q, r)
      BY <1>2, <1>3 DEF Offered, Idle
    <2> QED
      BY <2>1, <2>2, <2>3, <2>4 DEF Nowhere
  <1>9. \A k \in JobIds : Settled(k)' => Settled(k) \/ Nowhere(k)'
    BY <1>5, <1>8 DEF Settled
  <1>10. PICK none : none \notin JobIds
    BY IdsAreNumbers
  <1>11. Idle.at # "enqueue"
    BY DEF Idle
  <1> QED
    BY <1>2, <1>6, <1>7, <1>9, <1>10, <1>11, OneRunGoesOn

\* An execution takes a step of its task, and may hand a child to RQ.
LEMMA ProgressIsOnce ==
  ASSUME DoneInvariant, OnceInvariant, faults = 0, NEW j \in JobIds, NEW p \in Processes,
         Past(runs[<<j, p>>]), GoesOn(j, p), UNCHANGED <<created, undispatched>>
  PROVE  OnceInvariant'
  <1>1. PICK y \in RunRecord :
          /\ y.job = Local(j, p) /\ y.at \notin {"idle", "start", "enqueue"}
          /\ runs' = [runs EXCEPT ![<<j, p>>] = y]
          /\ store' \in {store, Save(store, j, Local(j, p))}
          /\ \/ rq' = rq
             \/ At(j, p, "enqueue") /\ rq' = Enqueued(runs[<<j, p>>].child)
    BY DEF GoesOn
  <1> PICK c : c = runs[<<j, p>>].child
    OBVIOUS
  <1>2. RecordsTruthful /\ QueueOK
    BY DEF DoneInvariant, OnceInvariant
  <1>3. Reads(j, runs[<<j, p>>]) /\ Local(j, p) = runs[<<j, p>>].job
    BY ReadersRead DEF DoneInvariant, Past
  <1>4. Local(j, p) \in Job /\ Local(j, p).status \notin Final
    BY <1>3 DEF Reads, Sound, Final
  <1>5. \A k \in JobIds : Settled(k)' => Settled(k)
    BY <1>1, <1>2, <1>4, SavesDoNotSettle
  <1>6. runs[<<j, p>>] # Idle
    BY DEF Past, Idle
  <1>7. CASE rq' = rq
    <2>1. QueueOK' /\ \A k \in JobIds : Queued(k)' => Queued(k)
      BY <1>2, <1>7, QueueMovesAreOK
    <2>2. PICK none : none \notin JobIds
      BY IdsAreNumbers
    <2> QED
      BY <1>1, <1>5, <1>6, <2>1, <2>2, OneRunGoesOn
  <1>8. CASE At(j, p, "enqueue") /\ rq' = Enqueued(c)
    <2>1. QueueOK' /\ \A k \in JobIds : k # c => (Queued(k)' => Queued(k))
      BY <1>2, <1>8, QueueMovesAreOK
    <2>2. runs[<<j, p>>].at = "enqueue"
      BY <1>8 DEF At
    <2>3. c \in JobIds => ~Settled(c)'
      <3>1. Offered(c, j, p)
        BY <2>2 DEF Offered
      <3>2. c \in JobIds => ~Settled(c)
        BY <3>1 DEF OnceInvariant, Nowhere
      <3> QED
        BY <1>5, <3>2
    <2> QED
      BY <1>1, <1>5, <1>6, <2>1, <2>2, <2>3, OneRunGoesOn
  <1> QED
    BY <1>1, <1>7, <1>8

\* A file is accepted: its child is with the corpus job.
LEMMA AcceptanceIsOnce ==
  ASSUME DoneInvariant, OnceInvariant, faults = 0, NEW j \in JobIds, NEW p \in Processes,
         AcceptFile(j, p)
  PROVE  OnceInvariant'
  <1>1. PICK y : \E job \in Job : AcceptedAs(j, p, job, y)
    BY AcceptanceInDetail
  <1>2. PICK job \in Job : AcceptedAs(j, p, job, y)
    BY <1>1
  <1>3. PICK n \in JobIds : n = FreshId
    BY <1>2 DEF AcceptedAs
  <1>4. /\ store' = Save(store, n, job) /\ job.status = "queued"
        /\ runs[<<j, p>>].at = "file" /\ runs' = [runs EXCEPT ![<<j, p>>] = y]
        /\ y.at = "enqueue" /\ y.child = n
        /\ created' = n /\ UNCHANGED <<undispatched, rq>>
    BY <1>2, <1>3 DEF AcceptedAs, AcceptFile
  <1>5. /\ RecordsTruthful /\ QueueOK /\ DOMAIN runs = JobIds \X Processes
        /\ created \in Nat /\ n = created + 1
    BY <1>3 DEF DoneInvariant, RunsOnTask, OnceInvariant, RecordsTruthful, FreshId
  <1>6. ~Settled(n)' /\ \A k \in JobIds : k # n => (Settled(k)' => Settled(k))
    BY <1>3, <1>4, <1>5, NewJobsAreNotSettled
  <1>7. Nowhere(n)
    BY <1>5 DEF OnceInvariant, Settled
  <1>8. \A q \in JobIds, r \in Processes :
            runs'[<<q, r>>] = IF q = j /\ r = p THEN y ELSE runs[<<q, r>>]
    BY <1>4, <1>5
  <1>9. Executed(j, p)
    BY <1>4 DEF Executed, Idle
  <1>10. ASSUME NEW k \in JobIds
         PROVE  /\ Requested(k)' => Requested(k)
                /\ Queued(k)' => Queued(k)
                /\ \A r \in Processes : Executed(k, r)' => Executed(k, r)
                /\ \A q \in JobIds, r \in Processes :
                        Offered(k, q, r)' => Offered(k, q, r) \/ (k = n /\ q = j /\ r = p)
    BY <1>4, <1>8, <1>9 DEF Requested, Queued, Executed, Offered
  <1>11. \A k \in JobIds : k # n => StaysPut(k)
    BY <1>10 DEF StaysPut
  <1>12. Once(n)'
    <2>1. /\ ~Requested(n)' /\ ~Queued(n)' /\ \A r \in Processes : ~Executed(n, r)'
          /\ \A q \in JobIds, r \in Processes : Offered(n, q, r)' => q = j /\ r = p
      BY <1>7, <1>10 DEF Nowhere
    <2> QED
      BY <2>1 DEF Once
  <1>13. QueueOK'
    BY <1>4, <1>5 DEF QueueOK
  <1> QED
    BY <1>6, <1>11, <1>12, <1>13, OneJobMoves

\* A child is run inline: it is with the process, and not with its corpus job.
LEMMA InliningIsOnce ==
  ASSUME DoneInvariant, OnceInvariant, faults = 0, faults' = 0,
         NEW j \in JobIds, NEW p \in Processes, RunChildInline(j, p)
  PROVE  OnceInvariant'
  <1> PICK x, y : x = runs[<<j, p>>] /\ y = [x EXCEPT !.at = "inline"]
    OBVIOUS
  <1> PICK c : c = x.child
    OBVIOUS
  <1>1. ~Fault
    BY DEF Fault
  <1>2. /\ x.at = "enqueue" /\ UNCHANGED <<store, created, undispatched, rq>>
        /\ runs' = [runs EXCEPT ![<<j, p>>].at = "inline", ![<<c, p>>] = Starting]
    BY <1>1 DEF RunChildInline, At
  <1>3. QueueOK /\ DOMAIN runs = JobIds \X Processes
    BY DEF DoneInvariant, RunsOnTask, OnceInvariant
  <1>4. x \in RunRecord
    BY <1>2, RunsHaveFields
  <1>5. y.at = "inline" /\ Executed(j, p) /\ Starting.at # "enqueue"
    BY <1>2, <1>4 DEF RunRecord, Executed, Idle, Starting, Started
  <1>6. \A q \in JobIds, r \in Processes :
            runs'[<<q, r>>] = IF q = c /\ r = p THEN Starting
                              ELSE IF q = j /\ r = p THEN y ELSE runs[<<q, r>>]
    BY <1>2, <1>3
  <1>7. ASSUME NEW k \in JobIds
        PROVE  /\ Requested(k)' => Requested(k)
               /\ Queued(k)' => Queued(k)
               /\ \A r \in Processes : Executed(k, r)' => Executed(k, r) \/ (k = c /\ r = p)
               /\ \A q \in JobIds, r \in Processes :
                      Offered(k, q, r)' => Offered(k, q, r) /\ (q # j \/ r # p)
    <2>1. (Requested(k)' => Requested(k)) /\ (Queued(k)' => Queued(k))
      BY <1>2 DEF Requested, Queued
    <2>2. ASSUME NEW r \in Processes PROVE Executed(k, r)' => Executed(k, r) \/ (k = c /\ r = p)
      BY <1>5, <1>6 DEF Executed
    <2>3. ASSUME NEW q \in JobIds, NEW r \in Processes
          PROVE  Offered(k, q, r)' => Offered(k, q, r) /\ (q # j \/ r # p)
      BY <1>5, <1>6, ZenonT(60) DEF Offered
    <2> QED
      BY <2>1, <2>2, <2>3
  <1>8. \A k \in JobIds : k # c => StaysPut(k)
    BY <1>7 DEF StaysPut
  <1>9. ASSUME c \in JobIds PROVE Once(c)' /\ ~Settled(c)
    <2>1. Offered(c, j, p) /\ Once(c)
      BY <1>2, <1>9 DEF Offered, OnceInvariant
    <2>2. /\ ~Requested(c) /\ ~Queued(c) /\ \A r \in Processes : ~Executed(c, r)
          /\ \A s \in JobIds, r \in Processes : Offered(c, s, r) => s = j /\ r = p
      BY <2>1 DEF Once
    <2>3. /\ ~Requested(c)' /\ ~Queued(c)' /\ \A r \in Processes : Executed(c, r)' => r = p
          /\ \A s \in JobIds, r \in Processes : ~Offered(c, s, r)'
      BY <1>7, <1>9, <2>2
    <2>4. Once(c)'
      BY <2>3 DEF Once
    <2>5. ~Settled(c)
      BY <1>9, <2>1 DEF OnceInvariant, Nowhere
    <2> QED
      BY <2>4, <2>5
  <1>10. \A k : Settled(k)' <=> Settled(k)
    BY <1>2 DEF Settled
  <1>11. QueueOK'
    BY <1>2, <1>3 DEF QueueOK
  <1> QED
    BY <1>8, <1>9, <1>10, <1>11, OneJobMoves

\* What can happen without a failure.
Smooth ==
    \/ UNCHANGED vars
    \/ \E job \in Job :
          /\ Submit(job) /\ job.children = <<>> /\ job.status = "queued"
          /\ job.type = "unstructured" => job.owns
          /\ SavedInKind(store, store')
    \/ \E j \in JobIds :
          \/ Dispatch(j) \/ Dequeue(j)
          \/ \E p \in Processes :
                \/ BeginJob(j, p) \/ AcceptFile(j, p) \/ RunChildInline(j, p)
                \/ /\ Past(runs[<<j, p>>]) /\ (Ends(j, p) \/ GoesOn(j, p))
                   /\ UNCHANGED <<created, undispatched>>

LEMMA StepsAreSmooth ==
  ASSUME DoneInvariant, [Next]_vars, faults' = 0
  PROVE  faults = 0 /\ Smooth
  <1>1. faults \in Nat
    BY DEF DoneInvariant, RecordsTruthful
  <1>2. ~Fault
    BY <1>1 DEF Fault
  <1>3. CASE UNCHANGED vars
    BY <1>3 DEF vars, Smooth
  <1>4. CASE \/ \E f \in Uploads : SubmitUnstructured(f)
             \/ \E script \in Scripts : SubmitCypher(script)
             \/ \E files \in Corpora : SubmitCorpus(files)
    <2>1. \E job \in Job :
            /\ Submit(job) /\ job.children = <<>> /\ job.status = "queued"
            /\ job.type = "unstructured" => job.owns
            /\ SavedInKind(store, store')
      BY <1>4, SubmissionsAreInKind
    <2>2. faults' = faults
      BY <2>1 DEF Submit
    <2> QED
      BY <2>1, <2>2 DEF Smooth
  <1>5. ASSUME NEW j \in JobIds, Dispatch(j) \/ Dequeue(j) PROVE faults = 0 /\ Smooth
    <2>1. faults' = faults
      BY <1>2, <1>5 DEF Dispatch, Dequeue, WorkerDequeues, WorkerFindsNoJob
    <2> QED
      BY <1>5, <2>1 DEF Smooth
  <1>6. ASSUME NEW j \in JobIds, NEW p \in Processes, RunStep(j, p) PROVE faults = 0 /\ Smooth
    <2>1. faults' = faults
      BY <1>2, <1>6 DEF RunStep, BeginJob, FinishJob, ProcessUnstructured, RunStatement, EndScript,
         ScanCorpus, SkipFile, AcceptFile, EnqueueChild, RunChildInline, ResumeCorpus, EndCorpus
    <2>2. \/ BeginJob(j, p) \/ AcceptFile(j, p) \/ RunChildInline(j, p)
          \/ /\ Past(runs[<<j, p>>]) /\ (Ends(j, p) \/ GoesOn(j, p))
             /\ UNCHANGED <<created, undispatched>>
      BY <1>6, RunsEndOrGoOn
    <2> QED
      BY <2>1, <2>2 DEF Smooth
  <1>7. ASSUME NEW j \in JobIds, NEW p \in Processes,
               \/ RbacSchemaFails(j, p) \/ ProcessingFails(j, p)
               \/ WorkerDies(j) \/ Redeliver(j) \/ ApiRestarts
        PROVE  FALSE
    BY <1>2, <1>7 DEF RbacSchemaFails, ProcessingFails, WorkerDies, Redeliver, ApiRestarts
  <1>8. API \in Processes /\ (ApiRestarts => FALSE)
    BY <1>2 DEF Processes, ApiRestarts
  <1> QED
    BY <1>3, <1>4, <1>5, <1>6, <1>7, <1>8 DEF Next

\* As long as nothing fails, no step brings a job to two places.
LEMMA StepsAreOnce ==
  ASSUME DoneInvariant, ChildrenInvariant, OnceInvariant, [Next]_vars
  PROVE  OnceInvariant'
  <1>1. SUFFICES ASSUME faults' = 0 PROVE OnceInvariant'
    BY DEF OnceInvariant
  <1>2. faults = 0 /\ Smooth
    BY <1>1, StepsAreSmooth
  <1>3. CASE UNCHANGED vars
    <2>1. QueueOK' /\ \A k \in JobIds : StaysPut(k) /\ (Settled(k)' => Settled(k))
      BY <1>2, <1>3 DEF vars, OnceInvariant, QueueOK, StaysPut, Settled,
         Requested, Queued, Executed, Offered
    <2>2. PICK none : none \notin JobIds
      BY IdsAreNumbers
    <2> QED
      BY <1>2, <2>1, <2>2, OneJobMoves
  <1>4. ASSUME NEW job \in Job, Submit(job), job.status = "queued" PROVE OnceInvariant'
    BY <1>2, <1>4, SubmissionsAreOnce
  <1>5. ASSUME NEW j \in JobIds, Dispatch(j) \/ Dequeue(j) PROVE OnceInvariant'
    BY <1>1, <1>2, <1>5, DispatchIsOnce, DequeueIsOnce
  <1>6. ASSUME NEW j \in JobIds, NEW p \in Processes,
               BeginJob(j, p) \/ AcceptFile(j, p) \/ RunChildInline(j, p)
        PROVE  OnceInvariant'
    BY <1>1, <1>2, <1>6, BeginsAreOnce, AcceptanceIsOnce, InliningIsOnce DEF ChildrenInvariant
  <1>7. ASSUME NEW j \in JobIds, NEW p \in Processes, Past(runs[<<j, p>>]),
               Ends(j, p) \/ GoesOn(j, p), UNCHANGED <<created, undispatched>>
        PROVE  OnceInvariant'
    BY <1>2, <1>7, EndsAreOnce, ProgressIsOnce
  <1> QED
    BY <1>2, <1>3, <1>4, <1>5, <1>6, <1>7 DEF Smooth

\* A job that nothing has happened to is in one place at a time: with its
\* request, with RQ, with one process, or with its corpus job.
LEMMA OnceInvariance == Spec => []OnceInvariant
  <1>1. Init => OnceInvariant
    <2>1. ASSUME Init PROVE OnceInvariant
      <3>1. \A j \in JobIds : Get(store, j) = NoJob
        BY <2>1 DEF Init, EmptyStore, Get
      <3>2. QueueOK
        BY <2>1 DEF Init, QueueOK, RQState
      <3>3. \A j \in JobIds : Nowhere(j)
        BY <2>1 DEF Init, Nowhere, Requested, Queued, Executed, Offered, Idle
      <3> QED
        BY <3>2, <3>3 DEF OnceInvariant, Nowhere, Once
    <2> QED
      BY <2>1
  <1>2. DoneInvariant /\ ChildrenInvariant /\ OnceInvariant /\ [Next]_vars => OnceInvariant'
    BY StepsAreOnce
  <1> QED
    BY <1>1, <1>2, DoneInvariance, ChildrenInvariance, PTL DEF Spec

\* Without a failure, only a new job and one that a process executes is saved.
LEMMA OnlyExecutedAreSaved ==
  ASSUME DoneInvariant, ChildrenInvariant, Smooth
  PROVE  \/ store' = store
         \/ \E id \in JobIds, job \in Job :
                /\ store' = Save(store, id, job)
                /\ id = FreshId \/ \E p \in Processes : Executed(id, p)
  <1>1. CASE UNCHANGED vars
    BY <1>1 DEF vars
  <1>2. ASSUME NEW job \in Job, Submit(job)
        PROVE  FreshId \in JobIds /\ store' = Save(store, FreshId, job)
    BY <1>2 DEF Submit
  <1>3. ASSUME NEW j \in JobIds, Dispatch(j) \/ Dequeue(j) PROVE store' = store
    BY <1>3 DEF Dispatch, Dequeue, WorkerDequeues, WorkerFindsNoJob
  <1>4. ASSUME NEW j \in JobIds, NEW p \in Processes, BeginJob(j, p)
        PROVE  Executed(j, p) /\ \E job \in Job : store' = Save(store, j, job)
    <2>1. PICK job : job = [Get(store, j) EXCEPT !.status = "validating"]
      OBVIOUS
    <2>2. /\ Get(store, j) # NoJob /\ store' = Save(store, j, job) /\ runs[<<j, p>>].at = "start"
          /\ RecordsTruthful /\ NamesChildren(store)
      BY <1>4, <2>1 DEF BeginJob, At, DoneInvariant, ChildrenInvariant
    <2>3. job \in Job
      BY <2>1, <2>2, BeginningIsInKind
    <2> QED
      BY <2>2, <2>3 DEF Executed, Idle
  <1>5. ASSUME NEW j \in JobIds, NEW p \in Processes, AcceptFile(j, p)
        PROVE  FreshId \in JobIds /\ \E job \in Job : store' = Save(store, FreshId, job)
    BY <1>5, AcceptanceInDetail DEF AcceptedAs
  <1>6. ASSUME NEW j \in JobIds, NEW p \in Processes, RunChildInline(j, p) PROVE store' = store
    BY <1>6 DEF RunChildInline
  <1>7. ASSUME NEW j \in JobIds, NEW p \in Processes, Past(runs[<<j, p>>]), Ends(j, p) \/ GoesOn(j, p)
        PROVE  Executed(j, p) /\ (store' = store \/ \E job \in Job : store' = Save(store, j, job))
    <2>1. Executed(j, p)
      BY <1>7 DEF Executed, Past, Idle
    <2>2. /\ Local(j, p) \in Job
          /\ \A status \in Final : [Local(j, p) EXCEPT !.status = status] \in Job
      BY <1>7, RunsHaveFields, StatusIsNoTask DEF Past, Sound
    <2> QED
      BY <1>7, <2>1, <2>2 DEF Ends, GoesOn
  <1> QED
    BY <1>1, <1>2, <1>3, <1>4, <1>5, <1>6, <1>7 DEF Smooth

\* A client that has seen a job completed or failed sees the same record ever
\* after, as long as nothing fails: nobody runs the job again or saves an older
\* copy of its record (ingestion/jobs.py, ingestion/queue.py).
THEOREM FinalIsFinal == Spec => FinalRecordsStay
  <1>1. ASSUME DoneInvariant, ChildrenInvariant, OnceInvariant, [Next]_vars, faults' = 0,
               NEW j \in JobIds, Get(store, j) # NoJob, Get(store, j).status \in Final
        PROVE  Get(store, j)' = Get(store, j)
    <2>1. faults = 0 /\ Smooth
      BY <1>1, StepsAreSmooth
    <2>2. Nowhere(j)
      BY <1>1, <2>1 DEF OnceInvariant, Settled
    <2>3. j # FreshId
      BY <1>1, IdsAreNumbers DEF DoneInvariant, RecordsTruthful, FreshId
    <2>4. CASE store' = store
      BY <2>4 DEF Get
    <2>5. ASSUME NEW id \in JobIds, NEW job \in Job, store' = Save(store, id, job),
                 id = FreshId \/ \E p \in Processes : Executed(id, p)
          PROVE  Get(store, j)' = Get(store, j)
      <3>1. id # j
        BY <2>2, <2>3, <2>5 DEF Nowhere
      <3> QED
        BY <1>1, <2>5, <3>1, SaveIsOneRecord DEF DoneInvariant, RecordsTruthful
    <2> QED
      BY <1>1, <2>1, <2>4, <2>5, OnlyExecutedAreSaved
  <1>2. DoneInvariant /\ ChildrenInvariant /\ OnceInvariant /\ [Next]_vars =>
            [faults' = 0 => \A j \in JobIds :
                Get(store, j) # NoJob /\ Get(store, j).status \in Final =>
                    Get(store, j)' = Get(store, j)]_vars
    BY <1>1
  <1> QED
    BY <1>2, DoneInvariance, ChildrenInvariance, OnceInvariance, PTL DEF Spec, FinalRecordsStay

----------------------------------------------------------------------------
(* As long as nothing fails, every child is named. *)

\* A child is named by the record of job j, or will be: an execution that has
\* stored it saves what it knows before it ends.
Holds(j, k) ==
    \/ k \in ToSet(Get(store, j).children)
    \/ \E p \in Processes : Past(runs[<<j, p>>]) /\ k \in ToSet(runs[<<j, p>>].job.children)

NamedInvariant ==
    faults = 0 =>
        /\ \A k \in ChildrenIn(store) : \E j \in JobIds :
                Get(store, j) # NoJob /\ Get(store, j).type = "corpus" /\ Holds(j, k)
        /\ \A j \in JobIds, p \in Processes : Past(runs[<<j, p>>]) =>
                ToSet(Get(store, j).children) \subseteq ToSet(runs[<<j, p>>].job.children)

\* What a job holds it goes on holding, and no child comes from elsewhere.
LEMMA HoldingStays ==
  ASSUME NamedInvariant, faults = 0, KindsLast(store, store'),
         \A j \in JobIds : \A k : Get(store, j) # NoJob /\ Holds(j, k) => Holds(j, k)',
         \A k \in ChildrenIn(store') : \/ k \in ChildrenIn(store)
                                       \/ \E j \in JobIds : /\ Get(store, j) # NoJob
                                                            /\ Get(store, j).type = "corpus"
                                                            /\ Holds(j, k)',
         \A j \in JobIds, p \in Processes : Past(runs'[<<j, p>>]) =>
            ToSet(Get(store', j).children) \subseteq ToSet(runs'[<<j, p>>].job.children)
  PROVE  NamedInvariant'
  <1>1. ASSUME NEW k \in ChildrenIn(store')
        PROVE  \E j \in JobIds : Get(store', j) # NoJob /\ Get(store', j).type = "corpus" /\ Holds(j, k)'
    <2>1. PICK j \in JobIds : Get(store, j) # NoJob /\ Get(store, j).type = "corpus" /\ Holds(j, k)'
      BY DEF NamedInvariant
    <2>2. Get(store', j) # NoJob /\ Get(store', j).type = "corpus"
      BY <2>1 DEF KindsLast
    <2> QED
      BY <2>1, <2>2
  <1> QED
    BY <1>1 DEF NamedInvariant

\* The store stays as it is, and so do the executions past their start.
LEMMA SameRunsName ==
  ASSUME NamedInvariant, faults = 0, store' = store,
         \A j \in JobIds, p \in Processes :
            Past(runs[<<j, p>>]) \/ Past(runs'[<<j, p>>]) =>
                /\ Past(runs[<<j, p>>]) /\ Past(runs'[<<j, p>>])
                /\ runs'[<<j, p>>].job = runs[<<j, p>>].job
  PROVE  NamedInvariant'
  <1>1. KindsLast(store, store')
    BY DEF KindsLast
  <1>2. ASSUME NEW j \in JobIds, NEW k, Holds(j, k) PROVE Holds(j, k)'
    BY <1>2 DEF Holds
  <1>3. ASSUME NEW j \in JobIds, NEW p \in Processes, Past(runs'[<<j, p>>])
        PROVE  ToSet(Get(store', j).children) \subseteq ToSet(runs'[<<j, p>>].job.children)
    BY <1>3 DEF NamedInvariant
  <1> QED
    BY <1>1, <1>2, <1>3, HoldingStays

\* The one execution of a job moves: its record comes to name what it knew, or
\* the execution still knows it.
LEMMA OneRunNames ==
  ASSUME DoneInvariant, OnceInvariant, NamedInvariant, faults = 0,
         NEW j \in JobIds, NEW p \in Processes, Executed(j, p), Get(store, j) # NoJob,
         NEW x, x = runs[<<j, p>>], NEW y, runs' = [runs EXCEPT ![<<j, p>>] = y],
         KindsLast(store, store'), \A k \in JobIds \ {j} : Get(store', k) = Get(store, k),
         NEW old, old = ToSet(Get(store, j).children),
         NEW now, now = ToSet(Get(store', j).children), old \subseteq now,
         Past(x) => \/ ToSet(x.job.children) \subseteq now
                    \/ Past(y) /\ ToSet(x.job.children) \subseteq ToSet(y.job.children),
         Past(y) => now \subseteq ToSet(y.job.children)
  PROVE  NamedInvariant'
  <1>1. DOMAIN runs = JobIds \X Processes
    BY DEF DoneInvariant, RunsOnTask
  <1>2. \A k \in JobIds, q \in Processes :
            runs'[<<k, q>>] = IF k = j /\ q = p THEN y ELSE runs[<<k, q>>]
    BY <1>1
  <1>3. \A q \in Processes : q # p => ~Past(runs[<<j, q>>])
    <2>1. \A q \in Processes : Executed(j, q) => q = p
      BY DEF OnceInvariant, Once
    <2> QED
      BY <2>1 DEF Executed, Past, Idle
  <1>4. ASSUME NEW i \in JobIds, NEW k, Holds(i, k) PROVE Holds(i, k)'
    <2>1. CASE i # j
      BY <1>2, <1>4, <2>1 DEF Holds
    <2>2. CASE i = j
      <3>1. k \in old \/ (Past(x) /\ k \in ToSet(x.job.children))
        BY <1>3, <1>4, <2>2 DEF Holds
      <3>2. k \in now \/ (Past(y) /\ k \in ToSet(y.job.children))
        BY <3>1
      <3> QED
        BY <1>2, <2>2, <3>2 DEF Holds
    <2> QED
      BY <2>1, <2>2
  <1>5. ChildrenIn(store') \subseteq ChildrenIn(store)
    BY DEF ChildrenIn, KindsLast
  <1>6. ASSUME NEW k \in JobIds, NEW q \in Processes, Past(runs'[<<k, q>>])
        PROVE  ToSet(Get(store', k).children) \subseteq ToSet(runs'[<<k, q>>].job.children)
    <2>1. CASE k # j
      BY <1>2, <1>6, <2>1 DEF NamedInvariant
    <2>2. CASE k = j
      BY <1>2, <1>3, <1>6, <2>2
    <2> QED
      BY <2>1, <2>2
  <1> QED
    BY <1>4, <1>5, <1>6, HoldingStays

----------------------------------------------------------------------------
\* A job begins: its execution knows the children the record names.
LEMMA BeginsName ==
  ASSUME DoneInvariant, ChildrenInvariant, OnceInvariant, NamedInvariant, faults = 0,
         NEW j \in JobIds, NEW p \in Processes, BeginJob(j, p)
  PROVE  NamedInvariant'
  <1>1. PICK job : job = [Get(store, j) EXCEPT !.status = "validating"]
    OBVIOUS
  <1>2. PICK x, y : x = runs[<<j, p>>] /\ y = Started(job, FirstStep[job.type])
    OBVIOUS
  <1>3. /\ x.at = "start" /\ Get(store, j) # NoJob /\ store' = Save(store, j, job)
        /\ runs' = [runs EXCEPT ![<<j, p>>] = y] /\ y.job = job
    BY <1>1, <1>2 DEF BeginJob, At, Started
  <1>4. RecordsTruthful /\ NamesChildren(store)
    BY DEF DoneInvariant, ChildrenInvariant
  <1>5. SavedInKind(store, store') /\ job \in Job /\ job.children = Get(store, j).children
    BY <1>1, <1>3, <1>4, BeginningIsInKind
  <1>6. KindsLast(store, store')
    BY <1>5, SavingKeepsChildren
  <1>7. PICK t : t = store'
    OBVIOUS
  <1>8. Get(t, j) = job /\ \A k \in JobIds \ {j} : Get(t, k) = Get(store, k)
    <2>1. DOMAIN store = {"kind", "jobs", "index"} /\ DOMAIN store.jobs = JobIds
      BY <1>4 DEF RecordsTruthful
    <2>2. job \in Job /\ t = Save(store, j, job)
      BY <1>3, <1>5, <1>7
    <2> QED
      BY <2>1, <2>2, SaveIsOneRecord
  <1>9. PICK old, now : old = ToSet(Get(store, j).children) /\ now = ToSet(Get(store', j).children)
    OBVIOUS
  <1>10. old = now /\ now = ToSet(y.job.children)
    BY <1>3, <1>5, <1>7, <1>8, <1>9
  <1>11. ~Past(x) /\ Executed(j, p)
    BY <1>2, <1>3 DEF Past, Executed, Idle
  <1>12. /\ old \subseteq now
         /\ Past(y) => now \subseteq ToSet(y.job.children)
         /\ Past(x) => \/ ToSet(x.job.children) \subseteq now
                       \/ Past(y) /\ ToSet(x.job.children) \subseteq ToSet(y.job.children)
    BY <1>10, <1>11
  <1>13. /\ x = runs[<<j, p>>] /\ \A k \in JobIds \ {j} : Get(store', k) = Get(store, k)
         /\ Get(store, j) # NoJob /\ runs' = [runs EXCEPT ![<<j, p>>] = y]
    BY <1>2, <1>3, <1>7, <1>8
  <1> QED
    BY <1>6, <1>9, <1>11, <1>12, <1>13, OneRunNames

\* An execution ends or goes on: it saves what it knows, or still knows it.
LEMMA ProgressNames ==
  ASSUME DoneInvariant, ChildrenInvariant, OnceInvariant, NamedInvariant, faults = 0,
         NEW j \in JobIds, NEW p \in Processes, Past(runs[<<j, p>>]), Ends(j, p) \/ GoesOn(j, p)
  PROVE  NamedInvariant'
  <1> PICK x : x = runs[<<j, p>>]
    OBVIOUS
  <1>1. /\ RecordsTruthful /\ Reads(j, x) /\ Local(j, p) = x.job /\ Get(store, j) # NoJob
        /\ KindsLast(store, store)
    BY ReadersRead DEF DoneInvariant, Past, Reads, KindsLast
  <1>2. x.job \in Job
    BY <1>1 DEF Reads, Sound
  <1>3. PICK y : /\ runs' = [runs EXCEPT ![<<j, p>>] = y]
                 /\ (~Past(y) /\ Ends(j, p)) \/ (Past(y) /\ y.job = x.job /\ GoesOn(j, p))
    BY <1>1 DEF Ends, GoesOn, Past, Idle
  <1>4. ASSUME NEW job \in Job, job.children = x.job.children, store' = Save(store, j, job)
        PROVE  /\ Get(store', j).children = x.job.children
               /\ \A k \in JobIds \ {j} : Get(store', k) = Get(store, k)
    BY <1>1, <1>4, SaveIsOneRecord DEF RecordsTruthful
  <1>5. PICK old, now, known : /\ old = ToSet(Get(store, j).children)
                               /\ now = ToSet(Get(store', j).children)
                               /\ known = ToSet(x.job.children)
    OBVIOUS
  <1>6. old \subseteq known
    BY <1>5 DEF NamedInvariant
  <1>7. Executed(j, p)
    BY DEF Executed, Past, Idle
  <1>8. CASE Ends(j, p) /\ ~Past(y)
    <2>1. PICK status \in Final : store' = Save(store, j, [Local(j, p) EXCEPT !.status = status])
      BY <1>8 DEF Ends
    <2>2. PICK job : job = [x.job EXCEPT !.status = status]
      OBVIOUS
    <2>3. job \in Job /\ job.children = x.job.children
      <3>1. job \in Job
        BY <1>1, <2>2, StatusIsNoTask DEF Reads, Sound
      <3>2. DOMAIN x.job = {"type", "status", "path", "work", "owns", "children"}
        BY <1>2 DEF Job
      <3> QED
        BY <2>2, <3>1, <3>2
    <2>4. now = known /\ \A k \in JobIds \ {j} : Get(store', k) = Get(store, k)
      BY <1>1, <1>4, <1>5, <2>1, <2>2, <2>3
    <2>5. SavedInKind(store, store')
      BY <1>1, <2>1, CopiesAreInKind
    <2>6. KindsLast(store, store')
      BY <2>5, SavingKeepsChildren
    <2> QED
      BY <1>1, <1>3, <1>5, <1>6, <1>7, <1>8, <2>4, <2>6, OneRunNames
  <1>9. CASE GoesOn(j, p) /\ Past(y) /\ y.job = x.job
    <2>1. store' \in {store, Save(store, j, x.job)}
      BY <1>1, <1>9 DEF GoesOn
    <2>2. CASE store' = store
      <3>1. old = now /\ \A k \in JobIds \ {j} : Get(store', k) = Get(store, k)
        BY <1>5, <2>2
      <3> QED
        BY <1>1, <1>3, <1>5, <1>6, <1>7, <1>9, <2>2, <3>1, OneRunNames
    <2>3. CASE store' = Save(store, j, x.job)
      <3>1. now = known /\ \A k \in JobIds \ {j} : Get(store', k) = Get(store, k)
        BY <1>2, <1>4, <1>5, <2>3
      <3>2. SavedInKind(store, store')
        BY <1>1, <2>3, CopiesAreInKind DEF Final
      <3>3. KindsLast(store, store')
        BY <3>2, SavingKeepsChildren
      <3> QED
        BY <1>1, <1>3, <1>5, <1>6, <1>7, <1>9, <3>1, <3>3, OneRunNames
    <2> QED
      BY <2>1, <2>2, <2>3
  <1> QED
    BY <1>3, <1>8, <1>9

\* A new job that is not a child: nothing else changes.
LEMMA SubmissionsName ==
  ASSUME DoneInvariant, ChildrenInvariant, NamedInvariant, faults = 0,
         NEW job \in Job, Submit(job), job.type = "unstructured" => job.owns,
         SavedInKind(store, store')
  PROVE  NamedInvariant'
  <1>1. PICK n \in JobIds : n = FreshId
    BY DEF Submit
  <1>2. store' = Save(store, n, job) /\ runs' = runs
    BY <1>1 DEF Submit
  <1>3. /\ Get(store', n) = job /\ \A k \in JobIds \ {n} : Get(store', k) = Get(store, k)
        /\ Get(store, n) = NoJob
    BY <1>1, <1>2, SaveIsOneRecord DEF DoneInvariant, RecordsTruthful, FreshId
  <1>4. KindsLast(store, store')
    BY SavingKeepsChildren
  <1>5. ChildrenIn(store') \subseteq ChildrenIn(store)
    BY <1>3 DEF ChildrenIn
  <1>6. ASSUME NEW j \in JobIds, NEW k, Get(store, j) # NoJob, Holds(j, k) PROVE Holds(j, k)'
    BY <1>2, <1>3, <1>6 DEF Holds
  <1>7. ASSUME NEW j \in JobIds, NEW p \in Processes, Past(runs'[<<j, p>>])
        PROVE  ToSet(Get(store', j).children) \subseteq ToSet(runs'[<<j, p>>].job.children)
    <2>1. Get(store, j) # NoJob
      BY <1>2, <1>7 DEF ChildrenInvariant, KnowsChildren
    <2> QED
      BY <1>2, <1>3, <1>7, <2>1 DEF NamedInvariant
  <1> QED
    BY <1>4, <1>5, <1>6, <1>7, HoldingStays

\* A file is accepted: the execution of the corpus job knows of the new child.
LEMMA AcceptanceNames ==
  ASSUME DoneInvariant, ChildrenInvariant, OnceInvariant, NamedInvariant, faults = 0,
         NEW j \in JobIds, NEW p \in Processes, AcceptFile(j, p)
  PROVE  NamedInvariant'
  <1>1. PICK y : \E job \in Job : AcceptedAs(j, p, job, y)
    BY AcceptanceInDetail
  <1>2. PICK job \in Job : AcceptedAs(j, p, job, y)
    BY <1>1
  <1> PICK x : x = runs[<<j, p>>]
    OBVIOUS
  <1>3. PICK n \in JobIds : n = FreshId
    BY <1>2 DEF AcceptedAs
  <1>4. /\ Get(store, n) = NoJob /\ store' = Save(store, n, job) /\ job.children = <<>>
        /\ Past(x) /\ Past(y) /\ x.job.type = "corpus" /\ runs' = [runs EXCEPT ![<<j, p>>] = y]
        /\ ToSet(y.job.children) = ToSet(x.job.children) \cup {n}
    BY <1>2, <1>3 DEF AcceptedAs, Past
  <1>5. RecordsTruthful /\ DOMAIN runs = JobIds \X Processes
    BY DEF DoneInvariant, RunsOnTask
  <1>6. SavedInKind(store, store')
    BY <1>3, <1>4, <1>5, NewJobsAreInKind
  <1>7. KindsLast(store, store')
    BY <1>6, SavingKeepsChildren
  <1>8. Get(store', n) = job /\ \A k \in JobIds \ {n} : Get(store', k) = Get(store, k)
    BY <1>4, <1>5, SaveIsOneRecord DEF RecordsTruthful
  <1>9. \A k \in JobIds, q \in Processes :
            runs'[<<k, q>>] = IF k = j /\ q = p THEN y ELSE runs[<<k, q>>]
    BY <1>4, <1>5
  <1>10. Get(store, j) # NoJob /\ Get(store, j).type = "corpus"
    BY <1>4 DEF ChildrenInvariant, KnowsChildren
  <1>11. ASSUME NEW i \in JobIds, NEW k, Get(store, i) # NoJob, Holds(i, k) PROVE Holds(i, k)'
    <2>1. Get(store', i) = Get(store, i)
      BY <1>4, <1>8, <1>11
    <2>2. ASSUME NEW q \in Processes, Past(runs[<<i, q>>]), k \in ToSet(runs[<<i, q>>].job.children)
          PROVE  Past(runs'[<<i, q>>]) /\ k \in ToSet(runs'[<<i, q>>].job.children)
      BY <1>4, <1>9, <2>2
    <2> QED
      BY <1>11, <2>1, <2>2 DEF Holds
  <1>12. ASSUME NEW k \in ChildrenIn(store')
         PROVE  \/ k \in ChildrenIn(store)
                \/ \E i \in JobIds : /\ Get(store, i) # NoJob /\ Get(store, i).type = "corpus"
                                     /\ Holds(i, k)'
    <2>1. CASE k # n
      BY <1>8, <2>1 DEF ChildrenIn
    <2>2. CASE k = n
      <3>1. Past(runs'[<<j, p>>]) /\ k \in ToSet(runs'[<<j, p>>].job.children)
        BY <1>4, <1>9, <2>2
      <3>2. Holds(j, k)'
        BY <3>1 DEF Holds
      <3> QED
        BY <1>10, <3>2
    <2> QED
      BY <2>1, <2>2
  <1>13. ASSUME NEW i \in JobIds, NEW q \in Processes, Past(runs'[<<i, q>>])
         PROVE  ToSet(Get(store', i).children) \subseteq ToSet(runs'[<<i, q>>].job.children)
    <2>1. Past(runs[<<i, q>>]) /\ ToSet(runs[<<i, q>>].job.children) \subseteq ToSet(runs'[<<i, q>>].job.children)
      BY <1>4, <1>9, <1>13
    <2>2. Get(store, i) # NoJob /\ ToSet(Get(store, i).children) \subseteq ToSet(runs[<<i, q>>].job.children)
      BY <2>1 DEF ChildrenInvariant, KnowsChildren, NamedInvariant
    <2>3. Get(store', i) = Get(store, i)
      BY <1>4, <1>8, <2>2
    <2> QED
      BY <2>1, <2>2, <2>3
  <1> QED
    BY <1>7, <1>11, <1>12, <1>13, HoldingStays

\* A job is dispatched or dequeued: no process has executed it yet.
LEMMA DispatchNames ==
  ASSUME DoneInvariant, OnceInvariant, NamedInvariant, faults = 0,
         NEW j \in JobIds, Dispatch(j) \/ Dequeue(j)
  PROVE  NamedInvariant'
  <1>1. DOMAIN runs = JobIds \X Processes /\ Once(j)
    BY DEF DoneInvariant, RunsOnTask, OnceInvariant
  <1>2. /\ store' = store /\ (Requested(j) \/ Queued(j))
        /\ \/ runs' = runs
           \/ \E p \in Processes : runs' = [runs EXCEPT ![<<j, p>>] = Starting]
    <2>1. API \in Processes /\ j \in Processes
      BY DEF Processes
    <2> QED
      BY <2>1 DEF Dispatch, Dequeue, WorkerDequeues, WorkerFindsNoJob, Requested, Queued
  <1>3. \A p \in Processes : ~Executed(j, p)
    BY <1>1, <1>2 DEF Once
  <1>4. ~Past(Starting) /\ \A p \in Processes : ~Past(runs[<<j, p>>])
    BY <1>3 DEF Past, Starting, Started, Executed, Idle
  <1>5. ASSUME NEW k \in JobIds, NEW r \in Processes
        PROVE  \/ runs'[<<k, r>>] = runs[<<k, r>>]
               \/ ~Past(runs[<<k, r>>]) /\ ~Past(runs'[<<k, r>>])
    BY <1>1, <1>2, <1>4
  <1> QED
    BY <1>2, <1>5, SameRunsName

\* A child is run inline: no process has executed it yet, and its corpus job
\* goes on knowing it.
LEMMA InliningNames ==
  ASSUME DoneInvariant, OnceInvariant, NamedInvariant, faults = 0, faults' = 0,
         NEW j \in JobIds, NEW p \in Processes, RunChildInline(j, p)
  PROVE  NamedInvariant'
  <1>1. PICK x, y, c : x = runs[<<j, p>>] /\ y = [x EXCEPT !.at = "inline"] /\ c = x.child
    OBVIOUS
  <1>2. /\ x.at = "enqueue" /\ store' = store
        /\ runs' = [runs EXCEPT ![<<j, p>>].at = "inline", ![<<c, p>>] = Starting]
    BY <1>1 DEF RunChildInline, At
  <1>3. DOMAIN runs = JobIds \X Processes /\ x \in RunRecord
    BY <1>1, <1>2, RunsHaveFields DEF DoneInvariant, RunsOnTask
  <1>4. Past(x) /\ Past(y) /\ y.job = x.job /\ ~Past(Starting)
    BY <1>1, <1>2, <1>3 DEF RunRecord, Past, Starting, Started
  <1>5. ASSUME NEW q \in JobIds, NEW r \in Processes
        PROVE  runs'[<<q, r>>] = IF q = c /\ r = p THEN Starting
                                 ELSE IF q = j /\ r = p THEN y ELSE runs[<<q, r>>]
    BY <1>1, <1>2, <1>3
  <1>6. c \in JobIds => \A r \in Processes : ~Executed(c, r)
    BY <1>1, <1>2 DEF Offered, OnceInvariant, Once
  <1>7. c \in JobIds => c # j /\ ~Past(runs[<<c, p>>])
    BY <1>1, <1>2, <1>6 DEF Past, Executed, Idle
  <1>8. ASSUME NEW q \in JobIds, NEW r \in Processes, Past(runs[<<q, r>>]) \/ Past(runs'[<<q, r>>])
        PROVE  /\ Past(runs[<<q, r>>]) /\ Past(runs'[<<q, r>>])
               /\ runs'[<<q, r>>].job = runs[<<q, r>>].job
    BY <1>1, <1>4, <1>5, <1>7, <1>8
  <1> QED
    BY <1>2, <1>8, SameRunsName

LEMMA StepsName ==
  ASSUME DoneInvariant, ChildrenInvariant, OnceInvariant, NamedInvariant, [Next]_vars
  PROVE  NamedInvariant'
  <1>1. SUFFICES ASSUME faults' = 0 PROVE NamedInvariant'
    BY DEF NamedInvariant
  <1>2. faults = 0 /\ Smooth
    BY <1>1, StepsAreSmooth
  <1>3. CASE UNCHANGED vars
    <2>1. store' = store /\ runs' = runs
      BY <1>3 DEF vars
    <2> QED
      BY <1>2, <2>1, SameRunsName
  <1>4. ASSUME NEW job \in Job, Submit(job), job.type = "unstructured" => job.owns,
               SavedInKind(store, store')
        PROVE  NamedInvariant'
    BY <1>2, <1>4, SubmissionsName
  <1>5. ASSUME NEW j \in JobIds, Dispatch(j) \/ Dequeue(j) PROVE NamedInvariant'
    BY <1>2, <1>5, DispatchNames
  <1>6. ASSUME NEW j \in JobIds, NEW p \in Processes,
               BeginJob(j, p) \/ AcceptFile(j, p) \/ RunChildInline(j, p)
        PROVE  NamedInvariant'
    BY <1>1, <1>2, <1>6, BeginsName, AcceptanceNames, InliningNames
  <1>7. ASSUME NEW j \in JobIds, NEW p \in Processes, Past(runs[<<j, p>>]),
               Ends(j, p) \/ GoesOn(j, p)
        PROVE  NamedInvariant'
    BY <1>2, <1>7, ProgressNames
  <1> QED
    BY <1>2, <1>3, <1>4, <1>5, <1>6, <1>7 DEF Smooth

\* As long as nothing fails, what an execution knows of its children is never
\* less than what the record names, and no child is known to nobody.
LEMMA NamedInvariance == Spec => []NamedInvariant
  <1>1. Init => NamedInvariant
    <2>1. ASSUME Init PROVE NamedInvariant
      <3>1. \A j \in JobIds : Get(store, j) = NoJob
        BY <2>1 DEF Init, EmptyStore, Get
      <3>2. \A j \in JobIds, p \in Processes : ~Past(runs[<<j, p>>])
        BY <2>1 DEF Init, Past, Idle
      <3> QED
        BY <3>1, <3>2 DEF NamedInvariant, ChildrenIn
    <2> QED
      BY <2>1
  <1>2. DoneInvariant /\ ChildrenInvariant /\ OnceInvariant /\ NamedInvariant /\ [Next]_vars =>
            NamedInvariant'
    BY StepsName
  <1> QED
    BY <1>1, <1>2, DoneInvariance, ChildrenInvariance, OnceInvariance, PTL DEF Spec

\* What a client polls: the children a corpus record names are jobs of their
\* own and, when nothing fails, the finished corpus records name every child
\* (ingestion/jobs.py, ingestion/store.py).
THEOREM ChildrenNamed == Spec => []ChildrenAreNamed
  <1>1. ASSUME ChildrenInvariant, OnceInvariant, NamedInvariant PROVE ChildrenAreNamed
    <2>1. PICK named : named = UNION {ToSet(Get(store, j).children) : j \in StoredJobs("corpus")}
      OBVIOUS
    <2>2. Children = ChildrenIn(store)
      BY DEF Children, StoredJobs, ChildrenIn
    <2>3. ASSUME NEW k \in named PROVE k \in ChildrenIn(store)
      <3>1. PICK j \in StoredJobs("corpus") : k \in ToSet(Get(store, j).children)
        BY <2>1, <2>3
      <3>2. j \in JobIds /\ Get(store, j) # NoJob
        BY <3>1 DEF StoredJobs
      <3>3. ToSet(Get(store, j).children) \subseteq ChildrenIn(store)
        BY <1>1, <3>2 DEF ChildrenInvariant, NamesChildren
      <3> QED
        BY <3>1, <3>3
    <2>4. ASSUME faults = 0, \A j \in StoredJobs("corpus") : Get(store, j).status \in Final,
                 NEW k \in ChildrenIn(store)
          PROVE  k \in named
      <3>0. /\ \A i \in ChildrenIn(store) : \E j \in JobIds :
                    Get(store, j) # NoJob /\ Get(store, j).type = "corpus" /\ Holds(j, i)
            /\ \A j \in JobIds : Settled(j) => Nowhere(j)
        BY <1>1, <2>4 DEF NamedInvariant, OnceInvariant
      <3>1. PICK j \in JobIds : Get(store, j) # NoJob /\ Get(store, j).type = "corpus" /\ Holds(j, k)
        BY <3>0, <2>4
      <3>2. j \in StoredJobs("corpus")
        BY <3>1 DEF StoredJobs
      <3>3. Nowhere(j)
        <4>1. Get(store, j).status \in Final
          BY <2>4, <3>2
        <4>2. Settled(j)
          BY <3>1, <4>1 DEF Settled
        <4> QED
          BY <3>0, <4>2
      <3>4. \A p \in Processes : ~Past(runs[<<j, p>>])
        BY <3>3 DEF Nowhere, Executed, Past, Idle
      <3>5. k \in ToSet(Get(store, j).children)
        BY <3>1, <3>4 DEF Holds
      <3> QED
        BY <2>1, <3>2, <3>5
    <2> QED
      BY <2>1, <2>2, <2>3, <2>4 DEF ChildrenAreNamed
  <1>2. ChildrenInvariant /\ OnceInvariant /\ NamedInvariant => ChildrenAreNamed
    BY <1>1
  <1> QED
    BY <1>2, ChildrenInvariance, OnceInvariance, NamedInvariance, PTL

=============================================================================
