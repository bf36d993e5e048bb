------------------------- MODULE DocumentIngestion -------------------------
(***************************************************************************)
(* Upload jobs that install revisions of documents into three stores.      *)
(*                                                                         *)
(* A worker runs IngestionManager.run_job for each submitted job: it       *)
(* resolves the logical document, skips an identical upload, plans the     *)
(* next version number, writes debugging snapshots to the blob store and   *)
(* then, under a per-document Redis lock, installs the revision in one     *)
(* Neo4j transaction that writes text and embeddings to the blob and       *)
(* vector stores on the way.  Workers interleave, die, are retried by RQ,  *)
(* and every store call can fail.                                          *)
(*                                                                         *)
(* A text, a snapshot or an embedding is represented by the content        *)
(* (file hash) it was derived from.                                        *)
(***************************************************************************)
EXTENDS Naturals

CONSTANTS
    Jobs,               \* ingestion jobs
    Tenants,            \* tenant ids
    Docs,               \* logical document ids
    Contents,           \* file contents, told apart by their SHA-256
    None,               \* no value
    Orphaned,           \* owner of a Redis lock whose holder has died
    MaxVersion,         \* bound on version numbers
    MaxFaults,          \* bound on failures of workers and stores
    MaxRetries,         \* RQ's Retry(max=2)
    UseRedis,           \* REDIS_URL is set: RQ workers and document locks
    SkipDuplicateHash   \* DOC_SKIP_DUPLICATE_HASH

ASSUME ConstantsAssumption ==
    /\ MaxVersion \in Nat /\ MaxFaults \in Nat /\ MaxRetries \in Nat
    /\ UseRedis \in BOOLEAN /\ SkipDuplicateHash \in BOOLEAN
    /\ None \notin Jobs \cup Tenants \cup Contents
    /\ None \notin Docs \X (1..MaxVersion)
    /\ Orphaned \notin Jobs \cup {None}

VARIABLES
    pc,         \* where each job's worker is
    job,        \* the IngestionJob records of the job store
    superseded, \* revision whose purge the worker still owes, or None
    dl,         \* DocumentLogical nodes: their tenant_id, or None
    rev,        \* DocRevision nodes, or NoRev
    hasRev,     \* HAS_REVISION relationships
    activeRev,  \* ACTIVE_REVISION relationships
    nodes,      \* content nodes of each revision
    tx,         \* open install transaction holding a DocumentLogical node
    lock,       \* Redis lock of each tenant and document
    blob,       \* blob store
    vector,     \* vector store, by the revision_id of the payload
    faults      \* failures so far

jobVars == <<pc, job, superseded>>
graphVars == <<dl, rev, hasRev, activeRev, nodes>>
storeVars == <<blob, vector>>
vars == <<jobVars, graphVars, tx, lock, storeVars, faults>>

Versions == 1..MaxVersion
RevIds == Docs \X Versions
BlobKinds == {"text", "snapshot", "source"}
BlobKeys == Tenants \X RevIds \X BlobKinds
Stores == BlobKinds \cup {"vector"}

Status == {"queued", "validating", "parsing", "exporting", "completed", "failed"}
LoadStatus == {"none", "skipped", "success", "failed"}
Errors == {"none", "processing", "load", "masked"}

IngestionJob ==
    [status: Status, tenant: Tenants, key: Docs, content: Contents,
     doc: Docs, ver: Versions \cup {0}, load: LoadStatus, error: Errors,
     input: BOOLEAN, tries: Nat]

NoRev == [status |-> "NONE"]
DocRevision == [status: {"ACTIVE", "EXPIRED"}, hash: Contents, tenant: Tenants]

LockedSection == {"load", "begin", "dual", "commit", "purge", "source", "finish"}
Running == {"rbac", "parse", "check", "plan", "snapshot", "lock"} \cup LockedSection
Ended == {"done", "dead"}
PC == {"new", "queued"} \cup Running \cup Ended

\* Types of the state of the job store, the graph, the locks and the stores.
TypeOK ==
    /\ pc \in [Jobs -> PC]
    /\ job \in [Jobs -> IngestionJob \cup {None}]
    /\ \A j \in Jobs : pc[j] # "new" => job[j] \in IngestionJob
    /\ superseded \in [Jobs -> RevIds \cup {None}]
    /\ dl \in [Docs -> Tenants \cup {None}]
    /\ rev \in [RevIds -> DocRevision \cup {NoRev}]
    /\ hasRev \in SUBSET RevIds
    /\ activeRev \in SUBSET RevIds
    /\ nodes \in [RevIds -> Contents \cup {None}]
    /\ tx \in [Docs -> Jobs \cup {None}]
    /\ lock \in [Tenants \X Docs -> Jobs \cup {None, Orphaned}]
    /\ blob \in [BlobKeys -> Contents \cup {None}]
    /\ vector \in [RevIds -> Contents \cup {None}]
    /\ faults \in 0..MaxFaults

Init ==
    /\ pc = [j \in Jobs |-> "new"]
    /\ job = [j \in Jobs |-> None]
    /\ superseded = [j \in Jobs |-> None]
    /\ dl = [d \in Docs |-> None]
    /\ rev = [r \in RevIds |-> NoRev]
    /\ hasRev = {}
    /\ activeRev = {}
    /\ nodes = [r \in RevIds |-> None]
    /\ tx = [d \in Docs |-> None]
    /\ lock = [k \in Tenants \X Docs |-> None]
    /\ blob = [k \in BlobKeys |-> None]
    /\ vector = [r \in RevIds |-> None]
    /\ faults = 0

----------------------------------------------------------------------------
(* Reads of the graph and writes of the stores. *)

\* Revision id `{logical_id}:r{version_number}` of a job's plan.
RevisionId(j) == <<job[j].doc, job[j].ver>>

MarkedActive(r) == rev[r] # NoRev /\ rev[r].status = "ACTIVE"
IsActive(r) == r \in activeRev /\ rev[r].status = "ACTIVE"

\* The ACTIVE revision of d holds this content (whoever's tenant it is).
ActiveRevisionHasHash(d, c) ==
    \E r \in RevIds : r[1] = d /\ IsActive(r) /\ rev[r].hash = c

\* Documents whose ACTIVE revision, of this tenant, holds this content.
LogicalIdsHoldingHash(c, t) ==
    {d \in Docs : \E r \in RevIds :
        r[1] = d /\ IsActive(r) /\ rev[r].hash = c /\ rev[r].tenant = t}

VersionsOf(d) == {v \in Versions : <<d, v>> \in hasRev}

\* Mutant of NextVersion: the query does not filter by document.
NextVersionOverall(d) ==
    IF hasRev = {} THEN 1
    ELSE 1 + CHOOSE v \in Versions : /\ \E r \in hasRev : r[2] = v
                                     /\ \A r \in hasRev : r[2] <= v

NextVersion(d) ==
    IF VersionsOf(d) = {} THEN 1
    ELSE 1 + CHOOSE v \in VersionsOf(d) : \A w \in VersionsOf(d) : w <= v

\* Mutant of PurgedBlob: the prefix ends at the logical id.
PurgedDocument(t, r, kinds) ==
    [k \in BlobKeys |->
        IF k[1] = t /\ k[2][1] = r[1] /\ k[3] \in kinds THEN None ELSE blob[k]]

\* What is left of the blob store when the given kinds of r are deleted.
PurgedBlob(t, r, kinds) ==
    [k \in BlobKeys |->
        IF k[1] = t /\ k[2] = r /\ k[3] \in kinds THEN None ELSE blob[k]]

Fault == faults < MaxFaults /\ faults' = faults + 1

\* purge_revision: every store is tried, a failing one is skipped over.
PurgeRevision(t, r, wanted) ==
    \E done \in SUBSET wanted :
        /\ blob' = PurgedBlob(t, r, done)
        /\ vector' = IF "vector" \in done THEN [vector EXCEPT ![r] = None] ELSE vector
        /\ IF done = wanted THEN faults' = faults ELSE Fault

----------------------------------------------------------------------------
(* Submission, dispatch and the outer layer of run_job. *)

Goto(j, label) == pc' = [pc EXCEPT ![j] = label]

NewJob(t, d, c) ==
    [status |-> "queued", tenant |-> t, key |-> d, content |-> c, doc |-> d,
     ver |-> 0, load |-> "none", error |-> "none", input |-> TRUE, tries |-> 0]

\* submit_unstructured: the upload is saved and the job is stored and queued.
Submit(j, t, d, c) ==
    /\ pc[j] = "new"
    /\ job' = [job EXCEPT ![j] = NewJob(t, d, c)]
    /\ Goto(j, "queued")
    /\ UNCHANGED <<superseded, graphVars, tx, lock, storeVars, faults>>

StartJob(j) ==
    /\ pc[j] = "queued"
    /\ job' = [job EXCEPT ![j].status = "validating"]
    /\ Goto(j, "rbac")
    /\ UNCHANGED <<superseded, graphVars, tx, lock, storeVars, faults>>

\* RQ runs a job again while it has retries left; otherwise it is given up.
Requeue(j) ==
    IF UseRedis /\ job[j].tries < MaxRetries
    THEN /\ Goto(j, "queued")
         /\ job' = [job EXCEPT ![j].tries = @ + 1]
    ELSE Goto(j, "dead") /\ job' = job

EnsureRbacSchema(j) ==
    /\ pc[j] = "rbac"
    /\ Goto(j, "parse")
    /\ UNCHANGED <<job, superseded, graphVars, tx, lock, storeVars, faults>>

\* An exception of _ensure_rbac_schema escapes run_job: the call stands
\* before the try block, so neither the status nor the input is touched.
RbacSchemaFails(j) ==
    /\ pc[j] = "rbac"
    /\ Fault
    /\ Requeue(j)
    /\ UNCHANGED <<superseded, graphVars, tx, lock, storeVars>>

\* The except and finally blocks of run_job, with _cleanup_job_inputs.
FailedJob(j, e) ==
    [job EXCEPT ![j].status = "failed", ![j].error = e, ![j].input = FALSE]

\* An exception of parsing, planning or a duplicate lookup fails the job.
ProcessingFails(j) ==
    /\ pc[j] \in {"parse", "check", "plan"}
    /\ Fault
    /\ job' = FailedJob(j, "processing")
    /\ Goto(j, "done")
    /\ UNCHANGED <<superseded, graphVars, tx, lock, storeVars>>

----------------------------------------------------------------------------
(* _process_unstructured up to the lock. *)

\* The temporary input of an earlier run is gone.
InputMissing(j) ==
    /\ pc[j] = "parse" /\ ~job[j].input
    /\ job' = FailedJob(j, "processing")
    /\ Goto(j, "done")
    /\ UNCHANGED <<superseded, graphVars, tx, lock, storeVars, faults>>

\* The job's own logical id, unless this content already has one; a failing
\* lookup keeps the job's own.  "Oldest wins" among several owners, by a
\* wall clock the model does not keep: any of them may be the oldest.
LogicalIdForContent(j, d) ==
    LET owners == LogicalIdsHoldingHash(job[j].content, job[j].tenant)
    IN  \/ /\ d \in (IF owners = {} THEN {job[j].key} ELSE owners)
           /\ faults' = faults
        \/ /\ d = job[j].key /\ owners \notin {{}, {d}}
           /\ Fault

ResolveLogicalId(j) ==
    /\ pc[j] = "parse" /\ job[j].input
    /\ \E d \in Docs :
        /\ LogicalIdForContent(j, d)
        /\ job' = [job EXCEPT ![j].status = "parsing", ![j].doc = d]
    /\ Goto(j, "check")
    /\ UNCHANGED <<superseded, graphVars, tx, lock, storeVars>>

\* Mutant of SkippedJob: a load status its readers do not know.
MislabelledSkip(j) == [job EXCEPT ![j].load = "duplicate"]

SkippedJob(j) == [job EXCEPT ![j].load = "skipped"]

\* The duplicate check before parsing, without the lock.
CheckDuplicate(j) ==
    /\ pc[j] = "check"
    /\ IF SkipDuplicateHash /\ ActiveRevisionHasHash(job[j].doc, job[j].content)
       THEN job' = SkippedJob(j) /\ Goto(j, "finish")
       ELSE job' = job /\ Goto(j, "plan")
    /\ UNCHANGED <<superseded, graphVars, tx, lock, storeVars, faults>>

\* next_version_number and build_revision_plan, without the lock.
PlanRevision(j) ==
    /\ pc[j] = "plan"
    /\ NextVersion(job[j].doc) <= MaxVersion
    /\ job' = [job EXCEPT ![j].ver = NextVersion(job[j].doc)]
    /\ Goto(j, "snapshot")
    /\ UNCHANGED <<superseded, graphVars, tx, lock, storeVars, faults>>

\* X1 and X2 snapshots and the page report: best effort, keyed by the plan.
WriteSnapshots(j) ==
    /\ pc[j] = "snapshot"
    /\ \/ /\ blob' = [blob EXCEPT ![<<job[j].tenant, RevisionId(j), "snapshot">>]
                                    = job[j].content]
          /\ faults' = faults
       \/ blob' = blob /\ Fault
    /\ job' = [job EXCEPT ![j].status = "exporting"]
    /\ Goto(j, "lock")
    /\ UNCHANGED <<superseded, graphVars, tx, lock, vector>>

----------------------------------------------------------------------------
(* _doc_lock and load_to_neo4j. *)

LockKey(j) == <<job[j].tenant, job[j].doc>>

\* Mutant of AcquireLock: the lock is never taken.
AcquireNoLock(j) ==
    /\ pc[j] = "lock"
    /\ lock' = lock
    /\ Goto(j, "load")
    /\ UNCHANGED <<job, superseded, graphVars, tx, storeVars, faults>>

AcquireLock(j) ==
    /\ pc[j] = "lock"
    /\ IF UseRedis
       THEN lock[LockKey(j)] = None /\ lock' = [lock EXCEPT ![LockKey(j)] = j]
       ELSE lock' = lock
    /\ Goto(j, "load")
    /\ UNCHANGED <<job, superseded, graphVars, tx, storeVars, faults>>

\* Redis is unreachable or the wait times out: the install goes on unlocked.
ProceedWithoutLock(j) ==
    /\ pc[j] = "lock" /\ UseRedis
    /\ Fault
    /\ Goto(j, "load")
    /\ UNCHANGED <<job, superseded, graphVars, tx, lock, storeVars>>

LoadDuplicateCheck(j) ==
    /\ pc[j] = "load"
    /\ IF SkipDuplicateHash /\ ActiveRevisionHasHash(job[j].doc, job[j].content)
       THEN job' = SkippedJob(j) /\ Goto(j, "finish")
       ELSE job' = job /\ Goto(j, "begin")
    /\ UNCHANGED <<superseded, graphVars, tx, lock, storeVars, faults>>

\* MERGE of the DocumentLogical node write-locks it until the end of the
\* transaction, so installs of one document follow one another.
BeginInstallTx(j) ==
    /\ pc[j] = "begin"
    /\ tx[job[j].doc] = None
    /\ tx' = [tx EXCEPT ![job[j].doc] = j]
    /\ Goto(j, "dual")
    /\ UNCHANGED <<job, superseded, graphVars, lock, storeVars, faults>>

\* The stores after the chunks of the job's plan are written to them.
DualWritten(j) ==
    /\ blob' = [blob EXCEPT ![<<job[j].tenant, RevisionId(j), "text">>] = job[j].content]
    /\ vector' = [vector EXCEPT ![RevisionId(j)] = job[j].content]

\* Mutant of DualWriteChunks: there is no constraint on revision ids.
DualWriteUnconstrained(j) ==
    /\ pc[j] = "dual"
    /\ DualWritten(j)
    /\ Goto(j, "commit")
    /\ UNCHANGED <<job, superseded, graphVars, tx, lock, faults>>

DualWriteChunks(j) ==
    /\ pc[j] = "dual"
    /\ rev[RevisionId(j)] = NoRev
    /\ DualWritten(j)
    /\ Goto(j, "commit")
    /\ UNCHANGED <<job, superseded, graphVars, tx, lock, faults>>

WithoutOwner(f, j) == [k \in DOMAIN f |-> IF f[k] = j THEN None ELSE f[k]]

\* A failing load raises a NameError in its own except handler.  Thrown into
\* _doc_lock it makes that generator yield again when there is Redis, which
\* contextlib turns into a RuntimeError: either way run_job reports another
\* error than the load's.
LoadFails(j) ==
    /\ job' = [FailedJob(j, "masked") EXCEPT ![j].load = "failed"]
    /\ tx' = WithoutOwner(tx, j)
    /\ lock' = WithoutOwner(lock, j)
    /\ Goto(j, "done")

\* Mutant of RevisionIdTaken: MERGE finds the other job's revision instead.
TakenIdIsMerged(j) ==
    /\ pc[j] = "dual"
    /\ rev[RevisionId(j)] # NoRev
    /\ DualWritten(j)
    /\ tx' = WithoutOwner(tx, j)
    /\ Goto(j, "purge")
    /\ UNCHANGED <<job, superseded, graphVars, lock, faults>>

\* CREATE of a DocRevision whose id exists violates its constraint.  The
\* driver reports it no later than at the next statement, so the stores may
\* have been given the first chunk already.
RevisionIdTaken(j) ==
    /\ pc[j] = "dual"
    /\ rev[RevisionId(j)] # NoRev
    /\ DualWritten(j) \/ UNCHANGED storeVars
    /\ LoadFails(j)
    /\ UNCHANGED <<superseded, graphVars, faults>>

\* Mutant of PreviousRevisions: a wrong lifecycle status in the lookup.
PreviousExpired(d) == {r \in activeRev : r[1] = d /\ rev[r].status = "EXPIRED"}

\* The ACTIVE revision the transaction found for the document.
PreviousRevisions(d) == {r \in activeRev : r[1] = d}

\* Mutant of Expired: the previous revision keeps its ACTIVE status.
NeverExpired(prev) == rev

\* DocRevision nodes with those of prev marked EXPIRED.
Expired(prev) ==
    [r \in RevIds |-> IF r \in prev THEN [rev[r] EXCEPT !.status = "EXPIRED"] ELSE rev[r]]

\* Effect on the graph of the committed _install_revision_tx.
InstalledBy(j) ==
    LET d == job[j].doc
        r == RevisionId(j)
        prev == PreviousRevisions(d)
    IN  /\ dl' = [dl EXCEPT ![d] = IF @ = None THEN job[j].tenant ELSE @]
        /\ rev' = [Expired(prev) EXCEPT ![r] =
                    [status |-> "ACTIVE", hash |-> job[j].content, tenant |-> job[j].tenant]]
        /\ hasRev' = hasRev \cup {r}
        /\ activeRev' = (activeRev \ prev) \cup {r}
        /\ nodes' = [s \in RevIds |-> CASE s = r -> job[j].content
                                        [] s # r /\ s \in prev -> None
                                        [] OTHER -> nodes[s]]

CommitInstallTx(j) ==
    /\ pc[j] = "commit"
    /\ InstalledBy(j)
    /\ tx' = WithoutOwner(tx, j)
    /\ \E p \in RevIds \cup {None} :
        /\ IF PreviousRevisions(job[j].doc) = {} THEN p = None
           ELSE p \in PreviousRevisions(job[j].doc)
        /\ superseded' = [superseded EXCEPT ![j] = p]
    /\ Goto(j, "purge")
    /\ UNCHANGED <<job, lock, storeVars, faults>>

\* The connection breaks during the commit: it took place, the driver raises.
CommitOutcomeLost(j) ==
    /\ pc[j] = "commit"
    /\ Fault
    /\ InstalledBy(j)
    /\ LoadFails(j)
    /\ UNCHANGED <<superseded, storeVars>>

\* The transaction fails; Neo4j rolls back, the dual writes stay.
AbortInstallTx(j) ==
    /\ pc[j] \in {"begin", "dual", "commit"}
    /\ Fault
    /\ LoadFails(j)
    /\ UNCHANGED <<superseded, graphVars, storeVars>>

\* execute_write runs the transaction function again on a transient error.
RetryInstallTx(j) ==
    /\ pc[j] \in {"dual", "commit"}
    /\ Fault
    /\ tx' = WithoutOwner(tx, j)
    /\ Goto(j, "begin")
    /\ UNCHANGED <<job, superseded, graphVars, lock, storeVars>>

----------------------------------------------------------------------------
(* After the commit. *)

PurgeSuperseded(j) ==
    /\ pc[j] = "purge"
    /\ IF superseded[j] = None
       THEN UNCHANGED <<storeVars, faults>>
       ELSE PurgeRevision(job[j].tenant, superseded[j], Stores)
    /\ superseded' = [superseded EXCEPT ![j] = None]
    /\ job' = [job EXCEPT ![j].load = "success"]
    /\ Goto(j, "source")
    /\ UNCHANGED <<graphVars, tx, lock>>

PersistSourceFile(j) ==
    /\ pc[j] = "source"
    /\ \/ /\ blob' = IF job[j].input
                     THEN [blob EXCEPT ![<<job[j].tenant, RevisionId(j), "source">>]
                                         = job[j].content]
                     ELSE blob
          /\ faults' = faults
       \/ blob' = blob /\ Fault
    /\ Goto(j, "finish")
    /\ UNCHANGED <<job, superseded, graphVars, tx, lock, vector>>

\* The lock is released, the final status saved, the input unlinked.
FinishJob(j) ==
    /\ pc[j] = "finish"
    /\ job' = IF job[j].load = "failed" THEN FailedJob(j, "load")
              ELSE [job EXCEPT ![j].status = "completed", ![j].input = FALSE]
    /\ lock' = WithoutOwner(lock, j)
    /\ Goto(j, "done")
    /\ UNCHANGED <<superseded, graphVars, tx, storeVars, faults>>

----------------------------------------------------------------------------
(* The environment: dying processes, redelivery and expiring locks. *)

\* A worker is killed: the transaction rolls back, the lock waits for its
\* timeout, RQ sees the job fail.
WorkerDies(j) ==
    /\ pc[j] \in Running
    /\ Fault
    /\ Requeue(j)
    /\ superseded' = [superseded EXCEPT ![j] = None]
    /\ tx' = WithoutOwner(tx, j)
    /\ lock' = [k \in DOMAIN lock |-> IF lock[k] = j THEN Orphaned ELSE lock[k]]
    /\ UNCHANGED <<graphVars, storeVars>>

\* Without Redis every job runs in the API process and dies with it.
ApiProcessDies ==
    /\ \E j \in Jobs : pc[j] \in Running
    /\ Fault
    /\ pc' = [j \in Jobs |-> IF pc[j] \in Running \cup {"queued"} THEN "dead" ELSE pc[j]]
    /\ superseded' = [j \in Jobs |-> None]
    /\ tx' = [d \in Docs |-> None]
    /\ UNCHANGED <<job, graphVars, lock, storeVars>>

\* The process that runs a job dies: its worker, or the API process.
ProcessDies(j) == IF UseRedis THEN WorkerDies(j) ELSE ApiProcessDies

\* The worker is killed after run_job returned and before RQ recorded it.
Redeliver(j) ==
    /\ UseRedis /\ pc[j] = "done" /\ job[j].tries < MaxRetries
    /\ Fault
    /\ Requeue(j)
    /\ UNCHANGED <<superseded, graphVars, tx, lock, storeVars>>

\* A queued job outlives its 24 hours without being dequeued.
QueuedJobExpires(j) ==
    /\ UseRedis /\ pc[j] = "queued"
    /\ Fault
    /\ Goto(j, "dead")
    /\ UNCHANGED <<job, superseded, graphVars, tx, lock, storeVars>>

\* Mutant of ExpireLock: a dead holder keeps the lock.
NeverExpireLock(k) == FALSE /\ UNCHANGED vars

\* The 1800 s of the lock are over: of a dead holder's in any case, of a
\* living one's only when the install takes that long.
ExpireLock(k) ==
    /\ lock[k] # None
    /\ IF lock[k] = Orphaned THEN faults' = faults ELSE Fault
    /\ lock' = [lock EXCEPT ![k] = None]
    /\ UNCHANGED <<jobVars, graphVars, tx, storeVars>>

----------------------------------------------------------------------------
\* A step of the code, as opposed to a failure of its environment.
WorkerStep(j) ==
    \/ StartJob(j) \/ EnsureRbacSchema(j) \/ InputMissing(j)
    \/ ResolveLogicalId(j) \/ CheckDuplicate(j) \/ PlanRevision(j)
    \/ WriteSnapshots(j) \/ AcquireLock(j) \/ LoadDuplicateCheck(j)
    \/ BeginInstallTx(j) \/ DualWriteChunks(j) \/ RevisionIdTaken(j)
    \/ CommitInstallTx(j) \/ PurgeSuperseded(j) \/ PersistSourceFile(j)
    \/ FinishJob(j)

JobFault(j) ==
    \/ RbacSchemaFails(j) \/ ProcessingFails(j) \/ ProceedWithoutLock(j)
    \/ CommitOutcomeLost(j) \/ AbortInstallTx(j) \/ RetryInstallTx(j)
    \/ ProcessDies(j) \/ Redeliver(j) \/ QueuedJobExpires(j)

Next ==
    \/ \E j \in Jobs, t \in Tenants, d \in Docs, c \in Contents : Submit(j, t, d, c)
    \/ \E j \in Jobs : WorkerStep(j) \/ JobFault(j)
    \/ \E k \in Tenants \X Docs : ExpireLock(k)

Spec == Init /\ [][Next]_vars

\* Workers keep running and Redis expires the locks of dead holders.
Fairness ==
    /\ \A j \in Jobs : WF_vars(WorkerStep(j))
    /\ \A k \in Tenants \X Docs : WF_vars(lock[k] = Orphaned /\ ExpireLock(k))

FairSpec == Spec /\ Fairness

----------------------------------------------------------------------------
(* Properties. *)

\* A document never has two revisions that are marked ACTIVE, which is what
\* retrieval filters by, whatever installs interleave: _install_revision_tx
\* finds and expires the previous one under the write lock its MERGE took on
\* the DocumentLogical node.
OneActiveRevision ==
    \A r, s \in RevIds :
        r[1] = s[1] /\ MarkedActive(r) /\ MarkedActive(s) => r = s

\* The graph serves whole snapshots: a revision has content nodes, made from
\* its own file, exactly as long as it is ACTIVE, and it is ACTIVE exactly
\* as long as its document points to it.
ContentFollowsLifecycle ==
    \A r \in RevIds :
        /\ MarkedActive(r) <=> r \in activeRev
        /\ nodes[r] = IF r \in activeRev THEN rev[r].hash ELSE None

\* Version numbers are read before the lock and may be stale, yet the
\* revisions of a document are always r1..rn without a gap and the ACTIVE
\* one is the newest: a stale plan collides with the constraint on the id.
VersionsContiguous ==
    \A d \in Docs : \E n \in 0..MaxVersion :
        /\ \A v \in Versions : <<d, v>> \in hasRev <=> v <= n
        /\ \A v \in Versions : <<d, v>> \in activeRev <=> v = n

\* What retrieval can reach is stored: the ACTIVE revision has its text and
\* its embeddings, although purges of other revisions, aborted transactions
\* and dying workers interleave with its install.
ActiveIsStored ==
    \A r \in activeRev :
        blob[<<rev[r].tenant, r, "text">>] # None /\ vector[r] # None

\* A job that reports a successful load has a revision of its own, holding
\* the content it uploaded, also after retries by RQ and the driver.
SuccessIsInstalled ==
    \A j \in Jobs :
        (pc[j] # "new" /\ job[j].load = "success" /\ job[j].status = "completed") =>
            /\ rev[RevisionId(j)] # NoRev
            /\ rev[RevisionId(j)].hash = job[j].content
            /\ rev[RevisionId(j)].tenant = job[j].tenant

\* The lock covers the purge and the save of the source file: as long as
\* nothing fails, the uploaded file of a superseded revision is not left
\* behind by a slow worker that saves it after the purge.
SupersededSourceGone ==
    faults = 0 =>
        \A t \in Tenants, r \in RevIds :
            blob[<<t, r, "source">>] # None =>
                \/ r \in activeRev
                \/ \E j \in Jobs : superseded[j] = r

\* Revisions are an audit trail: once written, a DocRevision keeps its
\* content hash and its tenant, and an EXPIRED one never becomes ACTIVE.
RevisionsImmutable ==
    [][\A r \in RevIds : rev[r] # NoRev =>
        /\ rev'[r] # NoRev
        /\ rev'[r].hash = rev[r].hash /\ rev'[r].tenant = rev[r].tenant
        /\ rev[r].status = "EXPIRED" => rev'[r].status = "EXPIRED"]_vars

\* Every queued job is eventually finished or given up by RQ: nobody waits
\* for ever for a lock, a dead holder's included.
EveryJobEnds ==
    \A j \in Jobs : pc[j] = "queued" ~> pc[j] \in Ended

----------------------------------------------------------------------------
(* The inductive invariant behind VersionsContiguous and ActiveIsStored. *)

\* A document's write lock is held by exactly the jobs whose transaction is
\* open on it.
TransactionsHeld ==
    \A j \in Jobs, d \in Docs :
        tx[d] = j <=> (pc[j] \in {"dual", "commit"} /\ job[j].doc = d)

\* DocRevision nodes are never without their HAS_REVISION edge.
RevisionsLinked ==
    \A r \in RevIds : rev[r] # NoRev <=> r \in hasRev

\* However stale, a plan's version number is at most one above the newest.
PlansFollowVersions ==
    \A j \in Jobs : pc[j] \in {"snapshot", "lock", "load", "begin", "dual", "commit"} =>
        /\ job[j].ver \in Versions
        /\ \A v \in Versions : v < job[j].ver => <<job[j].doc, v>> \in hasRev

\* A transaction about to commit has a fresh id and its data is stored.
CommitsAreStored ==
    \A j \in Jobs : pc[j] = "commit" =>
        /\ RevisionId(j) \notin hasRev
        /\ blob[<<job[j].tenant, RevisionId(j), "text">>] # None
        /\ vector[RevisionId(j)] # None

\* Only revisions that are out of service are ever purged.
PurgesAreOfExpired ==
    \A j \in Jobs : superseded[j] # None => superseded[j] \in hasRev \ activeRev

InstallInvariant ==
    /\ TypeOK
    /\ TransactionsHeld
    /\ RevisionsLinked
    /\ PlansFollowVersions
    /\ VersionsContiguous
    /\ ContentFollowsLifecycle
    /\ CommitsAreStored
    /\ PurgesAreOfExpired
    /\ ActiveIsStored
=============================================================================
