---------------------- MODULE DocumentLifecycle_proofs ----------------------
(***************************************************************************)
(* Proofs about DocumentLifecycle: what deletes and the sweep of orphaned  *)
(* storage leave of the graph and of the stores, for every number of jobs, *)
(* tenants, documents, deletes and sweeps.                                 *)
(***************************************************************************)
EXTENDS DocumentLifecycle, DocumentIngestion_proofs

----------------------------------------------------------------------------
(* The graph. *)

\* A document links one ACTIVE revision.
OneLinked == \A r, s \in activeRev : r[1] = s[1] => r = s

GraphInvariant ==
    /\ rev = [r \in RevIds |-> rev[r]] /\ nodes = [r \in RevIds |-> nodes[r]]
    /\ ContentFollowsStatus
    /\ OneLinked

\* The steps of jobs are those of DocumentIngestion.
LEMMA JobStepIsNext == JobStep => Next
  BY DEF JobStep, Next

\* A commit puts one ACTIVE revision in the place of the document's others.
LEMMA CommitKeepsGraph ==
  ASSUME GraphInvariant, NEW j, InstalledBy(j)
  PROVE  GraphInvariant'
PROOF
  <1> DEFINE new == RevisionId(j)
             prev == PreviousRevisions(job[j].doc)
             made == [status |-> "ACTIVE", hash |-> job[j].content, tenant |-> job[j].tenant]
  <1>1. /\ rev' = [Expired(prev) EXCEPT ![new] = made]
        /\ activeRev' = (activeRev \ prev) \cup {new}
        /\ nodes' = [s \in RevIds |-> CASE s = new -> job[j].content
                                        [] s # new /\ s \in prev -> None
                                        [] OTHER -> nodes[s]]
    BY DEF InstalledBy
  <1>2. rev' = [r \in RevIds |-> IF r = new THEN made ELSE Expired(prev)[r]]
    BY <1>1 DEF Expired
  <1>3. OneLinked'
    <2>1. \A r \in activeRev \ prev : r[1] # new[1]
      BY DEF PreviousRevisions, RevisionId
    <2> QED BY <1>1, <2>1 DEF GraphInvariant, OneLinked
  <1>5. ASSUME NEW r \in RevIds
        PROVE  nodes'[r] = IF rev'[r] # NoRev /\ rev'[r].status = "ACTIVE" THEN rev'[r].hash ELSE None
    <2>1. CASE r = new
      <3>1. rev'[r] = made /\ nodes'[r] = job[j].content
        BY <1>1, <1>2, <2>1
      <3>2. made # NoRev /\ made.status = "ACTIVE" /\ made.hash = job[j].content
        BY DEF NoRev
      <3> QED BY <3>1, <3>2
    <2>2. CASE r # new /\ r \in prev
      <3>1. nodes'[r] = None /\ rev'[r] = [rev[r] EXCEPT !.status = "EXPIRED"]
        BY <1>1, <1>2, <2>2 DEF Expired
      <3>2. rev'[r].status # "ACTIVE"
        BY <3>1
      <3> QED BY <3>1, <3>2
    <2>3. CASE r # new /\ r \notin prev
      BY <1>1, <1>2, <2>3 DEF Expired, GraphInvariant, ContentFollowsStatus, MarkedActive
    <2> QED BY <2>1, <2>2, <2>3
  <1>6. ContentFollowsStatus'
    BY <1>5 DEF ContentFollowsStatus, MarkedActive
  <1>7. rev' = [r \in RevIds |-> rev'[r]] /\ nodes' = [r \in RevIds |-> nodes'[r]]
    BY <1>1, <1>2
  <1> QED BY <1>3, <1>6, <1>7 DEF GraphInvariant

\* Every step keeps the graph consistent.
LEMMA GraphStep ==
  ASSUME GraphInvariant, [LifecycleNext]_allVars
  PROVE  GraphInvariant'
PROOF
  <1>1. CASE UNCHANGED <<rev, nodes, activeRev>>
    BY <1>1 DEF GraphInvariant, ContentFollowsStatus, MarkedActive, OneLinked
  <1>2. CASE JobStep
    BY <1>1, <1>2, JobStepIsNext, GraphSteps, CommitKeepsGraph
  <1>3. CASE DeleteNodes
    <2>1. /\ rev' = [r \in RevIds |-> IF r \in del.revs THEN NoRev ELSE rev[r]]
          /\ nodes' = [r \in RevIds |-> IF r \in del.revs THEN None ELSE nodes[r]]
          /\ activeRev' = activeRev \ del.revs
      BY <1>3 DEF DeleteNodes
    <2>2. ContentFollowsStatus'
      BY <2>1 DEF GraphInvariant, ContentFollowsStatus, MarkedActive
    <2> QED BY <2>1, <2>2 DEF GraphInvariant, OneLinked
  <1>4. CASE DeleteLogical
    BY <1>4 DEF DeleteLogical, GraphInvariant, ContentFollowsStatus, MarkedActive, OneLinked
  <1>5. CASE UNCHANGED allVars
    BY <1>1, <1>5 DEF allVars, vars, graphVars
  <1> QED
    BY <1>1, <1>2, <1>3, <1>4, <1>5
    DEF LifecycleNext, DeleteStarts, DeletePurges, DeleteDies, SweepReadsLive, SweepListsOrphans,
        SweepPurges, SweepClearsVectors, SweepFinishes, vars, graphVars

\* Initially the graph is empty.
LEMMA GraphInit == LifecycleInit => GraphInvariant
  BY DEF LifecycleInit, Init, GraphInvariant, ContentFollowsStatus, MarkedActive, OneLinked

\* Whatever deletes and sweeps run beside installs, readers of the graph find
\* the nodes of an ACTIVE revision, made from its file, and of no other.
THEOREM ContentOfActiveRevisions == LifecycleSpec => []ContentFollowsStatus
PROOF
  <1>1. GraphInvariant => ContentFollowsStatus
    BY DEF GraphInvariant
  <1>2. GraphInvariant /\ [LifecycleNext]_allVars => GraphInvariant'
    BY GraphStep
  <1> QED BY <1>1, <1>2, GraphInit, PTL DEF LifecycleSpec

----------------------------------------------------------------------------
(* The sweep. *)

\* Functions over the right sets, and a count of failures.
OverKeys ==
    /\ vector = [r \in RevIds |-> vector[r]]
    /\ blob = [k \in BlobKeys |-> blob[k]]
StoresShaped == faults \in Nat /\ OverKeys

\* Each submitted job, and each revision, has a tenant.
JobsOwned ==
    /\ pc = [j \in Jobs |-> pc[j]] /\ job = [j \in Jobs |-> job[j]]
    /\ \A j \in Jobs : pc[j] # "new" => "tenant" \in DOMAIN job[j] /\ job[j].tenant \in Tenants
RevisionsOwned ==
    /\ rev = [r \in RevIds |-> rev[r]]
    /\ \A r \in RevIds : rev[r] # NoRev => "status" \in DOMAIN rev[r] /\ rev[r].tenant \in Tenants
    /\ \A r \in activeRev : r \in RevIds => rev[r] # NoRev

\* What an undisturbed sweep knows: the revisions of the graph, and, while it
\* purges, every leftover of the others that it has not yet reclaimed.
ListIsComplete ==
    \A r \in RevIds \ gc.live :
        /\ vector[r] # None => r \in gc.vectors
        /\ \A t \in Tenants, k \in {"text", "snapshot"} :
            blob[<<t, r, k>>] # None => <<t, r>> \in gc.orphans

SweepKnows ==
    /\ DOMAIN gc = DOMAIN NoSweep /\ "at" \in DOMAIN del
    /\ gc.at \in {"idle", "list", "purge"}
    /\ gc.errors \in BOOLEAN /\ gc.alone \in BOOLEAN
    /\ gc.at # "idle" /\ gc.alone => JobsQuiet /\ del.at = "idle" /\ gc.live = LiveRevisions
    /\ gc.at = "purge" =>
        /\ \A p \in gc.orphans : p[2] \notin gc.live
        /\ \A r \in gc.vectors : r \notin gc.live
    /\ gc.at = "purge" /\ gc.alone /\ ~gc.errors => ListIsComplete

SweepInvariant == StoresShaped /\ JobsOwned /\ RevisionsOwned /\ GraphInvariant /\ SweepKnows

\* A failure is counted, and at most one per step.
LEMMA FaultsCounted ==
  ASSUME faults \in Nat, [Next]_vars
  PROVE  faults' \in Nat
PROOF
  <1>1. ASSUME NEW j \in Jobs, WorkerStep(j) PROVE faults' \in Nat
    BY <1>1 DEF WorkerStep, StartJob, EnsureRbacSchema, InputMissing, ResolveLogicalId,
       CheckDuplicate, PlanRevision, WriteSnapshots, AcquireLock, LoadDuplicateCheck,
       BeginInstallTx, DualWriteChunks, RevisionIdTaken, CommitInstallTx,
       PurgeSuperseded, PersistSourceFile, FinishJob, LogicalIdForContent, PurgeRevision, Fault
  <1>2. ASSUME NEW j \in Jobs, JobFault(j) PROVE faults' \in Nat
    BY <1>2 DEF JobFault, RbacSchemaFails, ProcessingFails, ProceedWithoutLock,
       CommitOutcomeLost, AbortInstallTx, RetryInstallTx, ProcessDies, WorkerDies,
       ApiProcessDies, Redeliver, QueuedJobExpires, Fault
  <1>3. CASE UNCHANGED vars
    BY <1>3 DEF vars
  <1> QED BY <1>1, <1>2, <1>3 DEF Next, Submit, ExpireLock, Fault

\* The stores stay functions over their keys.
LEMMA StoresStayShaped ==
  ASSUME StoresShaped, [Next]_vars
  PROVE  StoresShaped'
PROOF
  <1>1. ASSUME UNCHANGED <<vector, blob>> PROVE OverKeys'
    BY <1>1 DEF StoresShaped, OverKeys
  <1>2. ASSUME NEW j \in Jobs, WorkerStep(j) PROVE OverKeys'
    <2>1. CASE DualWritten(j)
      BY <2>1 DEF DualWritten, StoresShaped, OverKeys
    <2>2. CASE WriteSnapshots(j) \/ PersistSourceFile(j)
      BY <2>2 DEF WriteSnapshots, PersistSourceFile, StoresShaped, OverKeys
    <2>3. CASE PurgeSuperseded(j)
      BY <2>3 DEF PurgeSuperseded, PurgeRevision, PurgedBlob, StoresShaped, OverKeys, storeVars
    <2> QED
      BY <1>2, <2>1, <2>2, <2>3 DEF WorkerStep, StartJob, EnsureRbacSchema, InputMissing,
         ResolveLogicalId, CheckDuplicate, PlanRevision, AcquireLock, LoadDuplicateCheck,
         BeginInstallTx, DualWriteChunks, RevisionIdTaken, CommitInstallTx, FinishJob,
         StoresShaped, OverKeys, storeVars
  <1>3. ASSUME NEW j \in Jobs, JobFault(j) PROVE UNCHANGED <<vector, blob>>
    BY <1>3 DEF JobFault, RbacSchemaFails, ProcessingFails, ProceedWithoutLock,
       CommitOutcomeLost, AbortInstallTx, RetryInstallTx, ProcessDies, WorkerDies,
       ApiProcessDies, Redeliver, QueuedJobExpires, storeVars
  <1>4. OverKeys'
    BY <1>1, <1>2, <1>3 DEF Next, Submit, ExpireLock, vars, storeVars, StoresShaped, OverKeys
  <1>5. faults' \in Nat
    BY FaultsCounted DEF StoresShaped
  <1> QED BY <1>4, <1>5 DEF StoresShaped

\* While no job runs, a step that starts none leaves the revisions and the
\* stores alone.
LEMMA QuietJobs ==
  ASSUME JobsQuiet, Next
  PROVE  UNCHANGED <<rev, vector, blob>>
PROOF
  <1>1. \A j \in Jobs : pc[j] \in {"new", "queued", "done", "dead"}
    BY DEF JobsQuiet, Ended
  <1>2. ASSUME NEW j \in Jobs, WorkerStep(j) PROVE UNCHANGED <<rev, vector, blob>>
    BY <1>1, <1>2 DEF WorkerStep, StartJob, EnsureRbacSchema, InputMissing,
       ResolveLogicalId, CheckDuplicate, PlanRevision, WriteSnapshots, AcquireLock,
       LoadDuplicateCheck, BeginInstallTx, DualWriteChunks, RevisionIdTaken, CommitInstallTx,
       PurgeSuperseded, PersistSourceFile, FinishJob, graphVars, storeVars
  <1>3. ASSUME NEW j \in Jobs, JobFault(j) PROVE UNCHANGED <<rev, vector, blob>>
    BY <1>1, <1>3 DEF JobFault, RbacSchemaFails, ProcessingFails, ProceedWithoutLock,
       CommitOutcomeLost, AbortInstallTx, RetryInstallTx, ProcessDies, WorkerDies,
       ApiProcessDies, Redeliver, QueuedJobExpires, graphVars, storeVars
  <1> QED BY <1>2, <1>3 DEF Next, Submit, ExpireLock, graphVars, storeVars

\* No step changes the tenant of a job.
LEMMA OwnersKept ==
  ASSUME JobsOwned, [Next]_vars
  PROVE  JobsOwned'
PROOF
  <1>1. ASSUME NEW j \in Jobs, pc[j] # "new", NEW x, NEW label, job' = [job EXCEPT ![j] = x],
               "tenant" \in DOMAIN x, x.tenant = job[j].tenant, Goto(j, label)
        PROVE  JobsOwned'
    BY <1>1 DEF JobsOwned, Goto
  <1>2. ASSUME NEW j \in Jobs, pc[j] # "new", NEW label, job' = job, Goto(j, label)
        PROVE  JobsOwned'
    BY <1>2 DEF JobsOwned, Goto
  <1>3. CASE UNCHANGED <<pc, job>>
    BY <1>3 DEF JobsOwned
  <1>4. ASSUME NEW j \in Jobs, NEW t \in Tenants, NEW d \in Docs, NEW c \in Contents,
               Submit(j, t, d, c)
        PROVE  JobsOwned'
    BY <1>4 DEF Submit, NewJob, JobsOwned, Goto
  <1>5. ASSUME NEW j \in Jobs, WorkerStep(j) PROVE JobsOwned'
    <2>1. pc[j] # "new"
      BY <1>5 DEF WorkerStep, StartJob, EnsureRbacSchema, InputMissing, ResolveLogicalId,
         CheckDuplicate, PlanRevision, WriteSnapshots, AcquireLock, LoadDuplicateCheck,
         BeginInstallTx, DualWriteChunks, RevisionIdTaken, CommitInstallTx,
         PurgeSuperseded, PersistSourceFile, FinishJob
    <2>2. "tenant" \in DOMAIN job[j] /\ job[j].tenant \in Tenants
      BY <2>1 DEF JobsOwned
    <2>3. CASE StartJob(j)
      BY <2>1, <2>2, <2>3 DEF StartJob, Goto, JobsOwned
    <2>4. CASE InputMissing(j)
      BY <2>1, <2>2, <2>4 DEF InputMissing, FailedJob, Goto, JobsOwned
    <2>5. CASE ResolveLogicalId(j)
      BY <2>1, <2>2, <2>5, ZenonT(60) DEF ResolveLogicalId, Goto, JobsOwned
    <2>6. CASE PlanRevision(j)
      BY <2>1, <2>2, <2>6 DEF PlanRevision, Goto, JobsOwned
    <2>7. CASE WriteSnapshots(j) \/ PurgeSuperseded(j) \/ FinishJob(j)
      BY <2>1, <2>2, <2>7 DEF WriteSnapshots, PurgeSuperseded, FinishJob, FailedJob, Goto, JobsOwned
    <2>8. CASE CheckDuplicate(j) \/ LoadDuplicateCheck(j) \/ RevisionIdTaken(j)
      BY <2>1, <2>2, <2>8 DEF CheckDuplicate, LoadDuplicateCheck, SkippedJob, RevisionIdTaken,
         LoadFails, FailedJob, Goto, JobsOwned
    <2>9. CASE \/ EnsureRbacSchema(j) \/ AcquireLock(j) \/ BeginInstallTx(j)
               \/ DualWriteChunks(j) \/ CommitInstallTx(j) \/ PersistSourceFile(j)
      BY <1>2, <2>1, <2>9 DEF EnsureRbacSchema, AcquireLock, BeginInstallTx,
         DualWriteChunks, CommitInstallTx, PersistSourceFile
    <2> QED BY <1>5, <2>3, <2>4, <2>5, <2>6, <2>7, <2>8, <2>9 DEF WorkerStep
  <1>6. ASSUME NEW j \in Jobs, JobFault(j) PROVE JobsOwned'
    <2>1. CASE ApiProcessDies
      BY <2>1 DEF ApiProcessDies, JobsOwned, Running, LockedSection
    <2>2. CASE ~ApiProcessDies
      <3>1. pc[j] # "new"
        BY <1>6, <2>2 DEF JobFault, RbacSchemaFails, ProcessingFails, ProceedWithoutLock,
           CommitOutcomeLost, AbortInstallTx, RetryInstallTx, ProcessDies, WorkerDies,
           Redeliver, QueuedJobExpires, Running, LockedSection
      <3>2. "tenant" \in DOMAIN job[j] /\ job[j].tenant \in Tenants
        BY <3>1 DEF JobsOwned
      <3>3. CASE Requeue(j)
        BY <3>1, <3>2, <3>3 DEF Requeue, Goto, JobsOwned
      <3>4. CASE ProcessingFails(j) \/ LoadFails(j)
        BY <3>1, <3>2, <3>4 DEF ProcessingFails, LoadFails, FailedJob, Goto, JobsOwned
      <3>5. CASE ProceedWithoutLock(j) \/ RetryInstallTx(j) \/ QueuedJobExpires(j)
        BY <1>2, <3>1, <3>5 DEF ProceedWithoutLock, RetryInstallTx, QueuedJobExpires
      <3> QED
        BY <1>6, <2>2, <3>3, <3>4, <3>5 DEF JobFault, RbacSchemaFails, CommitOutcomeLost,
           AbortInstallTx, ProcessDies, WorkerDies, Redeliver
    <2> QED BY <2>1, <2>2
  <1> QED
    BY <1>3, <1>4, <1>5, <1>6 DEF Next, ExpireLock, vars, jobVars

\* A revision gets the tenant of the job that installs it and keeps it.
LEMMA RevisionOwnersKept ==
  ASSUME JobsOwned, RevisionsOwned, [Next]_vars
  PROVE  RevisionsOwned'
PROOF
  <1>1. CASE UNCHANGED <<rev, activeRev>>
    BY <1>1 DEF RevisionsOwned
  <1>2. ASSUME NEW j \in Jobs, pc[j] = "commit", InstalledBy(j) PROVE RevisionsOwned'
    <2> DEFINE new == RevisionId(j)
               prev == PreviousRevisions(job[j].doc)
               made == [status |-> "ACTIVE", hash |-> job[j].content, tenant |-> job[j].tenant]
    <2>1. /\ rev' = [Expired(prev) EXCEPT ![new] = made]
          /\ activeRev' = (activeRev \ prev) \cup {new}
      BY <1>2 DEF InstalledBy
    <2>2. /\ made.tenant \in Tenants /\ made # NoRev /\ "status" \in DOMAIN made
          /\ prev \subseteq activeRev
      BY <1>2 DEF JobsOwned, NoRev, PreviousRevisions
    <2> HIDE DEF prev, new, made
    <2>3. rev' = [r \in RevIds |-> IF r = new THEN made ELSE Expired(prev)[r]]
      BY <2>1 DEF Expired
    <2>4. ASSUME NEW r \in RevIds, r # new
          PROVE  /\ rev'[r] # NoRev => "status" \in DOMAIN rev'[r] /\ rev'[r].tenant \in Tenants
                 /\ r \in activeRev => rev'[r] # NoRev
      <3>1. CASE r \in prev
        <4>1. rev[r] # NoRev /\ "status" \in DOMAIN rev[r] /\ rev[r].tenant \in Tenants
          BY <2>2, <3>1 DEF RevisionsOwned
        <4>2. rev'[r] = [rev[r] EXCEPT !.status = "EXPIRED"]
          BY <2>3, <2>4, <3>1 DEF Expired
        <4>3. rev'[r].status = "EXPIRED" /\ rev'[r].tenant = rev[r].tenant
          BY <4>1, <4>2
        <4>4. rev'[r] # NoRev
          BY <4>3 DEF NoRev
        <4> QED BY <4>1, <4>2, <4>3, <4>4
      <3>2. CASE r \notin prev
        BY <2>3, <2>4, <3>2 DEF Expired, RevisionsOwned
      <3> QED BY <3>1, <3>2
    <2>5. \A r \in RevIds : rev'[r] # NoRev => "status" \in DOMAIN rev'[r] /\ rev'[r].tenant \in Tenants
      BY <2>2, <2>3, <2>4
    <2>6. \A r \in activeRev' : r \in RevIds => rev'[r] # NoRev
      BY <2>1, <2>2, <2>3, <2>4
    <2> QED BY <2>3, <2>5, <2>6 DEF RevisionsOwned
  <1> QED BY <1>1, <1>2, GraphSteps

\* Deletes and sweeps leave the jobs alone and the stores in shape.
LEMMA StoresStep ==
  ASSUME StoresShaped, JobsOwned, RevisionsOwned, [LifecycleNext]_allVars
  PROVE  StoresShaped' /\ JobsOwned' /\ RevisionsOwned'
PROOF
  <1>1. CASE [Next]_vars
    BY <1>1, StoresStayShaped, OwnersKept, RevisionOwnersKept
  <1>2. ASSUME NEW t, NEW r, NEW wanted, PurgeRevision(t, r, wanted)
        PROVE  StoresShaped'
    BY <1>2 DEF PurgeRevision, PurgedBlob, Fault, StoresShaped, OverKeys
  <1>3. CASE (\E r \in RevIds : DeletePurges(r)) \/ \E p \in Tenants \X RevIds : SweepPurges(p)
    <2>1. StoresShaped' /\ UNCHANGED <<pc, job, rev, activeRev>>
      BY <1>2, <1>3 DEF DeletePurges, SweepPurges, jobVars, graphVars
    <2> QED BY <2>1 DEF JobsOwned, RevisionsOwned
  <1>4. CASE DeleteNodes \/ DeleteLogical
    <2>1. UNCHANGED <<pc, job, vector, blob, faults>>
      BY <1>4 DEF DeleteNodes, DeleteLogical, jobVars, storeVars
    <2>2. RevisionsOwned'
      BY <1>4 DEF DeleteNodes, DeleteLogical, RevisionsOwned
    <2> QED BY <2>1, <2>2 DEF StoresShaped, OverKeys, JobsOwned
  <1>5. CASE DeleteDies
    BY <1>5 DEF DeleteDies, Fault, StoresShaped, OverKeys, JobsOwned, RevisionsOwned,
       jobVars, graphVars, storeVars
  <1>6. ASSUME NEW r \in RevIds, SweepClearsVectors(r)
        PROVE  StoresShaped' /\ JobsOwned' /\ RevisionsOwned'
    BY <1>6 DEF SweepClearsVectors, StoresShaped, OverKeys, JobsOwned, RevisionsOwned,
       jobVars, graphVars
  <1> QED
    BY <1>1, <1>3, <1>4, <1>5, <1>6, JobStepIsNext
    DEF LifecycleNext, DeleteStarts, SweepReadsLive, SweepListsOrphans, SweepFinishes, allVars

\* A purge that reports no failure took everything it was asked to.
LEMMA PurgeIsComplete ==
  ASSUME faults \in Nat, NEW t, NEW r, NEW wanted,
         PurgeRevision(t, r, wanted), faults' = faults
  PROVE  /\ blob' = PurgedBlob(t, r, wanted)
         /\ vector' = IF "vector" \in wanted THEN [vector EXCEPT ![r] = None] ELSE vector
  BY DEF PurgeRevision, Fault

\* While it runs undisturbed, the sweep's lists stay right.
LEMMA SweepStep ==
  ASSUME StoresShaped, SweepKnows, [LifecycleNext]_allVars
  PROVE  SweepKnows'
PROOF
  <1>1. CASE JobStep
    <2>1. /\ gc' = [gc EXCEPT !.alone = gc.alone /\ (gc.at = "idle" \/ JobsQuiet')]
          /\ del' = [del EXCEPT !.alone = del.alone /\ (del.at = "idle" \/ JobsQuiet'),
                                !.overtaken = del.overtaken \/ Overtakes]
      BY <1>1 DEF JobStep
    <2>2. /\ DOMAIN gc' = DOMAIN gc /\ DOMAIN del' = DOMAIN del
          /\ gc'.at = gc.at /\ gc'.errors = gc.errors /\ del'.at = del.at
          /\ gc'.live = gc.live /\ gc'.orphans = gc.orphans /\ gc'.vectors = gc.vectors
          /\ gc'.alone = (gc.alone /\ (gc.at = "idle" \/ JobsQuiet'))
      BY <2>1 DEF SweepKnows, NoSweep
    <2>3. CASE gc'.at # "idle" /\ gc'.alone
      <3>1. gc.at # "idle" /\ gc.alone /\ JobsQuiet' /\ JobsQuiet
        BY <2>2, <2>3 DEF SweepKnows
      <3>2. UNCHANGED <<rev, vector, blob>>
        BY <1>1, <3>1, QuietJobs, JobStepIsNext
      <3> QED BY <2>2, <3>1, <3>2 DEF SweepKnows, LiveRevisions, ListIsComplete
    <2>4. CASE gc'.at = "idle" \/ ~gc'.alone
      BY <2>2, <2>4 DEF SweepKnows
    <2> QED BY <2>3, <2>4
  <1>2. ASSUME NEW d \in Docs, NEW t \in Tenants, NEW keep \in BOOLEAN, DeleteStarts(d, t, keep)
        PROVE  SweepKnows'
    <2>1. gc' = [gc EXCEPT !.alone = gc.at = "idle"] /\ "at" \in DOMAIN del'
      BY <1>2 DEF DeleteStarts
    <2>2. /\ DOMAIN gc' = DOMAIN gc /\ gc'.at = gc.at /\ gc'.errors = gc.errors
          /\ gc'.live = gc.live /\ gc'.orphans = gc.orphans /\ gc'.vectors = gc.vectors
          /\ gc'.alone = (gc.at = "idle")
      BY <2>1 DEF SweepKnows, NoSweep
    <2> QED BY <2>1, <2>2 DEF SweepKnows
  <1>3. CASE (\E r \in RevIds : DeletePurges(r)) \/ DeleteNodes \/ DeleteLogical \/ DeleteDies
    <2>1. gc' = gc /\ del.at # "idle" /\ "at" \in DOMAIN del'
      BY <1>3 DEF DeletePurges, DeleteNodes, DeleteLogical, DeleteDies, SweepKnows, NoDelete
    <2> QED BY <2>1 DEF SweepKnows
  <1>4. ASSUME NEW keep \in BOOLEAN, SweepReadsLive(keep) PROVE SweepKnows'
    BY <1>4 DEF SweepReadsLive, NoSweep, SweepKnows, JobsQuiet, LiveRevisions, vars, jobVars, graphVars
  <1>5. CASE SweepListsOrphans
    <2>1. /\ DOMAIN gc' = DOMAIN gc /\ gc'.at = "purge" /\ gc'.errors = gc.errors
          /\ gc'.alone = gc.alone /\ gc'.live = gc.live
          /\ gc'.orphans = {p \in BlobRevisions : p[2] \notin gc.live}
          /\ gc'.vectors = {r \in RevIds : r \notin gc.live /\ vector[r] # None}
      BY <1>5 DEF SweepListsOrphans, SweepKnows, NoSweep
    <2>2. UNCHANGED <<del, pc, rev, vector, blob>> /\ gc.at = "list"
      BY <1>5 DEF SweepListsOrphans, vars, jobVars, graphVars, storeVars
    <2>3. ListIsComplete'
      BY <2>1, <2>2 DEF ListIsComplete, BlobRevisions, BlobKinds
    <2>4. JobsQuiet' = JobsQuiet /\ LiveRevisions' = LiveRevisions
      BY <2>2 DEF JobsQuiet, LiveRevisions
    <2> QED BY <2>1, <2>2, <2>3, <2>4 DEF SweepKnows
  <1>6. ASSUME NEW p \in Tenants \X RevIds, SweepPurges(p) PROVE SweepKnows'
    <2>1. /\ DOMAIN gc' = DOMAIN gc /\ gc'.at = gc.at /\ gc.at = "purge"
          /\ gc'.alone = gc.alone /\ gc'.live = gc.live
          /\ gc'.errors = (gc.errors \/ faults' # faults)
          /\ gc'.orphans = gc.orphans \ {p} /\ gc'.vectors = gc.vectors \ {p[2]}
      BY <1>6 DEF SweepPurges, SweepKnows, NoSweep
    <2>2. UNCHANGED <<del, pc, rev>>
      BY <1>6 DEF SweepPurges, jobVars, graphVars
    <2>3. JobsQuiet' = JobsQuiet /\ LiveRevisions' = LiveRevisions
      BY <2>2 DEF JobsQuiet, LiveRevisions
    <2>4. ASSUME ~gc'.errors, ListIsComplete PROVE ListIsComplete'
      <3> DEFINE wanted == IF gc.keep THEN Stores \ {"source"} ELSE Stores
      <3>1. PurgeRevision(p[1], p[2], wanted) /\ faults' = faults /\ faults \in Nat
        BY <1>6, <2>1, <2>4 DEF SweepPurges, StoresShaped
      <3>2. {"text", "snapshot", "vector"} \subseteq wanted
        BY DEF Stores, BlobKinds
      <3> HIDE DEF wanted
      <3>3. /\ blob' = PurgedBlob(p[1], p[2], wanted) /\ vector' = [vector EXCEPT ![p[2]] = None]
        BY <3>1, <3>2, PurgeIsComplete
      <3>4. \A r \in RevIds : vector'[r] = IF r = p[2] THEN None ELSE vector[r]
        BY <3>3 DEF StoresShaped, OverKeys
      <3>5. \A t \in Tenants, r \in RevIds, k \in {"text", "snapshot"} :
              blob'[<<t, r, k>>] = IF <<t, r>> = p THEN None ELSE blob[<<t, r, k>>]
        BY <3>2, <3>3 DEF PurgedBlob, BlobKeys, BlobKinds
      <3> QED BY <2>1, <2>4, <3>4, <3>5 DEF ListIsComplete
    <2> QED BY <2>1, <2>2, <2>3, <2>4 DEF SweepKnows
  <1>7. ASSUME NEW r \in RevIds, SweepClearsVectors(r) PROVE SweepKnows'
    <2>1. /\ DOMAIN gc' = DOMAIN gc /\ gc'.at = gc.at /\ gc.at = "purge"
          /\ gc'.alone = gc.alone /\ gc'.live = gc.live /\ gc'.errors = gc.errors
          /\ gc'.orphans = gc.orphans /\ gc'.vectors = gc.vectors \ {r}
      BY <1>7 DEF SweepClearsVectors, SweepKnows, NoSweep
    <2>2. UNCHANGED <<del, pc, rev, blob>> /\ vector' = [vector EXCEPT ![r] = None]
      BY <1>7 DEF SweepClearsVectors, jobVars, graphVars
    <2>3. JobsQuiet' = JobsQuiet /\ LiveRevisions' = LiveRevisions
      BY <2>2 DEF JobsQuiet, LiveRevisions
    <2>4. ListIsComplete => ListIsComplete'
      BY <2>1, <2>2 DEF ListIsComplete, StoresShaped, OverKeys
    <2> QED BY <2>1, <2>2, <2>3, <2>4 DEF SweepKnows
  <1>8. CASE SweepFinishes
    BY <1>8 DEF SweepFinishes, SweepKnows, NoSweep
  <1>9. CASE UNCHANGED allVars
    BY <1>9 DEF allVars, lifecycleVars, vars, jobVars, graphVars, storeVars, SweepKnows,
       JobsQuiet, LiveRevisions, ListIsComplete
  <1> QED
    BY <1>1, <1>2, <1>3, <1>4, <1>5, <1>6, <1>7, <1>8, <1>9 DEF LifecycleNext

\* Initially nothing is stored and nothing runs.
LEMMA SweepInit == LifecycleInit => SweepInvariant
PROOF
  <1> SUFFICES ASSUME LifecycleInit PROVE SweepInvariant
    OBVIOUS
  <1>1. StoresShaped /\ JobsOwned /\ RevisionsOwned
    BY DEF LifecycleInit, Init, StoresShaped, OverKeys, JobsOwned, RevisionsOwned
  <1>2. SweepKnows
    BY DEF LifecycleInit, NoSweep, NoDelete, SweepKnows
  <1> QED BY <1>1, <1>2, GraphInit DEF SweepInvariant

\* The invariant of the sweep holds in every behaviour.
LEMMA SweepInvariance == LifecycleSpec => []SweepInvariant
PROOF
  <1>1. SweepInvariant /\ [LifecycleNext]_allVars => SweepInvariant'
    BY GraphStep, StoresStep, SweepStep DEF SweepInvariant
  <1> QED BY <1>1, SweepInit, PTL DEF LifecycleSpec

\* A sweep that nothing disturbs and no store fails leaves no text, snapshot
\* or embedding of a revision that the graph does not know.
THEOREM SweepIsComplete == LifecycleSpec => SweepReclaimsUnknown
PROOF
  <1> DEFINE Clean == \A r \in RevIds \ LiveRevisions :
                        /\ vector[r] = None
                        /\ \A t \in Tenants, k \in {"text", "snapshot"} : blob[<<t, r, k>>] = None
             Reclaims == (SweepFinishes /\ gc.alone /\ ~gc.errors) => Clean
  <1>1. SweepInvariant => [Reclaims]_allVars
    BY ZenonT(60) DEF SweepInvariant, SweepKnows, ListIsComplete, SweepFinishes
  <1>2. SweepReclaimsUnknown <=> [][Reclaims]_allVars
    BY PTL DEF SweepReclaimsUnknown
  <1> HIDE DEF Reclaims
  <1> QED BY <1>1, <1>2, SweepInvariance, PTL

\* ... and on the way it never touches an ACTIVE revision.
THEOREM SweepIsSafe == LifecycleSpec => SweepSparesActive
PROOF
  <1> DEFINE Spared == \A r \in RevIds : MarkedActive(r) =>
                        /\ vector'[r] = vector[r]
                        /\ blob'[<<rev[r].tenant, r, "text">>] = blob[<<rev[r].tenant, r, "text">>]
             Spares == (gc.at = "purge" /\ gc.alone /\ UNCHANGED <<rev, pc>>) => Spared
  <1>1. SweepInvariant /\ [LifecycleNext]_allVars => [Spares]_allVars
    <2> SUFFICES ASSUME SweepInvariant, LifecycleNext, gc.at = "purge", gc.alone,
                        UNCHANGED <<rev, pc>>
                 PROVE  Spared
      OBVIOUS
    <2>1. JobsQuiet /\ del.at = "idle" /\ gc.live = LiveRevisions
      BY DEF SweepInvariant, SweepKnows
    <2>2. CASE UNCHANGED <<vector, blob>>
      BY <2>2
    <2>3. CASE JobStep
      BY <2>1, <2>2, <2>3, QuietJobs, JobStepIsNext
    <2>4. ASSUME NEW p \in Tenants \X RevIds, SweepPurges(p) PROVE Spared
      <3> SUFFICES ASSUME NEW r \in RevIds, rev[r] # NoRev
                   PROVE  /\ vector'[r] = vector[r]
                          /\ blob'[<<rev[r].tenant, r, "text">>] = blob[<<rev[r].tenant, r, "text">>]
        BY DEF MarkedActive
      <3>1. r # p[2]
        BY <2>1, <2>4 DEF SweepPurges, SweepInvariant, SweepKnows, LiveRevisions
      <3>2. <<rev[r].tenant, r, "text">> \in BlobKeys
        BY DEF SweepInvariant, RevisionsOwned, BlobKeys, BlobKinds
      <3>3. PICK wanted : PurgeRevision(p[1], p[2], wanted)
        BY <2>4 DEF SweepPurges
      <3> QED BY <3>1, <3>2, <3>3 DEF PurgeRevision, PurgedBlob, SweepInvariant, StoresShaped, OverKeys
    <2>5. ASSUME NEW r \in RevIds, SweepClearsVectors(r) PROVE Spared
      <3>1. rev[r] = NoRev
        BY <2>1, <2>5 DEF SweepClearsVectors, SweepInvariant, SweepKnows, LiveRevisions
      <3> QED BY <2>5, <3>1 DEF MarkedActive, SweepClearsVectors, SweepInvariant, StoresShaped, OverKeys
    <2> HIDE DEF Spared
    <2> QED
      BY <2>1, <2>2, <2>3, <2>4, <2>5
      DEF LifecycleNext, DeleteStarts, DeletePurges, DeleteNodes, DeleteLogical, DeleteDies,
          SweepReadsLive, SweepListsOrphans, SweepFinishes, vars, storeVars
  <1>2. SweepSparesActive <=> [][Spares]_allVars
    BY PTL DEF SweepSparesActive
  <1> HIDE DEF Spares
  <1> QED BY <1>1, <1>2, SweepInvariance, PTL DEF LifecycleSpec

----------------------------------------------------------------------------
(* What a delete that runs alone has taken away. *)

\* The delete under way has purged r.
Purged(r) ==
    /\ vector[r] = None
    /\ \A k \in {"text", "snapshot"} : blob[<<del.tenant, r, k>>] = None
    /\ ~del.keep => blob[<<del.tenant, r, "source">>] = None

\* What a delete knows of the revisions it found.
DeleteKnows ==
    /\ DOMAIN del = DOMAIN NoDelete /\ del.at \in {"idle", "purge", "nodes", "logical"}
    /\ del.errors \in BOOLEAN /\ del.alone \in BOOLEAN /\ deletes \in Nat
    /\ del.at # "idle" => del.tenant \in Tenants /\ deletes # 0
    /\ del.at \in {"nodes", "logical"} => del.todo = {}
    /\ del.at # "idle" /\ del.alone => JobsQuiet
    /\ del.at # "idle" /\ del.alone /\ ~del.errors =>
            \A r \in RevIds : r \in del.revs /\ r \notin del.todo => Purged(r)
    /\ del.at = "logical" /\ del.alone => \A r \in RevIds : r \in del.revs => rev[r] = NoRev

\* A step that leaves the delete and the revisions alone and writes nothing.
LEMMA StoresOnlyShrink ==
  ASSUME DeleteKnows, UNCHANGED <<del, deletes>>, JobsQuiet => JobsQuiet',
         del.at # "idle" /\ del.alone => rev' = rev,
         del.at # "idle" /\ del.alone => \A r \in RevIds :
            /\ vector[r] = None => vector'[r] = None
            /\ \A k \in BlobKinds :
                blob[<<del.tenant, r, k>>] = None => blob'[<<del.tenant, r, k>>] = None
  PROVE  DeleteKnows'
  <1>1. ASSUME del.at # "idle", del.alone, NEW r \in RevIds, Purged(r) PROVE Purged(r)'
    BY <1>1 DEF Purged, BlobKinds
  <1> QED
    BY <1>1 DEF DeleteKnows

\* A purge empties what it is asked to, if it is not a failure, and fills
\* nothing.
LEMMA PurgeShrinks ==
  ASSUME StoresShaped, NEW t, NEW r \in RevIds, NEW wanted, PurgeRevision(t, r, wanted)
  PROVE  /\ \A s \in RevIds : vector[s] = None => vector'[s] = None
         /\ \A k \in BlobKeys : blob[k] = None => blob'[k] = None
         /\ faults' = faults =>
                /\ "vector" \in wanted => vector'[r] = None
                /\ \A kind \in wanted : <<t, r, kind>> \in BlobKeys => blob'[<<t, r, kind>>] = None
  <1>1. PICK done \in SUBSET wanted :
            /\ blob' = PurgedBlob(t, r, done)
            /\ vector' = IF "vector" \in done THEN [vector EXCEPT ![r] = None] ELSE vector
            /\ IF done = wanted THEN faults' = faults ELSE Fault
    BY DEF PurgeRevision
  <1>2. \A s \in RevIds : vector'[s] = IF "vector" \in done /\ s = r THEN None ELSE vector[s]
    BY <1>1 DEF StoresShaped, OverKeys
  <1>3. \A k \in BlobKeys :
            blob'[k] = IF k[1] = t /\ k[2] = r /\ k[3] \in done THEN None ELSE blob[k]
    BY <1>1 DEF PurgedBlob
  <1>4. faults' = faults => done = wanted
    BY <1>1 DEF Fault, StoresShaped
  <1> QED
    BY <1>2, <1>3, <1>4

\* Every step keeps what a delete knows, as long as it runs alone.
LEMMA DeleteStep ==
  ASSUME StoresShaped, DeleteKnows, [LifecycleNext]_allVars
  PROVE  DeleteKnows'
  <1>1. CASE JobStep
    <2>1. /\ del' = [del EXCEPT !.alone = del.alone /\ (del.at = "idle" \/ JobsQuiet'),
                                !.overtaken = del.overtaken \/ Overtakes]
          /\ deletes' = deletes
      BY <1>1 DEF JobStep
    <2>2. /\ DOMAIN del' = DOMAIN del /\ del'.at = del.at /\ del'.errors = del.errors
          /\ del'.tenant = del.tenant /\ del'.keep = del.keep
          /\ del'.revs = del.revs /\ del'.todo = del.todo
          /\ del'.alone = (del.alone /\ (del.at = "idle" \/ JobsQuiet'))
      BY <2>1 DEF DeleteKnows, NoDelete
    <2>3. CASE del.at # "idle" /\ del'.alone
      <3>1. JobsQuiet /\ JobsQuiet'
        BY <2>2, <2>3 DEF DeleteKnows
      <3>2. UNCHANGED <<rev, vector, blob>>
        BY <1>1, <3>1, QuietJobs, JobStepIsNext
      <3>3. \A r : Purged(r)' <=> Purged(r)
        BY <2>2, <3>2 DEF Purged
      <3> QED
        BY <2>1, <2>2, <2>3, <3>1, <3>2, <3>3 DEF DeleteKnows
    <2>4. CASE del.at = "idle" \/ ~del'.alone
      BY <2>1, <2>2, <2>4 DEF DeleteKnows
    <2> QED
      BY <2>3, <2>4
  <1>2. ASSUME NEW d \in Docs, NEW t \in Tenants, NEW keep \in BOOLEAN, DeleteStarts(d, t, keep)
        PROVE  DeleteKnows'
    <2>1. /\ del' = [at |-> "purge", doc |-> d, tenant |-> t, keep |-> keep,
                     revs |-> RevisionsToDelete(d, t), todo |-> RevisionsToDelete(d, t),
                     errors |-> FALSE, alone |-> JobsQuiet, overtaken |-> FALSE]
          /\ deletes' = deletes + 1 /\ pc' = pc
      BY <1>2 DEF DeleteStarts, vars, jobVars
    <2>2. /\ DOMAIN del' = DOMAIN NoDelete /\ del'.at = "purge" /\ del'.errors = FALSE
          /\ del'.tenant = t /\ del'.revs = del'.todo /\ del'.alone = JobsQuiet
          /\ del'.revs = RevisionsToDelete(d, t)
      BY <2>1 DEF NoDelete
    <2>3. JobsQuiet' = JobsQuiet /\ JobsQuiet \in BOOLEAN
      BY <2>1 DEF JobsQuiet
    <2> QED
      BY <2>1, <2>2, <2>3 DEF DeleteKnows
  <1>3. ASSUME NEW r \in RevIds, DeletePurges(r) PROVE DeleteKnows'
    <2>1. PICK wanted : wanted = IF del.keep THEN Stores \ {"source"} ELSE Stores
      OBVIOUS
    <2>2. /\ PurgeRevision(del.tenant, r, wanted) /\ r \in del.todo /\ del.at = "purge"
          /\ del' = [del EXCEPT !.todo = del.todo \ {r}, !.errors = del.errors \/ faults' # faults,
                                !.at = IF del.todo = {r} THEN "nodes" ELSE "purge"]
          /\ UNCHANGED <<deletes, pc, rev>>
      BY <1>3, <2>1 DEF DeletePurges, jobVars, graphVars
    <2>3. /\ DOMAIN del' = DOMAIN del /\ del'.errors = (del.errors \/ faults' # faults)
          /\ del'.at = (IF del.todo = {r} THEN "nodes" ELSE "purge") /\ del'.todo = del.todo \ {r}
          /\ del'.tenant = del.tenant /\ del'.keep = del.keep /\ del'.revs = del.revs
          /\ del'.alone = del.alone
      BY <2>2 DEF DeleteKnows, NoDelete
    <2>4. JobsQuiet' = JobsQuiet
      BY <2>2 DEF JobsQuiet
    <2>5. /\ \A q \in RevIds : vector[q] = None => vector'[q] = None
          /\ \A k \in BlobKeys : blob[k] = None => blob'[k] = None
          /\ faults' = faults =>
                /\ "vector" \in wanted => vector'[r] = None
                /\ \A kind \in wanted :
                      <<del.tenant, r, kind>> \in BlobKeys => blob'[<<del.tenant, r, kind>>] = None
      BY <2>2, PurgeShrinks
    <2>6. del.tenant \in Tenants
      BY <2>2 DEF DeleteKnows
    <2>7. \A q \in RevIds, k \in BlobKinds : <<del.tenant, q, k>> \in BlobKeys
      BY <2>6 DEF BlobKeys
    <2>8. ASSUME NEW q \in RevIds, Purged(q) PROVE Purged(q)'
      BY <2>3, <2>5, <2>7, <2>8 DEF Purged, BlobKinds
    <2>9. ASSUME faults' = faults PROVE Purged(r)'
      BY <2>1, <2>3, <2>5, <2>7, <2>9 DEF Purged, BlobKinds, Stores
    <2> QED
      BY <2>2, <2>3, <2>4, <2>8, <2>9 DEF DeleteKnows
  <1>4. CASE DeleteNodes
    <2>1. /\ del' = [del EXCEPT !.at = "logical"] /\ del.at = "nodes"
          /\ rev' = [r \in RevIds |-> IF r \in del.revs THEN NoRev ELSE rev[r]]
          /\ UNCHANGED <<deletes, pc, vector, blob>>
      BY <1>4 DEF DeleteNodes, jobVars, storeVars
    <2>2. /\ DOMAIN del' = DOMAIN del /\ del'.at = "logical" /\ del'.errors = del.errors
          /\ del'.tenant = del.tenant /\ del'.keep = del.keep
          /\ del'.revs = del.revs /\ del'.todo = del.todo /\ del'.alone = del.alone
      BY <2>1 DEF DeleteKnows, NoDelete
    <2>3. JobsQuiet' = JobsQuiet /\ \A r : Purged(r)' = Purged(r)
      BY <2>1, <2>2 DEF JobsQuiet, Purged
    <2>4. \A r \in RevIds : r \in del'.revs => rev'[r] = NoRev
      BY <2>1, <2>2
    <2> QED
      BY <2>1, <2>2, <2>3, <2>4 DEF DeleteKnows
  <1>5. CASE DeleteLogical \/ DeleteDies
    <2>1. del' = NoDelete /\ deletes' = deletes
      BY <1>5 DEF DeleteLogical, DeleteDies
    <2> QED
      BY <2>1 DEF DeleteKnows, NoDelete
  <1>6. CASE UNCHANGED allVars \/ SweepListsOrphans \/ SweepFinishes
             \/ \E keep \in BOOLEAN : SweepReadsLive(keep)
    <2>1. UNCHANGED <<del, deletes, pc, rev, vector, blob>>
      BY <1>6 DEF allVars, lifecycleVars, SweepListsOrphans, SweepFinishes, SweepReadsLive,
         vars, jobVars, graphVars, storeVars
    <2>2. JobsQuiet' = JobsQuiet
      BY <2>1 DEF JobsQuiet
    <2> QED
      BY <2>1, <2>2, StoresOnlyShrink
  <1>7. CASE (\E p \in Tenants \X RevIds : SweepPurges(p)) \/ \E r \in RevIds : SweepClearsVectors(r)
    <2>1. UNCHANGED <<del, deletes, pc, rev>>
      BY <1>7 DEF SweepPurges, SweepClearsVectors, jobVars, graphVars
    <2>2. JobsQuiet' = JobsQuiet
      BY <2>1 DEF JobsQuiet
    <2>3. /\ \A q \in RevIds : vector[q] = None => vector'[q] = None
          /\ \A k \in BlobKeys : blob[k] = None => blob'[k] = None
      <3>1. CASE \E p \in Tenants \X RevIds : SweepPurges(p)
        <4>1. PICK p \in Tenants \X RevIds : SweepPurges(p)
          BY <3>1
        <4>2. p[2] \in RevIds /\ \E wanted : PurgeRevision(p[1], p[2], wanted)
          BY <4>1 DEF SweepPurges
        <4> QED
          BY <4>2, PurgeShrinks
      <3>2. CASE \E r \in RevIds : SweepClearsVectors(r)
        BY <3>2 DEF SweepClearsVectors, StoresShaped, OverKeys
      <3> QED
        BY <1>7, <3>1, <3>2
    <2>4. del.at # "idle" => \A q \in RevIds, k \in BlobKinds : <<del.tenant, q, k>> \in BlobKeys
      BY DEF BlobKeys, DeleteKnows
    <2> QED
      BY <2>1, <2>2, <2>3, <2>4, StoresOnlyShrink
  <1> QED
    BY <1>1, <1>2, <1>3, <1>4, <1>5, <1>6, <1>7 DEF LifecycleNext

----------------------------------------------------------------------------
(* What the first delete knows, if nothing has failed. *)

\* Text or embeddings of r are stored; the graph has r, or is about to.
Stored(r) == vector[r] # None \/ \E t \in Tenants : blob[<<t, r, "text">>] # None
Known(r) == rev[r] # NoRev \/ \E j \in Jobs : pc[j] = "commit" /\ RevisionId(j) = r

\* No delete has run before the one under way, if any, which runs alone.
First == deletes = 0 \/ (deletes = 1 /\ del.at # "idle" /\ del.alone)

\* Every revision is linked to its document, and what is stored is known.
NothingIsLost ==
    \A r \in RevIds : (rev[r] # NoRev <=> r \in hasRev) /\ (Stored(r) => Known(r))

\* The delete has found all revisions of its document.
FoundAll ==
    del.at # "idle" =>
        \A r \in RevIds : r[1] = del.doc /\ rev[r] # NoRev => r \in del.revs

DocumentsKnown ==
    faults = 0 /\ First => ~del.errors /\ NothingIsLost /\ FoundAll

\* Without a failure a job about to commit stays so until it has, and only
\* jobs about to commit write text or embeddings of revisions the graph does
\* not have.
LEMMA CommitsArePending ==
  ASSUME StoresShaped, JobsOwned, Next, faults' = faults
  PROVE  /\ \A j \in Jobs : pc[j] = "commit" =>
                InstalledBy(j) \/ (pc'[j] = "commit" /\ job'[j] = job[j])
         /\ \A r \in RevIds : Stored(r)' =>
                \/ Stored(r) \/ rev[r] # NoRev
                \/ \E j \in Jobs : pc'[j] = "commit" /\ RevisionId(j)' = r
  <1>1. ~Fault
    BY DEF Fault, StoresShaped
  <1>2. ASSUME NEW r \in RevIds, Stored(r)', UNCHANGED storeVars PROVE Stored(r)
    BY <1>2 DEF Stored, storeVars
  <1>3. ASSUME NEW i \in Jobs, JobFault(i) PROVE FALSE
    BY <1>1, <1>3 DEF JobFault, RbacSchemaFails, ProcessingFails, ProceedWithoutLock,
       CommitOutcomeLost, AbortInstallTx, RetryInstallTx, ProcessDies, WorkerDies, ApiProcessDies,
       Redeliver, QueuedJobExpires
  <1>4. ASSUME NEW k, ExpireLock(k) PROVE UNCHANGED <<pc, job, storeVars>>
    BY <1>4 DEF ExpireLock, jobVars
  <1>5. ASSUME NEW i \in Jobs, NEW t \in Tenants, NEW d \in Docs, NEW c \in Contents,
               Submit(i, t, d, c)
        PROVE  /\ \A j \in Jobs : pc[j] = "commit" => pc'[j] = "commit" /\ job'[j] = job[j]
               /\ UNCHANGED storeVars
    BY <1>5 DEF Submit, Goto, JobsOwned
  <1>6. ASSUME NEW i \in Jobs, WorkerStep(i), NEW j \in Jobs, pc[j] = "commit"
        PROVE  InstalledBy(j) \/ (pc'[j] = "commit" /\ job'[j] = job[j])
    BY <1>6 DEF WorkerStep, StartJob, EnsureRbacSchema, InputMissing, ResolveLogicalId,
       CheckDuplicate, PlanRevision, WriteSnapshots, AcquireLock, LoadDuplicateCheck,
       BeginInstallTx, DualWriteChunks, RevisionIdTaken, CommitInstallTx, PurgeSuperseded,
       PersistSourceFile, FinishJob, Goto, SkippedJob, FailedJob, LoadFails, JobsOwned
  <1>7. ASSUME NEW i \in Jobs, WorkerStep(i), NEW r \in RevIds, Stored(r)', ~Stored(r)
        PROVE  \/ rev[r] # NoRev
               \/ \E j \in Jobs : pc'[j] = "commit" /\ RevisionId(j)' = r
    <2>1. ASSUME DualWritten(i) PROVE r = RevisionId(i)
      BY <1>7, <2>1 DEF DualWritten, Stored, StoresShaped, OverKeys
    <2>2. CASE DualWriteChunks(i)
      BY <2>1, <2>2 DEF DualWriteChunks, Goto, RevisionId, JobsOwned
    <2>3. CASE RevisionIdTaken(i)
      <3>1. rev[RevisionId(i)] # NoRev /\ (DualWritten(i) \/ UNCHANGED storeVars)
        BY <2>3 DEF RevisionIdTaken
      <3>2. CASE DualWritten(i)
        <4>1. r = RevisionId(i)
          BY <2>1, <3>2
        <4> QED
          BY <3>1, <4>1
      <3>3. CASE ~DualWritten(i)
        BY <1>2, <1>7, <3>1, <3>3
      <3> QED
        BY <3>2, <3>3
    <2>4. ASSUME NEW kind, kind # "text", NEW t, NEW q, NEW c, vector' = vector,
                 blob' \in {blob, [blob EXCEPT ![<<t, q, kind>>] = c]}
          PROVE  FALSE
      <3>1. \A u \in Tenants : blob'[<<u, r, "text">>] = blob[<<u, r, "text">>]
        BY <2>4 DEF StoresShaped, OverKeys, BlobKeys, BlobKinds
      <3> QED
        BY <1>7, <2>4, <3>1 DEF Stored
    <2>7. CASE WriteSnapshots(i)
      BY <2>4, <2>7 DEF WriteSnapshots
    <2>8. CASE PersistSourceFile(i)
      BY <2>4, <2>8 DEF PersistSourceFile
    <2>5. CASE PurgeSuperseded(i)
      <3>1. CASE UNCHANGED storeVars
        BY <1>2, <1>7, <3>1
      <3>2. CASE PurgeRevision(job[i].tenant, superseded[i], Stores)
        <4>1. PICK t, q, done : /\ blob' = PurgedBlob(t, q, done)
                                /\ vector' \in {vector, [vector EXCEPT ![q] = None]}
          BY <3>2 DEF PurgeRevision
        <4>2. vector[r] = None => vector'[r] = None
          BY <4>1 DEF StoresShaped, OverKeys
        <4>3. \A k \in BlobKeys : blob[k] = None => blob'[k] = None
          BY <4>1 DEF PurgedBlob
        <4>4. \A u \in Tenants : <<u, r, "text">> \in BlobKeys
          BY DEF BlobKeys, BlobKinds
        <4> QED
          BY <1>7, <4>2, <4>3, <4>4 DEF Stored
      <3> QED
        BY <2>5, <3>1, <3>2 DEF PurgeSuperseded
    <2>6. CASE StartJob(i) \/ EnsureRbacSchema(i) \/ InputMissing(i) \/ ResolveLogicalId(i)
               \/ CheckDuplicate(i) \/ PlanRevision(i) \/ AcquireLock(i) \/ LoadDuplicateCheck(i)
               \/ BeginInstallTx(i) \/ CommitInstallTx(i) \/ FinishJob(i)
      BY <1>2, <1>7, <2>6 DEF StartJob, EnsureRbacSchema, InputMissing, ResolveLogicalId,
         CheckDuplicate, PlanRevision, AcquireLock, LoadDuplicateCheck, BeginInstallTx,
         CommitInstallTx, FinishJob
    <2> QED
      BY <1>7, <2>2, <2>3, <2>5, <2>6, <2>7, <2>8 DEF WorkerStep
  <1>8. CASE \E i \in Jobs : WorkerStep(i)
    BY <1>6, <1>7, <1>8
  <1>9. CASE \/ \E i \in Jobs, t \in Tenants, d \in Docs, c \in Contents : Submit(i, t, d, c)
             \/ \E k \in Tenants \X Docs : ExpireLock(k)
    BY <1>2, <1>4, <1>5, <1>9
  <1> QED
    BY <1>3, <1>8, <1>9 DEF Next

\* A job's step without failure loses nothing.
LEMMA JobsLoseNothing ==
  ASSUME StoresShaped, JobsOwned, RevisionsOwned, NothingIsLost, Next, faults' = faults
  PROVE  NothingIsLost'
  <1>1. \A r \in RevIds :
            /\ rev[r] # NoRev => rev'[r] # NoRev
            /\ rev'[r] # NoRev <=> r \in hasRev'
            /\ \A j \in Jobs : InstalledBy(j) /\ RevisionId(j) = r => rev'[r] # NoRev
    <2>1. CASE \E j \in Jobs : InstalledBy(j)
      <3>1. PICK j \in Jobs : InstalledBy(j)
        BY <2>1
      <3>2. PICK new, prev, made :
              /\ new = RevisionId(j) /\ prev = PreviousRevisions(job[j].doc)
              /\ made = [status |-> "ACTIVE", hash |-> job[j].content, tenant |-> job[j].tenant]
        OBVIOUS
      <3>3. /\ rev' = [Expired(prev) EXCEPT ![new] = made]
            /\ hasRev' = hasRev \cup {new}
        BY <3>1, <3>2 DEF InstalledBy
      <3>4. made # NoRev
        BY <3>2 DEF NoRev
      <3>5. ASSUME NEW r \in RevIds
            PROVE  rev'[r] = IF r = new THEN made
                             ELSE IF r \in prev THEN [rev[r] EXCEPT !.status = "EXPIRED"] ELSE rev[r]
        BY <3>3 DEF Expired
      <3>6. ASSUME NEW r \in RevIds, r \in prev
            PROVE  rev[r] # NoRev /\ [rev[r] EXCEPT !.status = "EXPIRED"] # NoRev
        <4>1. rev[r] # NoRev /\ "status" \in DOMAIN rev[r]
          BY <3>2, <3>6 DEF PreviousRevisions, RevisionsOwned
        <4>2. [rev[r] EXCEPT !.status = "EXPIRED"].status = "EXPIRED"
          BY <4>1
        <4> QED
          BY <4>1, <4>2 DEF NoRev
      <3>7. \A r \in RevIds : rev'[r] # NoRev <=> (rev[r] # NoRev \/ r = new)
        BY <3>4, <3>5, <3>6
      <3>8. \A r \in RevIds, i \in Jobs :
              InstalledBy(i) /\ RevisionId(i) = r => rev'[r] # NoRev
        <4> SUFFICES ASSUME NEW r \in RevIds, NEW i \in Jobs, InstalledBy(i), RevisionId(i) = r
                     PROVE  rev'[r] # NoRev
          OBVIOUS
        <4>1. rev' = [Expired(PreviousRevisions(job[i].doc)) EXCEPT ![r] =
                       [status |-> "ACTIVE", hash |-> job[i].content, tenant |-> job[i].tenant]]
          BY DEF InstalledBy
        <4>2. rev'[r] = [status |-> "ACTIVE", hash |-> job[i].content, tenant |-> job[i].tenant]
          BY <4>1 DEF Expired
        <4> QED
          BY <4>2 DEF NoRev
      <3> QED
        BY <3>3, <3>7, <3>8 DEF NothingIsLost
    <2>2. CASE ~\E j \in Jobs : InstalledBy(j)
      <3>1. UNCHANGED <<rev, hasRev>>
        BY <2>2, GraphSteps
      <3> QED
        BY <2>2, <3>1 DEF NothingIsLost
    <2> QED
      BY <2>1, <2>2
  <1>2. ASSUME NEW r \in RevIds, Known(r) PROVE Known(r)'
    <2>1. CASE rev[r] # NoRev
      BY <1>1, <2>1 DEF Known
    <2>2. CASE \E j \in Jobs : pc[j] = "commit" /\ RevisionId(j) = r
      <3>1. PICK j \in Jobs : pc[j] = "commit" /\ RevisionId(j) = r
        BY <2>2
      <3>2. CASE InstalledBy(j)
        BY <1>1, <3>1, <3>2 DEF Known
      <3>3. CASE pc'[j] = "commit" /\ job'[j] = job[j]
        BY <3>1, <3>3 DEF Known, RevisionId
      <3> QED
        BY <3>1, <3>2, <3>3, CommitsArePending
    <2> QED
      BY <1>2, <2>1, <2>2 DEF Known
  <1>3. ASSUME NEW r \in RevIds, Stored(r)' PROVE Known(r)'
    <2>1. CASE Stored(r)
      BY <1>2, <2>1 DEF NothingIsLost
    <2>2. CASE rev[r] # NoRev
      BY <1>1, <2>2 DEF Known
    <2>3. CASE \E j \in Jobs : pc'[j] = "commit" /\ RevisionId(j)' = r
      BY <2>3 DEF Known
    <2> QED
      BY <1>3, <2>1, <2>2, <2>3, CommitsArePending
  <1> QED
    BY <1>1, <1>3 DEF NothingIsLost

\* What a delete looks for is all there is, when there is one tenant.
LEMMA FindsAll ==
  ASSUME \A t \in Tenants, u \in Tenants : t = u, RevisionsOwned, NothingIsLost,
         NEW d \in Docs, NEW t \in Tenants, NEW r \in RevIds, r[1] = d, rev[r] # NoRev
  PROVE  r \in RevisionsToDelete(d, t)
  <1>1. r \in hasRev /\ rev[r].tenant = t
    BY DEF NothingIsLost, RevisionsOwned
  <1> QED
    BY <1>1 DEF RevisionsToDelete

\* Nothing about the documents changes but that stores may be emptied.
LEMMA StoresForget ==
  ASSUME NothingIsLost, UNCHANGED <<pc, job, rev, hasRev>>,
         \A r \in RevIds : vector[r] = None => vector'[r] = None,
         \A k \in BlobKeys : blob[k] = None => blob'[k] = None
  PROVE  NothingIsLost'
  <1>1. \A r : Known(r)' <=> Known(r)
    BY DEF Known, RevisionId
  <1>2. \A r \in RevIds, t \in Tenants : <<t, r, "text">> \in BlobKeys
    BY DEF BlobKeys, BlobKinds
  <1>3. \A r \in RevIds : Stored(r)' => Stored(r)
    BY <1>2 DEF Stored
  <1> QED
    BY <1>1, <1>3 DEF NothingIsLost

\* Every step keeps what the first delete knows.
LEMMA DocumentsStep ==
  ASSUME \A t \in Tenants, u \in Tenants : t = u,
         StoresShaped, JobsOwned, RevisionsOwned, DeleteKnows, DocumentsKnown,
         [LifecycleNext]_allVars
  PROVE  DocumentsKnown'
  <1> SUFFICES ASSUME faults' = 0, First'
               PROVE  (~del.errors /\ NothingIsLost /\ FoundAll)'
    BY DEF DocumentsKnown
  <1>1. CASE JobStep
    <2>1. /\ del' = [del EXCEPT !.alone = del.alone /\ (del.at = "idle" \/ JobsQuiet'),
                                !.overtaken = del.overtaken \/ Overtakes]
          /\ deletes' = deletes
      BY <1>1 DEF JobStep
    <2>2. /\ del'.at = del.at /\ del'.errors = del.errors /\ del'.doc = del.doc
          /\ del'.revs = del.revs
          /\ del'.alone = (del.alone /\ (del.at = "idle" \/ JobsQuiet'))
      BY <2>1 DEF DeleteKnows, NoDelete
    <2>3. faults' = faults /\ faults = 0
      BY <1>1, JobStepIsNext, FaultsAreCounted DEF Fault, StoresShaped
    <2>4. First
      BY <2>1, <2>2 DEF First
    <2>5. ~del.errors /\ NothingIsLost /\ FoundAll
      BY <2>3, <2>4 DEF DocumentsKnown
    <2>6. NothingIsLost'
      BY <1>1, <2>3, <2>5, JobStepIsNext, JobsLoseNothing
    <2>7. CASE del.at = "idle"
      BY <2>2, <2>5, <2>6, <2>7 DEF FoundAll
    <2>8. CASE del.at # "idle"
      <3>1. del.alone /\ JobsQuiet
        BY <2>1, <2>2, <2>8 DEF First, DeleteKnows
      <3>2. rev' = rev
        BY <1>1, <3>1, QuietJobs, JobStepIsNext
      <3> QED
        BY <2>2, <2>5, <2>6, <3>2 DEF FoundAll
    <2> QED
      BY <2>7, <2>8
  <1>2. ASSUME NEW d \in Docs, NEW t \in Tenants, NEW keep \in BOOLEAN, DeleteStarts(d, t, keep)
        PROVE  (~del.errors /\ NothingIsLost /\ FoundAll)'
    <2>1. /\ del' = [at |-> "purge", doc |-> d, tenant |-> t, keep |-> keep,
                     revs |-> RevisionsToDelete(d, t), todo |-> RevisionsToDelete(d, t),
                     errors |-> FALSE, alone |-> JobsQuiet, overtaken |-> FALSE]
          /\ deletes' = deletes + 1 /\ UNCHANGED <<pc, job, rev, hasRev, vector, blob, faults>>
          /\ del.at = "idle"
      BY <1>2 DEF DeleteStarts, vars, jobVars, graphVars, storeVars
    <2>2. deletes = 0
      BY <2>1 DEF First, DeleteKnows
    <2>3. NothingIsLost
      BY <2>1, <2>2 DEF DocumentsKnown, First
    <2>4. NothingIsLost'
      BY <2>1, <2>3, StoresForget
    <2>5. \A r \in RevIds : r[1] = d /\ rev[r] # NoRev => r \in RevisionsToDelete(d, t)
      BY <2>3, FindsAll
    <2>6. del'.doc = d /\ del'.revs = RevisionsToDelete(d, t) /\ del'.errors = FALSE
      BY <2>1
    <2>7. FoundAll'
      BY <2>1, <2>5, <2>6 DEF FoundAll
    <2> QED
      BY <2>4, <2>6, <2>7
  <1>3. ASSUME NEW r \in RevIds, DeletePurges(r)
        PROVE  (~del.errors /\ NothingIsLost /\ FoundAll)'
    <2>1. PICK wanted : wanted = IF del.keep THEN Stores \ {"source"} ELSE Stores
      OBVIOUS
    <2>2. /\ PurgeRevision(del.tenant, r, wanted) /\ del.at = "purge"
          /\ del' = [del EXCEPT !.todo = del.todo \ {r}, !.errors = del.errors \/ faults' # faults,
                                !.at = IF del.todo = {r} THEN "nodes" ELSE "purge"]
          /\ UNCHANGED <<deletes, pc, job, rev, hasRev>>
      BY <1>3, <2>1 DEF DeletePurges, jobVars, graphVars
    <2>3. /\ del'.errors = (del.errors \/ faults' # faults) /\ del'.doc = del.doc
          /\ del'.revs = del.revs /\ del'.alone = del.alone /\ del'.at # "idle"
      BY <2>2 DEF DeleteKnows, NoDelete
    <2>4. faults' = faults
      BY <2>2 DEF PurgeRevision, Fault, StoresShaped
    <2>5. First
      BY <2>2, <2>3 DEF First
    <2>6. ~del.errors /\ NothingIsLost /\ FoundAll
      BY <2>4, <2>5 DEF DocumentsKnown
    <2>7. NothingIsLost'
      BY <2>2, <2>6, PurgeShrinks, StoresForget
    <2> QED
      BY <2>2, <2>3, <2>4, <2>6, <2>7 DEF FoundAll
  <1>4. CASE DeleteNodes
    <2>1. /\ del' = [del EXCEPT !.at = "logical"] /\ del.at = "nodes"
          /\ rev' = [r \in RevIds |-> IF r \in del.revs THEN NoRev ELSE rev[r]]
          /\ hasRev' = hasRev \ del.revs
          /\ UNCHANGED <<deletes, pc, job, vector, blob, faults>>
      BY <1>4 DEF DeleteNodes, jobVars, storeVars
    <2>2. /\ del'.errors = del.errors /\ del'.doc = del.doc
          /\ del'.revs = del.revs /\ del'.alone = del.alone
      BY <2>1 DEF DeleteKnows, NoDelete
    <2>3. First /\ del.alone
      BY <2>1, <2>2 DEF First, DeleteKnows
    <2>4. ~del.errors /\ NothingIsLost /\ FoundAll
      BY <2>1, <2>3 DEF DocumentsKnown
    <2>5. del.todo = {} /\ del.tenant \in Tenants
          /\ \A r \in RevIds : r \in del.revs => Purged(r)
      BY <2>1, <2>3, <2>4 DEF DeleteKnows
    <2>6. ASSUME NEW r \in RevIds, r \in del.revs PROVE ~Stored(r)
      BY <2>5, <2>6 DEF Purged, Stored
    <2>7. ASSUME NEW r \in RevIds PROVE (rev[r] # NoRev <=> r \in hasRev)' /\ (Stored(r) => Known(r))'
      <3>1. rev[r] # NoRev <=> r \in hasRev
        BY <2>4 DEF NothingIsLost
      <3>2. Stored(r)' <=> Stored(r)
        BY <2>1 DEF Stored
      <3>3. r \notin del.revs => rev'[r] = rev[r]
        BY <2>1
      <3>4. Stored(r) => Known(r) /\ r \notin del.revs
        BY <2>4, <2>6 DEF NothingIsLost
      <3>5. r \notin del.revs /\ Known(r) => Known(r)'
        BY <2>1, <3>3 DEF Known, RevisionId
      <3> QED
        BY <2>1, <3>1, <3>2, <3>3, <3>4, <3>5
    <2>8. FoundAll'
      BY <2>1, <2>2, <2>4 DEF FoundAll
    <2> QED
      BY <2>2, <2>4, <2>7, <2>8 DEF NothingIsLost
  <1>5. CASE DeleteLogical \/ DeleteDies
    <2>1. del' = NoDelete /\ deletes' = deletes /\ del.at # "idle"
      BY <1>5 DEF DeleteLogical, DeleteDies
    <2>2. ~First'
      BY <2>1 DEF First, NoDelete, DeleteKnows
    <2> QED
      BY <2>2
  <1>6. CASE UNCHANGED allVars \/ SweepListsOrphans \/ SweepFinishes
             \/ \E keep \in BOOLEAN : SweepReadsLive(keep)
    <2>1. UNCHANGED <<del, deletes, pc, job, rev, hasRev, vector, blob, faults>>
      BY <1>6 DEF allVars, lifecycleVars, SweepListsOrphans, SweepFinishes, SweepReadsLive,
         vars, jobVars, graphVars, storeVars
    <2>2. ~del.errors /\ NothingIsLost /\ FoundAll
      BY <2>1 DEF DocumentsKnown, First
    <2> QED
      BY <2>1, <2>2, StoresForget DEF FoundAll
  <1>7. CASE (\E p \in Tenants \X RevIds : SweepPurges(p)) \/ \E r \in RevIds : SweepClearsVectors(r)
    <2>1. /\ UNCHANGED <<del, deletes, pc, job, rev, hasRev>>
          /\ \A q \in RevIds : vector[q] = None => vector'[q] = None
          /\ \A k \in BlobKeys : blob[k] = None => blob'[k] = None
          /\ faults' = faults
      <3>1. CASE \E p \in Tenants \X RevIds : SweepPurges(p)
        <4>1. PICK p \in Tenants \X RevIds : SweepPurges(p)
          BY <3>1
        <4>2. PICK wanted : PurgeRevision(p[1], p[2], wanted)
          BY <4>1 DEF SweepPurges
        <4>3. faults' = faults
          BY <4>2 DEF PurgeRevision, Fault, StoresShaped
        <4>4. UNCHANGED <<del, deletes, pc, job, rev, hasRev>> /\ p[2] \in RevIds
          BY <4>1 DEF SweepPurges, jobVars, graphVars
        <4> QED
          BY <4>2, <4>3, <4>4, PurgeShrinks
      <3>2. CASE \E r \in RevIds : SweepClearsVectors(r)
        BY <3>2 DEF SweepClearsVectors, StoresShaped, OverKeys, jobVars, graphVars
      <3> QED
        BY <1>7, <3>1, <3>2
    <2>2. ~del.errors /\ NothingIsLost /\ FoundAll
      BY <2>1 DEF DocumentsKnown, First
    <2> QED
      BY <2>1, <2>2, StoresForget DEF FoundAll
  <1> QED
    BY <1>1, <1>2, <1>3, <1>4, <1>5, <1>6, <1>7 DEF LifecycleNext

\* A delete is of a document that may have a DocumentLogical node.
NamesADocument ==
    dl = [d \in Docs |-> dl[d]] /\ (del.at # "idle" => del.doc \in Docs)

\* Every step keeps it so.
LEMMA NamesStep ==
  ASSUME DeleteKnows, NamesADocument, [LifecycleNext]_allVars
  PROVE  NamesADocument'
  <1>1. dl' = [d \in Docs |-> dl'[d]]
    <2>1. CASE dl' = dl
      BY <2>1 DEF NamesADocument
    <2>2. ASSUME NEW d, NEW x, dl' = [dl EXCEPT ![d] = x] PROVE dl' = [e \in Docs |-> dl'[e]]
      BY <2>2 DEF NamesADocument
    <2>3. ASSUME NEW j \in Jobs, InstalledBy(j) PROVE dl' = [e \in Docs |-> dl'[e]]
      BY <2>2, <2>3 DEF InstalledBy
    <2>4. CASE \E j \in Jobs : WorkerStep(j)
      BY <2>1, <2>3, <2>4 DEF WorkerStep, StartJob, EnsureRbacSchema, InputMissing,
         ResolveLogicalId, CheckDuplicate, PlanRevision, WriteSnapshots, AcquireLock,
         LoadDuplicateCheck, BeginInstallTx, DualWriteChunks, RevisionIdTaken, CommitInstallTx,
         PurgeSuperseded, PersistSourceFile, FinishJob, graphVars
    <2>5. CASE \E j \in Jobs : JobFault(j)
      BY <2>1, <2>3, <2>5 DEF JobFault, RbacSchemaFails, ProcessingFails, ProceedWithoutLock,
         CommitOutcomeLost, AbortInstallTx, RetryInstallTx, ProcessDies, WorkerDies,
         ApiProcessDies, Redeliver, QueuedJobExpires, graphVars
    <2>6. CASE JobStep
      BY <2>1, <2>4, <2>5, <2>6 DEF JobStep, Submit, ExpireLock, graphVars
    <2>7. CASE DeleteLogical
      BY <2>2, <2>7 DEF DeleteLogical
    <2> QED
      BY <2>1, <2>6, <2>7 DEF LifecycleNext, DeleteStarts, DeletePurges, DeleteNodes, DeleteDies,
         SweepReadsLive, SweepListsOrphans, SweepPurges, SweepClearsVectors, SweepFinishes,
         allVars, vars, graphVars
  <1>2. del'.at # "idle" => del'.doc \in Docs
    <2>1. CASE \/ JobStep \/ \E r \in RevIds : DeletePurges(r)
               \/ DeleteNodes
      <3>1. del'.doc = del.doc /\ (del.at = "idle" => del'.at = "idle")
        BY <2>1 DEF JobStep, DeletePurges, DeleteNodes, DeleteKnows, NoDelete
      <3> QED
        BY <3>1 DEF NamesADocument
    <2>2. CASE DeleteLogical \/ DeleteDies
      BY <2>2 DEF DeleteLogical, DeleteDies, NoDelete
    <2>3. CASE \E d \in Docs, t \in Tenants, keep \in BOOLEAN : DeleteStarts(d, t, keep)
      BY <2>3 DEF DeleteStarts
    <2>4. CASE del' = del
      BY <2>4 DEF NamesADocument
    <2> QED
      BY <2>1, <2>2, <2>3, <2>4 DEF LifecycleNext, SweepReadsLive, SweepListsOrphans, SweepPurges,
         SweepClearsVectors, SweepFinishes, allVars, lifecycleVars
  <1> QED
    BY <1>1, <1>2 DEF NamesADocument

\* The invariant of deletes.
DeleteInvariant == SweepInvariant /\ DeleteKnows /\ DocumentsKnown /\ NamesADocument

\* Initially nothing is stored and nothing is being deleted.
LEMMA DeleteInit == LifecycleInit => DeleteInvariant
  <1> SUFFICES ASSUME LifecycleInit PROVE DeleteInvariant
    OBVIOUS
  <1>1. SweepInvariant
    BY SweepInit
  <1>2. DeleteKnows
    BY DEF LifecycleInit, NoDelete, DeleteKnows
  <1>3. \A r \in RevIds, t \in Tenants : <<t, r, "text">> \in BlobKeys
    BY DEF BlobKeys, BlobKinds
  <1>4. NothingIsLost
    BY <1>3 DEF LifecycleInit, Init, NothingIsLost, Stored
  <1>5. DocumentsKnown
    BY <1>4 DEF LifecycleInit, NoDelete, DocumentsKnown, FoundAll
  <1>6. NamesADocument
    BY DEF LifecycleInit, Init, NoDelete, NamesADocument
  <1> QED BY <1>1, <1>2, <1>5, <1>6 DEF DeleteInvariant

\* A delete that runs beside no job and reports no error leaves nothing of
\* the revisions it found, and, if nothing failed before and it is the first,
\* nothing of the document.
THEOREM DeleteIsComplete ==
  ASSUME \A t \in Tenants, u \in Tenants : t = u
  PROVE  LifecycleSpec => DeleteLeavesNoTrace
PROOF
  <1> DEFINE Gone ==
               /\ dl'[del.doc] = None
               /\ \A r \in RevIds : r \in del.revs =>
                    /\ rev'[r] = NoRev /\ nodes'[r] = None /\ vector'[r] = None
                    /\ \A k \in {"text", "snapshot"} : blob'[<<del.tenant, r, k>>] = None
                    /\ ~del.keep => blob'[<<del.tenant, r, "source">>] = None
               /\ (faults = 0 /\ deletes = 1) => \A r \in RevIds : r[1] = del.doc =>
                    /\ rev'[r] = NoRev /\ nodes'[r] = None /\ vector'[r] = None
                    /\ blob'[<<del.tenant, r, "text">>] = None
             Deletes == (DeleteLogical /\ del.alone /\ ~del.errors) => Gone
  <1>1. DeleteInvariant => [Deletes]_allVars
    <2> SUFFICES ASSUME DeleteInvariant, DeleteLogical, del.alone, ~del.errors PROVE Gone
      OBVIOUS
    <2>1. /\ StoresShaped /\ JobsOwned /\ GraphInvariant /\ DeleteKnows /\ DocumentsKnown
      BY DEF DeleteInvariant, SweepInvariant
    <2>2. /\ del.at = "logical" /\ UNCHANGED <<rev, nodes, vector, blob>>
          /\ dl' = [dl EXCEPT ![del.doc] = None]
      BY DEF DeleteLogical, storeVars
    <2>3. /\ \A r \in RevIds : r \in del.revs => Purged(r) /\ rev[r] = NoRev
          /\ JobsQuiet /\ del.tenant \in Tenants
      BY <2>1, <2>2 DEF DeleteKnows
    <2>4. \A r \in RevIds : rev[r] = NoRev => nodes[r] = None
      BY <2>1 DEF GraphInvariant, ContentFollowsStatus, MarkedActive
    <2>5. ASSUME faults = 0, deletes = 1, NEW r \in RevIds, r[1] = del.doc
          PROVE  rev[r] = NoRev /\ ~Stored(r)
      <3>1. NothingIsLost /\ FoundAll
        BY <2>1, <2>2, <2>5 DEF DocumentsKnown, First
      <3>2. rev[r] = NoRev
        BY <2>2, <2>3, <2>5, <3>1 DEF FoundAll
      <3>3. ~Known(r)
        BY <2>3, <3>2 DEF Known, JobsQuiet, Ended
      <3> QED
        BY <3>1, <3>2, <3>3 DEF NothingIsLost
    <2>6. dl'[del.doc] = None
      BY <2>2 DEF DeleteInvariant, NamesADocument
    <2> QED
      BY <2>2, <2>3, <2>4, <2>5, <2>6 DEF Purged, Stored
  <1>2. DeleteInvariant /\ [LifecycleNext]_allVars => DeleteInvariant'
    BY GraphStep, StoresStep, SweepStep, DeleteStep, DocumentsStep, NamesStep
    DEF DeleteInvariant, SweepInvariant
  <1>3. DeleteLeavesNoTrace <=> [][Deletes]_allVars
    BY PTL DEF DeleteLeavesNoTrace
  <1> HIDE DEF Deletes
  <1> QED BY <1>1, <1>2, <1>3, DeleteInit, PTL DEF LifecycleSpec

----------------------------------------------------------------------------
(* ACTIVE revisions beside deletes. *)

\* An ACTIVE revision is linked to its document, and a delete takes it along,
\* unless it was installed after the delete had looked the revisions up.
ActiveIsFound ==
    /\ activeRev \subseteq hasRev
    /\ \A r \in RevIds : MarkedActive(r) /\ r[1] \notin raced => r \in activeRev
    /\ del.at \in {"purge", "nodes", "logical"} /\ ~del.overtaken /\ del.doc \notin raced =>
        \A r \in RevIds : r[1] = del.doc /\ MarkedActive(r) =>
            del.at # "logical" /\ r \in del.revs

\* A commit marks its own revision ACTIVE, and none that was not before.
LEMMA CommitMarksOne ==
  ASSUME RevisionsOwned, NEW j, InstalledBy(j), NEW r \in RevIds, MarkedActive(r)'
  PROVE  r = RevisionId(j) \/ (MarkedActive(r) /\ r \notin PreviousRevisions(job[j].doc))
PROOF
  <1> DEFINE prev == PreviousRevisions(job[j].doc)
  <1> SUFFICES ASSUME r # RevisionId(j) PROVE MarkedActive(r) /\ r \notin prev
    OBVIOUS
  <1>1. rev'[r] = IF r \in prev THEN [rev[r] EXCEPT !.status = "EXPIRED"] ELSE rev[r]
    BY DEF InstalledBy, Expired
  <1>2. r \in prev => "status" \in DOMAIN rev[r]
    BY DEF PreviousRevisions, RevisionsOwned
  <1> HIDE DEF prev
  <1>3. r \in prev => rev'[r].status = "EXPIRED"
    BY <1>1, <1>2
  <1> QED BY <1>1, <1>3 DEF MarkedActive

\* Every step keeps it so.
LEMMA FoundStep ==
  ASSUME \A t \in Tenants, u \in Tenants : t = u,
         RevisionsOwned, DeleteKnows, ActiveIsFound, [LifecycleNext]_allVars
  PROVE  ActiveIsFound'
PROOF
  <1>1. CASE JobStep
    <2>1. /\ del' = [del EXCEPT !.alone = del.alone /\ (del.at = "idle" \/ JobsQuiet'),
                                !.overtaken = del.overtaken \/ Overtakes]
          /\ raced' = raced
      BY <1>1 DEF JobStep
    <2>2. /\ del'.at = del.at /\ del'.doc = del.doc /\ del'.revs = del.revs
          /\ del'.overtaken = (del.overtaken \/ Overtakes)
      BY <2>1 DEF DeleteKnows, NoDelete
    <2>3. ~del'.overtaken => ~del.overtaken /\ \A r \in RevIds : r[1] = del.doc => rev'[r] = rev[r]
      BY <2>2 DEF Overtakes
    <2>4. CASE UNCHANGED <<rev, hasRev, activeRev>>
      BY <2>1, <2>2, <2>3, <2>4 DEF ActiveIsFound, MarkedActive
    <2>5. ASSUME NEW j \in Jobs, InstalledBy(j) PROVE ActiveIsFound'
      <3>1. /\ activeRev' = (activeRev \ PreviousRevisions(job[j].doc)) \cup {RevisionId(j)}
            /\ hasRev' = hasRev \cup {RevisionId(j)}
        BY <2>5 DEF InstalledBy
      <3>2. \A r \in RevIds : MarkedActive(r)' /\ r[1] \notin raced => r \in activeRev'
        BY <2>5, <3>1, CommitMarksOne DEF ActiveIsFound
      <3>3. ~del'.overtaken => \A r \in RevIds : r[1] = del.doc => MarkedActive(r)' = MarkedActive(r)
        BY <2>3 DEF MarkedActive
      <3> QED BY <2>1, <2>2, <2>3, <3>1, <3>2, <3>3 DEF ActiveIsFound
    <2> QED BY <1>1, <2>4, <2>5, JobStepIsNext, GraphSteps
  <1>2. ASSUME NEW d \in Docs, NEW t \in Tenants, NEW keep \in BOOLEAN, DeleteStarts(d, t, keep)
        PROVE  ActiveIsFound'
    <2>1. /\ del'.at = "purge" /\ del'.doc = d /\ del'.revs = RevisionsToDelete(d, t)
          /\ UNCHANGED <<rev, hasRev, activeRev, raced>>
      BY <1>2 DEF DeleteStarts, vars, graphVars
    <2>2. ASSUME d \notin raced, NEW r \in RevIds, r[1] = d, MarkedActive(r)
          PROVE  r \in RevisionsToDelete(d, t)
      <3>1. r \in hasRev
        BY <2>2 DEF ActiveIsFound
      <3>2. rev[r] # NoRev /\ rev[r].tenant = t
        BY <2>2 DEF MarkedActive, RevisionsOwned
      <3> QED BY <2>2, <3>1, <3>2 DEF RevisionsToDelete
    <2> QED BY <2>1, <2>2 DEF ActiveIsFound, MarkedActive
  <1>3. ASSUME NEW r \in RevIds, DeletePurges(r) PROVE ActiveIsFound'
    <2>1. /\ del.at = "purge" /\ del'.at \in {"nodes", "purge"} /\ del'.doc = del.doc
          /\ del'.revs = del.revs /\ del'.overtaken = del.overtaken
          /\ UNCHANGED <<rev, hasRev, activeRev, raced>>
      BY <1>3 DEF DeletePurges, DeleteKnows, NoDelete, graphVars
    <2> QED BY <2>1 DEF ActiveIsFound, MarkedActive
  <1>4. CASE DeleteNodes
    <2>1. /\ del.at = "nodes" /\ del'.at = "logical" /\ del'.doc = del.doc
          /\ del'.revs = del.revs /\ del'.overtaken = del.overtaken /\ raced' = raced
      BY <1>4 DEF DeleteNodes, DeleteKnows, NoDelete
    <2>2. /\ rev' = [r \in RevIds |-> IF r \in del.revs THEN NoRev ELSE rev[r]]
          /\ hasRev' = hasRev \ del.revs /\ activeRev' = activeRev \ del.revs
      BY <1>4 DEF DeleteNodes
    <2>3. \A r \in RevIds : MarkedActive(r)' => MarkedActive(r) /\ r \notin del.revs
      BY <2>2 DEF MarkedActive
    <2> QED BY <2>1, <2>2, <2>3 DEF ActiveIsFound
  <1>5. CASE DeleteLogical
    <2>1. /\ del.at = "logical" /\ del'.at = "idle" /\ UNCHANGED rev
          /\ hasRev' = {r \in hasRev : r[1] # del.doc}
          /\ activeRev' = {r \in activeRev : r[1] # del.doc}
          /\ raced' = IF del.overtaken THEN raced \cup {del.doc} ELSE raced
      BY <1>5 DEF DeleteLogical, NoDelete
    <2> QED BY <2>1 DEF ActiveIsFound, MarkedActive
  <1>6. CASE DeleteDies
    BY <1>6 DEF DeleteDies, NoDelete, ActiveIsFound, MarkedActive, graphVars
  <1>7. CASE UNCHANGED <<rev, hasRev, activeRev, raced, del>>
    BY <1>7 DEF ActiveIsFound, MarkedActive
  <1> QED
    BY <1>1, <1>2, <1>3, <1>4, <1>5, <1>6, <1>7
    DEF LifecycleNext, SweepReadsLive, SweepListsOrphans, SweepPurges, SweepClearsVectors,
        SweepFinishes, allVars, lifecycleVars, vars, graphVars

\* Where there is one tenant, a document has one ACTIVE revision at most, and
\* links it, as long as no delete of it was overtaken by an install.
THEOREM OneActiveBesideDeletes ==
  ASSUME \A t \in Tenants, u \in Tenants : t = u
  PROVE  LifecycleSpec => []OneActiveUnlessRaced
PROOF
  <1>1. LifecycleInit => DeleteInvariant /\ ActiveIsFound
    <2>1. LifecycleInit => ActiveIsFound
      BY DEF LifecycleInit, Init, NoDelete, ActiveIsFound, MarkedActive
    <2> QED BY <2>1, DeleteInit
  <1>2. DeleteInvariant /\ ActiveIsFound /\ [LifecycleNext]_allVars
            => (DeleteInvariant /\ ActiveIsFound)'
    BY GraphStep, StoresStep, SweepStep, DeleteStep, DocumentsStep, NamesStep, FoundStep
    DEF DeleteInvariant, SweepInvariant
  <1>3. DeleteInvariant /\ ActiveIsFound => OneActiveUnlessRaced
    BY DEF DeleteInvariant, SweepInvariant, GraphInvariant, OneLinked, ActiveIsFound,
       OneActiveUnlessRaced
  <1> QED BY <1>1, <1>2, <1>3, PTL DEF LifecycleSpec

=============================================================================
