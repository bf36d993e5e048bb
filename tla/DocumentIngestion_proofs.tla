---------------------- MODULE DocumentIngestion_proofs ----------------------
(***************************************************************************)
(* Proofs about DocumentIngestion, for every set of jobs, tenants,         *)
(* documents and contents and every bound, and that it implements          *)
(* RevisionHistory.                                                        *)
(***************************************************************************)
EXTENDS IngestionRefinement, SequenceTheorems, TLAPS

\* Control points between planning a revision and committing it.
Planned == {"snapshot", "lock", "load", "begin", "dual", "commit"}

\* Control points at which a job's install transaction is open.
OpenTx == {"dual", "commit"}

\* Job j moves to control point l and its record becomes x.
MoveTo(j, l, x) ==
    /\ pc' = [pc EXCEPT ![j] = l]
    /\ job' = [job EXCEPT ![j] = x]

\* The plan recorded in x follows the revisions of its document.
PlanHolds(x) ==
    /\ x.ver \in Versions
    /\ \A v \in Versions : v < x.ver => <<x.doc, v>> \in hasRev

----------------------------------------------------------------------------
(* Lemmas about the operators of the model. *)

\* A submitted job has a job record, and its fields have their types.
LEMMA JobFields ==
  ASSUME TypeOK, NEW j \in Jobs, pc[j] # "new"
  PROVE  /\ job[j] \in IngestionJob
         /\ job[j].tenant \in Tenants /\ job[j].key \in Docs
         /\ job[j].content \in Contents /\ job[j].doc \in Docs
         /\ job[j].ver \in Versions \cup {0}
  BY DEF TypeOK, IngestionJob

\* The version number next_version_number returns is the least one that no
\* revision of the document has.
LEMMA NextVersionIsFree ==
  ASSUME ConstantsAssumption, TypeOK, VersionsContiguous, NEW d \in Docs
  PROVE  /\ NextVersion(d) \in Nat \ {0}
         /\ \A v \in Versions : <<d, v>> \in hasRev <=> v < NextVersion(d)
PROOF
  <1>1. PICK n \in 0..MaxVersion : \A v \in Versions : <<d, v>> \in hasRev <=> v <= n
    BY DEF VersionsContiguous
  <1>2. n \in Nat /\ MaxVersion \in Nat
    BY DEF ConstantsAssumption
  <1>3. VersionsOf(d) = 1..n
    BY <1>1, <1>2 DEF VersionsOf, Versions
  <1>4. CASE n = 0
    BY <1>1, <1>2, <1>3, <1>4 DEF NextVersion, Versions
  <1>5. CASE n # 0
    <2>1. n \in VersionsOf(d) /\ \A w \in VersionsOf(d) : w <= n
      BY <1>2, <1>3, <1>5
    <2>2. (CHOOSE v \in VersionsOf(d) : \A w \in VersionsOf(d) : w <= v) = n
      <3> DEFINE m == CHOOSE v \in VersionsOf(d) : \A w \in VersionsOf(d) : w <= v
      <3>1. m \in VersionsOf(d) /\ \A w \in VersionsOf(d) : w <= m
        BY <2>1
      <3> QED BY <3>1, <2>1, <1>2, <1>3
    <2>3. NextVersion(d) = 1 + n
      BY <2>1, <2>2 DEF NextVersion
    <2> QED BY <2>3, <1>1, <1>2 DEF Versions
  <1> QED BY <1>4, <1>5

\* What a move of one job does to the job store.
LEMMA MoveType ==
  ASSUME TypeOK, NEW j \in Jobs, NEW l \in PC, NEW x \in IngestionJob, MoveTo(j, l, x)
  PROVE  /\ pc' \in [Jobs -> PC]
         /\ job' \in [Jobs -> IngestionJob \cup {None}]
         /\ \A i \in Jobs : pc'[i] # "new" => job'[i] \in IngestionJob
         /\ pc'[j] = l /\ job'[j] = x
         /\ \A i \in Jobs \ {j} : pc'[i] = pc[i] /\ job'[i] = job[i]
  BY DEF MoveTo, TypeOK

\* A step of one job that leaves the graph alone preserves the invariant if
\* it preserves the parts about the stores and the transactions.
LEMMA GraphlessStep ==
  ASSUME InstallInvariant, NEW j \in Jobs, NEW l \in PC, NEW x \in IngestionJob,
         MoveTo(j, l, x), UNCHANGED graphVars,
         superseded' \in [Jobs -> RevIds \cup {None}],
         tx' \in [Docs -> Jobs \cup {None}],
         lock' \in [Tenants \X Docs -> Jobs \cup {None, Orphaned}],
         blob' \in [BlobKeys -> Contents \cup {None}],
         vector' \in [RevIds -> Contents \cup {None}],
         faults' \in 0..MaxFaults,
         l \in Planned => PlanHolds(x),
         TransactionsHeld', CommitsAreStored', PurgesAreOfExpired', ActiveIsStored'
  PROVE  InstallInvariant'
PROOF
  <1>1. TypeOK
    BY DEF InstallInvariant
  <1>2. TypeOK'
    BY <1>1, MoveType DEF TypeOK, graphVars
  <1>3. RevisionsLinked' /\ VersionsContiguous' /\ ContentFollowsLifecycle'
    BY DEF InstallInvariant, RevisionsLinked, VersionsContiguous,
           ContentFollowsLifecycle, MarkedActive, graphVars
  <1>4. PlansFollowVersions'
    <2>1. hasRev' = hasRev
      BY DEF graphVars
    <2> SUFFICES ASSUME NEW i \in Jobs, pc'[i] \in Planned
                 PROVE  /\ job'[i].ver \in Versions
                        /\ \A v \in Versions : v < job'[i].ver => <<job'[i].doc, v>> \in hasRev
      BY <2>1 DEF PlansFollowVersions, Planned
    <2>2. CASE i = j
      BY <1>1, <2>2, MoveType DEF PlanHolds
    <2>3. CASE i # j
      BY <1>1, <2>3, MoveType DEF InstallInvariant, PlansFollowVersions, Planned
    <2> QED BY <2>2, <2>3
  <1> QED BY <1>2, <1>3, <1>4 DEF InstallInvariant

\* Neither a text nor an embedding is lost from the stores.
StoresKept ==
    /\ \A k \in BlobKeys : k[3] = "text" /\ blob[k] # None => blob'[k] # None
    /\ \A r \in RevIds : vector[r] # None => vector'[r] # None

\* As long as nothing stored is lost, the ACTIVE revisions stay served.
LEMMA ActiveKept ==
  ASSUME InstallInvariant, UNCHANGED <<activeRev, rev>>, StoresKept
  PROVE  ActiveIsStored'
PROOF
  <1> SUFFICES ASSUME NEW r \in activeRev
               PROVE  blob'[<<rev[r].tenant, r, "text">>] # None /\ vector'[r] # None
    BY DEF ActiveIsStored
  <1>1. TypeOK
    BY DEF InstallInvariant
  <1>2. r \in RevIds
    BY <1>1 DEF TypeOK
  <1>3. rev[r] \in DocRevision
    BY <1>1, <1>2 DEF InstallInvariant, ContentFollowsLifecycle, MarkedActive, TypeOK
  <1>4. <<rev[r].tenant, r, "text">> \in BlobKeys
    BY <1>2, <1>3 DEF BlobKeys, BlobKinds, DocRevision
  <1> QED BY <1>2, <1>4 DEF InstallInvariant, ActiveIsStored, StoresKept

\* A step of one job that neither commits, nor loses anything stored.
LEMMA QuietStep ==
  ASSUME InstallInvariant, NEW j \in Jobs, NEW l \in PC, NEW x \in IngestionJob,
         MoveTo(j, l, x), UNCHANGED graphVars,
         superseded' \in [Jobs -> RevIds \cup {None}],
         \A i \in Jobs : superseded'[i] \in {superseded[i], None},
         tx' \in [Docs -> Jobs \cup {None}],
         lock' \in [Tenants \X Docs -> Jobs \cup {None, Orphaned}],
         blob' \in [BlobKeys -> Contents \cup {None}],
         vector' \in [RevIds -> Contents \cup {None}],
         faults' \in 0..MaxFaults,
         l \in Planned => PlanHolds(x),
         l # "commit", TransactionsHeld', StoresKept
  PROVE  InstallInvariant'
PROOF
  <1>1. TypeOK
    BY DEF InstallInvariant
  <1>2. CommitsAreStored'
    <2>1. hasRev' = hasRev
      BY DEF graphVars
    <2> SUFFICES ASSUME NEW i \in Jobs, pc'[i] = "commit"
                 PROVE  /\ RevisionId(i)' \notin hasRev
                        /\ blob'[<<job'[i].tenant, RevisionId(i)', "text">>] # None
                        /\ vector'[RevisionId(i)'] # None
      BY <2>1 DEF CommitsAreStored
    <2>2. i # j /\ pc[i] = "commit" /\ job'[i] = job[i]
      BY <1>1, MoveType
    <2>3. RevisionId(i)' = RevisionId(i)
      BY <2>2 DEF RevisionId
    <2>4. RevisionId(i) \in RevIds /\ job[i].tenant \in Tenants
      BY <1>1, <2>2, JobFields DEF InstallInvariant, PlansFollowVersions, RevisionId, RevIds
    <2>5. <<job[i].tenant, RevisionId(i), "text">> \in BlobKeys
      BY <2>4 DEF BlobKeys, BlobKinds
    <2> QED BY <2>2, <2>3, <2>4, <2>5 DEF InstallInvariant, CommitsAreStored, StoresKept
  <1>3. ActiveIsStored'
    BY ActiveKept DEF graphVars
  <1>4. PurgesAreOfExpired'
    BY DEF InstallInvariant, PurgesAreOfExpired, graphVars
  <1> QED BY <1>2, <1>3, <1>4, GraphlessStep

\* A job outside its transaction that stays outside keeps the write locks.
LEMMA TxKept ==
  ASSUME InstallInvariant, NEW j \in Jobs, NEW l \in PC, NEW x \in IngestionJob,
         MoveTo(j, l, x), pc[j] \notin OpenTx, l \notin OpenTx, UNCHANGED tx
  PROVE  tx' \in [Docs -> Jobs \cup {None}] /\ TransactionsHeld'
  BY MoveType DEF InstallInvariant, TypeOK, TransactionsHeld, OpenTx

\* Commit, rollback and death give the write lock back.
LEMMA TxReleased ==
  ASSUME ConstantsAssumption, InstallInvariant, NEW j \in Jobs, NEW l \in PC,
         NEW x \in IngestionJob, MoveTo(j, l, x), l \notin OpenTx,
         tx' = WithoutOwner(tx, j)
  PROVE  tx' \in [Docs -> Jobs \cup {None}] /\ TransactionsHeld'
PROOF
  <1>1. TypeOK /\ None \notin Jobs
    BY DEF InstallInvariant, ConstantsAssumption
  <1>2. \A d \in Docs : tx'[d] = IF tx[d] = j THEN None ELSE tx[d]
    BY <1>1 DEF WithoutOwner, TypeOK
  <1>3. tx' \in [Docs -> Jobs \cup {None}]
    BY <1>1 DEF WithoutOwner, TypeOK
  <1> SUFFICES ASSUME NEW i \in Jobs, NEW d \in Docs
               PROVE  tx'[d] = i <=> (pc'[i] \in {"dual", "commit"} /\ job'[i].doc = d)
    BY <1>3 DEF TransactionsHeld
  <1>4. CASE i = j
    BY <1>1, <1>2, <1>4, MoveType DEF OpenTx
  <1>5. CASE i # j
    BY <1>1, <1>2, <1>5, MoveType DEF InstallInvariant, TransactionsHeld
  <1> QED BY <1>4, <1>5

\* Releasing and orphaning keep the Redis locks well formed.
LEMMA LockType ==
  ASSUME ConstantsAssumption, TypeOK, NEW j \in Jobs
  PROVE  /\ WithoutOwner(lock, j) \in [Tenants \X Docs -> Jobs \cup {None, Orphaned}]
         /\ [k \in DOMAIN lock |-> IF lock[k] = j THEN Orphaned ELSE lock[k]]
                \in [Tenants \X Docs -> Jobs \cup {None, Orphaned}]
  BY DEF TypeOK, WithoutOwner

\* A fault is counted within its bound.
LEMMA FaultType ==
  ASSUME ConstantsAssumption, TypeOK, Fault
  PROVE  faults' \in 0..MaxFaults
  BY DEF TypeOK, Fault, ConstantsAssumption

\* A step of one job outside its transaction that touches neither the graph
\* nor the stores.
LEMMA LocalStep ==
  ASSUME InstallInvariant, NEW j \in Jobs, NEW l \in PC, NEW x \in IngestionJob,
         MoveTo(j, l, x), pc[j] \notin OpenTx, l \notin OpenTx,
         UNCHANGED <<superseded, graphVars, tx, storeVars>>,
         lock' \in [Tenants \X Docs -> Jobs \cup {None, Orphaned}],
         faults' \in 0..MaxFaults,
         l \in Planned => PlanHolds(x)
  PROVE  InstallInvariant'
PROOF
  <1>1. TypeOK
    BY DEF InstallInvariant
  <1>2. /\ superseded' \in [Jobs -> RevIds \cup {None}]
        /\ blob' \in [BlobKeys -> Contents \cup {None}]
        /\ vector' \in [RevIds -> Contents \cup {None}]
    BY <1>1 DEF TypeOK, storeVars
  <1>3. StoresKept /\ \A i \in Jobs : superseded'[i] \in {superseded[i], None}
    BY DEF StoresKept, storeVars
  <1>4. tx' \in [Docs -> Jobs \cup {None}] /\ TransactionsHeld'
    BY TxKept
  <1>5. l # "commit" /\ UNCHANGED graphVars
    BY DEF OpenTx
  <1> HIDE DEF StoresKept
  <1> QED BY <1>2, <1>3, <1>4, <1>5, QuietStep

----------------------------------------------------------------------------
(* The steps of the code. *)

\* The steps of a worker before the lock, except the snapshots.
LEMMA StepsBeforeLock ==
  ASSUME ConstantsAssumption, InstallInvariant, NEW j \in Jobs,
         \/ StartJob(j) \/ EnsureRbacSchema(j) \/ InputMissing(j)
         \/ ResolveLogicalId(j) \/ CheckDuplicate(j) \/ PlanRevision(j)
  PROVE  InstallInvariant'
PROOF
  <1>1. TypeOK /\ VersionsContiguous
    BY DEF InstallInvariant
  <1>2. /\ lock \in [Tenants \X Docs -> Jobs \cup {None, Orphaned}]
        /\ faults \in 0..MaxFaults
    BY <1>1 DEF TypeOK
  <1>3. pc[j] # "new" /\ pc[j] \notin OpenTx
    BY DEF StartJob, EnsureRbacSchema, InputMissing, ResolveLogicalId,
           CheckDuplicate, PlanRevision, OpenTx
  <1>4. /\ job[j] \in IngestionJob /\ job[j].doc \in Docs
        /\ job = [job EXCEPT ![j] = job[j]]
    BY <1>1, <1>3, JobFields DEF TypeOK
  <1>5. {"rbac", "parse", "check", "plan", "finish", "done", "snapshot"} \subseteq PC
    BY DEF PC, Running, LockedSection, Ended
  <1>6. {"rbac", "parse", "check", "plan", "finish", "done"} \cap (OpenTx \cup Planned) = {}
    BY DEF OpenTx, Planned
  <1>7. CASE StartJob(j)
    <2> DEFINE x == [job[j] EXCEPT !.status = "validating"]
    <2>1. MoveTo(j, "rbac", x) /\ UNCHANGED <<superseded, graphVars, tx, storeVars, lock, faults>>
      BY <1>7 DEF StartJob, Goto, MoveTo
    <2>2. x \in IngestionJob
      BY <1>4 DEF IngestionJob, Status
    <2> QED BY <1>2, <1>3, <1>5, <1>6, <2>1, <2>2, LocalStep
  <1>8. CASE EnsureRbacSchema(j)
    <2>1. MoveTo(j, "parse", job[j])
          /\ UNCHANGED <<superseded, graphVars, tx, storeVars, lock, faults>>
      BY <1>4, <1>8 DEF EnsureRbacSchema, Goto, MoveTo
    <2> QED BY <1>2, <1>3, <1>4, <1>5, <1>6, <2>1, LocalStep
  <1>9. CASE InputMissing(j)
    <2> DEFINE x == [job[j] EXCEPT !.status = "failed", !.error = "processing", !.input = FALSE]
    <2>1. job' = [job EXCEPT ![j] = x]
      BY <1>1, <1>9 DEF InputMissing, FailedJob, TypeOK
    <2>2. MoveTo(j, "done", x) /\ UNCHANGED <<superseded, graphVars, tx, storeVars, lock, faults>>
      BY <1>9, <2>1 DEF InputMissing, Goto, MoveTo
    <2>3. x \in IngestionJob
      BY <1>4 DEF IngestionJob, Status, Errors
    <2> QED BY <1>2, <1>3, <1>5, <1>6, <2>2, <2>3, LocalStep
  <1>10. CASE ResolveLogicalId(j)
    <2>1. PICK d \in Docs :
            /\ LogicalIdForContent(j, d)
            /\ job' = [job EXCEPT ![j].status = "parsing", ![j].doc = d]
      BY <1>10 DEF ResolveLogicalId
    <2> DEFINE x == [job[j] EXCEPT !.status = "parsing", !.doc = d]
    <2>2. job' = [job EXCEPT ![j] = x]
      BY <1>1, <2>1 DEF TypeOK
    <2>3. MoveTo(j, "check", x) /\ UNCHANGED <<superseded, graphVars, tx, storeVars, lock>>
      BY <1>10, <2>2 DEF ResolveLogicalId, Goto, MoveTo
    <2>4. faults' \in 0..MaxFaults
      BY <1>1, <1>2, <2>1, FaultType DEF LogicalIdForContent
    <2>5. x \in IngestionJob
      BY <1>4 DEF IngestionJob, Status
    <2> QED BY <1>2, <1>3, <1>5, <1>6, <2>3, <2>4, <2>5, LocalStep
  <1>11. CASE CheckDuplicate(j)
    <2> DEFINE x == [job[j] EXCEPT !.load = "skipped"]
    <2>1. /\ MoveTo(j, "finish", x) \/ MoveTo(j, "plan", job[j])
          /\ UNCHANGED <<superseded, graphVars, tx, storeVars, lock, faults>>
      BY <1>4, <1>11 DEF CheckDuplicate, SkippedJob, Goto, MoveTo
    <2>2. x \in IngestionJob
      BY <1>4 DEF IngestionJob, LoadStatus
    <2> HIDE DEF x
    <2>3. ASSUME MoveTo(j, "finish", x) PROVE InstallInvariant'
      BY <1>2, <1>3, <1>5, <1>6, <2>1, <2>2, <2>3, LocalStep
    <2>4. ASSUME MoveTo(j, "plan", job[j]) PROVE InstallInvariant'
      BY <1>2, <1>3, <1>4, <1>5, <1>6, <2>1, <2>4, LocalStep
    <2> QED BY <2>1, <2>3, <2>4
  <1>12. CASE PlanRevision(j)
    <2> DEFINE n == NextVersion(job[j].doc)
               x == [job[j] EXCEPT !.ver = n]
    <2>1. MoveTo(j, "snapshot", x) /\ UNCHANGED <<superseded, graphVars, tx, storeVars, lock, faults>>
      BY <1>12 DEF PlanRevision, Goto, MoveTo
    <2>2. /\ n \in Versions
          /\ \A v \in Versions : v < n => <<job[j].doc, v>> \in hasRev
      <3>1. n <= MaxVersion
        BY <1>12 DEF PlanRevision
      <3>2. n \in Nat \ {0} /\ \A v \in Versions : <<job[j].doc, v>> \in hasRev <=> v < n
        BY <1>1, <1>4, NextVersionIsFree
      <3> QED BY <3>1, <3>2 DEF Versions, ConstantsAssumption
    <2> HIDE DEF n
    <2>3. x \in IngestionJob /\ x.ver = n /\ x.doc = job[j].doc
      BY <1>4, <2>2 DEF IngestionJob
    <2>4. PlanHolds(x)
      BY <2>2, <2>3 DEF PlanHolds
    <2>5. "snapshot" \notin OpenTx
      BY DEF OpenTx
    <2> HIDE DEF x
    <2> QED BY <1>2, <1>3, <1>5, <2>1, <2>3, <2>4, <2>5, LocalStep
  <1> QED BY <1>7, <1>8, <1>9, <1>10, <1>11, <1>12

\* The id a planned job writes under is a revision id of its tenant's.
LEMMA PlannedId ==
  ASSUME InstallInvariant, NEW j \in Jobs, pc[j] \in Planned
  PROVE  /\ PlanHolds(job[j]) /\ RevisionId(j) \in RevIds
         /\ \A kind \in BlobKinds : <<job[j].tenant, RevisionId(j), kind>> \in BlobKeys
PROOF
  <1>1. PlanHolds(job[j])
    BY DEF InstallInvariant, PlansFollowVersions, PlanHolds, Planned
  <1>2. job[j].doc \in Docs /\ job[j].tenant \in Tenants
    BY JobFields DEF InstallInvariant, Planned
  <1> QED BY <1>1, <1>2 DEF PlanHolds, RevisionId, RevIds, BlobKeys

\* The snapshots go beside the texts, whatever plan they are filed under.
LEMMA SnapshotStep ==
  ASSUME ConstantsAssumption, InstallInvariant, NEW j \in Jobs, WriteSnapshots(j)
  PROVE  InstallInvariant'
PROOF
  <1>1. TypeOK /\ pc[j] = "snapshot" /\ pc[j] # "new" /\ pc[j] \in Planned
    BY DEF InstallInvariant, WriteSnapshots, Planned
  <1>2. /\ job[j] \in IngestionJob /\ job[j].content \in Contents
        /\ PlanHolds(job[j])
    BY <1>1, JobFields, PlannedId
  <1> DEFINE x == [job[j] EXCEPT !.status = "exporting"]
  <1>3. x \in IngestionJob /\ x.ver = job[j].ver /\ x.doc = job[j].doc
    BY <1>2 DEF IngestionJob, Status
  <1>4. MoveTo(j, "lock", x) /\ UNCHANGED <<superseded, graphVars, tx, lock, vector>>
    BY DEF WriteSnapshots, Goto, MoveTo
  <1> HIDE DEF x
  <1>5. PlanHolds(x)
    BY <1>2, <1>3 DEF PlanHolds
  <1>6. "lock" \in PC /\ "lock" # "commit" /\ "lock" \notin OpenTx /\ pc[j] \notin OpenTx
    BY <1>1 DEF PC, Running, OpenTx
  <1>7. tx' \in [Docs -> Jobs \cup {None}] /\ TransactionsHeld'
    BY <1>3, <1>4, <1>6, TxKept
  <1>8. /\ superseded' \in [Jobs -> RevIds \cup {None}]
        /\ lock' \in [Tenants \X Docs -> Jobs \cup {None, Orphaned}]
        /\ vector' \in [RevIds -> Contents \cup {None}]
        /\ \A i \in Jobs : superseded'[i] \in {superseded[i], None}
    BY <1>1, <1>4 DEF TypeOK
  <1>9. faults' \in 0..MaxFaults
    BY <1>1, FaultType DEF WriteSnapshots, TypeOK
  <1>10. /\ blob' \in [BlobKeys -> Contents \cup {None}]
         /\ \A k \in BlobKeys : k[3] = "text" => blob'[k] = blob[k]
    <2> DEFINE key == <<job[j].tenant, RevisionId(j), "snapshot">>
    <2>1. key[3] = "snapshot"
      OBVIOUS
    <2> HIDE DEF key
    <2>2. blob' = [blob EXCEPT ![key] = job[j].content] \/ blob' = blob
      BY DEF WriteSnapshots, key
    <2> QED BY <1>1, <1>2, <2>1, <2>2 DEF TypeOK
  <1>11. StoresKept
    BY <1>4, <1>10 DEF StoresKept
  <1> QED BY <1>3, <1>4, <1>5, <1>6, <1>7, <1>8, <1>9, <1>10, <1>11, QuietStep

\* Taking the lock, going on without it and the check under it.
LEMMA LockSteps ==
  ASSUME ConstantsAssumption, InstallInvariant, NEW j \in Jobs,
         AcquireLock(j) \/ ProceedWithoutLock(j) \/ LoadDuplicateCheck(j)
  PROVE  InstallInvariant'
PROOF
  <1>1. TypeOK
    BY DEF InstallInvariant
  <1>2. pc[j] # "new" /\ pc[j] \in Planned /\ pc[j] \notin OpenTx
    BY DEF AcquireLock, ProceedWithoutLock, LoadDuplicateCheck, Planned, OpenTx
  <1>3. /\ job[j] \in IngestionJob /\ PlanHolds(job[j])
        /\ job = [job EXCEPT ![j] = job[j]]
    BY <1>1, <1>2, JobFields, PlannedId DEF TypeOK
  <1>4. {"load", "begin", "finish"} \subseteq PC /\ {"load", "begin", "finish"} \cap OpenTx = {}
    BY DEF PC, Running, LockedSection, OpenTx
  <1>5. faults' \in 0..MaxFaults
    BY <1>1, FaultType DEF AcquireLock, ProceedWithoutLock, LoadDuplicateCheck, TypeOK
  <1>6. lock' \in [Tenants \X Docs -> Jobs \cup {None, Orphaned}]
    BY <1>1 DEF AcquireLock, ProceedWithoutLock, LoadDuplicateCheck, TypeOK
  <1>7. UNCHANGED <<superseded, graphVars, tx, storeVars>>
    BY DEF AcquireLock, ProceedWithoutLock, LoadDuplicateCheck
  <1> DEFINE x == [job[j] EXCEPT !.load = "skipped"]
  <1>8. \/ MoveTo(j, "load", job[j]) \/ MoveTo(j, "begin", job[j]) \/ MoveTo(j, "finish", x)
    BY <1>3 DEF AcquireLock, ProceedWithoutLock, LoadDuplicateCheck, SkippedJob, Goto, MoveTo
  <1>9. x \in IngestionJob
    BY <1>3 DEF IngestionJob, LoadStatus
  <1>10. "finish" \notin Planned
    BY DEF Planned
  <1> HIDE DEF x
  <1>11. ASSUME NEW l \in {"load", "begin"}, MoveTo(j, l, job[j]) PROVE InstallInvariant'
    BY <1>2, <1>3, <1>4, <1>5, <1>6, <1>7, <1>11, LocalStep
  <1>12. ASSUME MoveTo(j, "finish", x) PROVE InstallInvariant'
    BY <1>2, <1>4, <1>5, <1>6, <1>7, <1>9, <1>10, <1>12, LocalStep
  <1> QED BY <1>8, <1>11, <1>12

\* The MERGE takes the write lock of the document.
LEMMA BeginStep ==
  ASSUME ConstantsAssumption, InstallInvariant, NEW j \in Jobs, BeginInstallTx(j)
  PROVE  InstallInvariant'
PROOF
  <1>1. TypeOK /\ pc[j] = "begin" /\ pc[j] # "new" /\ pc[j] \in Planned
    BY DEF InstallInvariant, BeginInstallTx, Planned
  <1>2. /\ job[j] \in IngestionJob /\ job[j].doc \in Docs /\ PlanHolds(job[j])
        /\ job = [job EXCEPT ![j] = job[j]]
    BY <1>1, JobFields, PlannedId DEF TypeOK
  <1>3. MoveTo(j, "dual", job[j]) /\ UNCHANGED <<superseded, graphVars, lock, storeVars, faults>>
    BY <1>2 DEF BeginInstallTx, Goto, MoveTo
  <1>4. "dual" \in PC /\ "dual" # "commit"
    BY DEF PC, Running, LockedSection
  <1>5. tx' \in [Docs -> Jobs \cup {None}] /\ TransactionsHeld'
    <2>1. tx' = [tx EXCEPT ![job[j].doc] = j] /\ tx[job[j].doc] = None /\ None \notin Jobs
      BY DEF BeginInstallTx, ConstantsAssumption
    <2>2. tx' \in [Docs -> Jobs \cup {None}]
      BY <1>1, <2>1 DEF TypeOK
    <2> SUFFICES ASSUME NEW i \in Jobs, NEW d \in Docs
                 PROVE  tx'[d] = i <=> (pc'[i] \in {"dual", "commit"} /\ job'[i].doc = d)
      BY <2>2 DEF TransactionsHeld
    <2>3. CASE i = j
      BY <1>1, <1>2, <1>3, <1>4, <2>1, <2>3, MoveType DEF InstallInvariant, TransactionsHeld, TypeOK
    <2>4. CASE i # j
      BY <1>1, <1>2, <1>3, <1>4, <2>1, <2>4, MoveType DEF InstallInvariant, TransactionsHeld, TypeOK
    <2> QED BY <2>3, <2>4
  <1>6. /\ superseded' \in [Jobs -> RevIds \cup {None}]
        /\ \A i \in Jobs : superseded'[i] \in {superseded[i], None}
        /\ lock' \in [Tenants \X Docs -> Jobs \cup {None, Orphaned}]
        /\ blob' \in [BlobKeys -> Contents \cup {None}]
        /\ vector' \in [RevIds -> Contents \cup {None}]
        /\ faults' \in 0..MaxFaults
    BY <1>1, <1>3 DEF TypeOK, storeVars
  <1>7. StoresKept /\ UNCHANGED graphVars
    BY <1>3 DEF StoresKept, storeVars
  <1> QED BY <1>2, <1>3, <1>4, <1>5, <1>6, <1>7, QuietStep

\* The chunks are stored before the commit: from here on the id of the plan
\* is fresh and what the revision needs is in the stores.
LEMMA DualWriteStep ==
  ASSUME ConstantsAssumption, InstallInvariant, NEW j \in Jobs, DualWriteChunks(j)
  PROVE  InstallInvariant'
PROOF
  <1>1. TypeOK /\ pc[j] = "dual" /\ pc[j] # "new" /\ pc[j] \in Planned
    BY DEF InstallInvariant, DualWriteChunks, Planned
  <1>2. /\ job[j] \in IngestionJob /\ job[j].content \in Contents /\ job[j].tenant \in Tenants
        /\ PlanHolds(job[j]) /\ RevisionId(j) \in RevIds
        /\ <<job[j].tenant, RevisionId(j), "text">> \in BlobKeys
        /\ job = [job EXCEPT ![j] = job[j]]
    BY <1>1, JobFields, PlannedId DEF TypeOK, BlobKinds
  <1>3. MoveTo(j, "commit", job[j]) /\ UNCHANGED <<superseded, graphVars, tx, lock, faults>>
    BY <1>2 DEF DualWriteChunks, Goto, MoveTo
  <1>4. "commit" \in PC
    BY DEF PC, Running, LockedSection
  <1>5. TransactionsHeld'
    BY <1>1, <1>2, <1>3, <1>4, MoveType DEF InstallInvariant, TransactionsHeld
  <1> DEFINE key == <<job[j].tenant, RevisionId(j), "text">>
  <1>6. /\ blob' = [blob EXCEPT ![key] = job[j].content]
        /\ vector' = [vector EXCEPT ![RevisionId(j)] = job[j].content]
        /\ None \notin Contents
    BY DEF DualWriteChunks, DualWritten, ConstantsAssumption
  <1> HIDE DEF key
  <1>7. /\ blob' \in [BlobKeys -> Contents \cup {None}]
        /\ vector' \in [RevIds -> Contents \cup {None}]
        /\ StoresKept /\ blob'[key] # None /\ vector'[RevisionId(j)] # None
    BY <1>1, <1>2, <1>6 DEF TypeOK, StoresKept, key
  <1>8. CommitsAreStored'
    <2> SUFFICES ASSUME NEW i \in Jobs, pc'[i] = "commit"
                 PROVE  /\ RevisionId(i)' \notin hasRev'
                        /\ blob'[<<job'[i].tenant, RevisionId(i)', "text">>] # None
                        /\ vector'[RevisionId(i)'] # None
      BY DEF CommitsAreStored
    <2>1. job'[i] = job[i] /\ hasRev' = hasRev
      BY <1>1, <1>2, <1>3, <1>4, MoveType DEF graphVars
    <2>2. RevisionId(i)' = RevisionId(i)
      BY <2>1 DEF RevisionId
    <2>3. CASE i = j
      <3>1. RevisionId(j) \notin hasRev
        BY <1>2 DEF DualWriteChunks, InstallInvariant, RevisionsLinked
      <3> QED BY <1>7, <2>1, <2>2, <2>3, <3>1 DEF key
    <2>4. CASE i # j
      <3>1. pc[i] = "commit" /\ pc[i] \in Planned
        BY <1>1, <1>2, <1>3, <1>4, <2>4, MoveType DEF Planned
      <3>2. RevisionId(i) \in RevIds /\ <<job[i].tenant, RevisionId(i), "text">> \in BlobKeys
        BY <3>1, PlannedId DEF BlobKinds
      <3> QED BY <1>7, <2>1, <2>2, <3>1, <3>2 DEF StoresKept, InstallInvariant, CommitsAreStored
    <2> QED BY <2>3, <2>4
  <1>9. ActiveIsStored'
    BY <1>1, <1>3, <1>7, ActiveKept DEF graphVars
  <1>10. PurgesAreOfExpired'
    BY <1>3 DEF InstallInvariant, PurgesAreOfExpired, graphVars
  <1>11. /\ superseded' \in [Jobs -> RevIds \cup {None}]
         /\ tx' \in [Docs -> Jobs \cup {None}]
         /\ lock' \in [Tenants \X Docs -> Jobs \cup {None, Orphaned}]
         /\ faults' \in 0..MaxFaults
    BY <1>1, <1>3 DEF TypeOK
  <1> QED BY <1>2, <1>3, <1>4, <1>5, <1>7, <1>8, <1>9, <1>10, <1>11, GraphlessStep

\* A failed load: the record of the job and what it gives back.
LEMMA FailedLoad ==
  ASSUME ConstantsAssumption, InstallInvariant, NEW j \in Jobs, pc[j] # "new", LoadFails(j)
  PROVE  /\ \E x \in IngestionJob : MoveTo(j, "done", x)
         /\ tx' \in [Docs -> Jobs \cup {None}] /\ TransactionsHeld'
         /\ lock' \in [Tenants \X Docs -> Jobs \cup {None, Orphaned}]
         /\ "done" \in PC /\ "done" \notin Planned /\ "done" # "commit"
PROOF
  <1>1. TypeOK
    BY DEF InstallInvariant
  <1>2. job[j] \in IngestionJob
    BY <1>1, JobFields
  <1> DEFINE x == [job[j] EXCEPT !.status = "failed", !.error = "masked",
                                 !.input = FALSE, !.load = "failed"]
  <1>3. x \in IngestionJob
    BY <1>2 DEF IngestionJob, Status, Errors, LoadStatus
  <1>4. MoveTo(j, "done", x)
    <2>1. job' = [job EXCEPT ![j] = x]
      BY <1>1 DEF LoadFails, FailedJob, TypeOK
    <2> QED BY <2>1 DEF LoadFails, Goto, MoveTo
  <1>5. "done" \in PC /\ "done" \notin Planned /\ "done" \notin OpenTx /\ "done" # "commit"
    BY DEF PC, Ended, Planned, OpenTx
  <1>6. tx' = WithoutOwner(tx, j) /\ lock' = WithoutOwner(lock, j)
    BY DEF LoadFails
  <1> HIDE DEF x
  <1>7. tx' \in [Docs -> Jobs \cup {None}] /\ TransactionsHeld'
    BY <1>3, <1>4, <1>5, <1>6, TxReleased
  <1> QED BY <1>1, <1>3, <1>4, <1>5, <1>6, <1>7, LockType

\* Aborted transactions, and those whose revision id exists already.
LEMMA FailedLoadSteps ==
  ASSUME ConstantsAssumption, InstallInvariant, NEW j \in Jobs,
         RevisionIdTaken(j) \/ AbortInstallTx(j)
  PROVE  InstallInvariant'
PROOF
  <1>1. TypeOK /\ pc[j] # "new" /\ pc[j] \in Planned /\ LoadFails(j)
    BY DEF InstallInvariant, RevisionIdTaken, AbortInstallTx, Planned
  <1>2. /\ job[j].content \in Contents /\ RevisionId(j) \in RevIds
        /\ <<job[j].tenant, RevisionId(j), "text">> \in BlobKeys
    BY <1>1, JobFields, PlannedId DEF BlobKinds
  <1>3. PICK x \in IngestionJob : MoveTo(j, "done", x)
    BY <1>1, FailedLoad
  <1>4. /\ tx' \in [Docs -> Jobs \cup {None}] /\ TransactionsHeld'
        /\ lock' \in [Tenants \X Docs -> Jobs \cup {None, Orphaned}]
        /\ "done" \in PC /\ "done" \notin Planned /\ "done" # "commit"
    BY <1>1, FailedLoad
  <1>5. UNCHANGED <<superseded, graphVars>> /\ (DualWritten(j) \/ UNCHANGED storeVars)
    BY DEF RevisionIdTaken, AbortInstallTx
  <1>6. faults' \in 0..MaxFaults
    BY <1>1, FaultType DEF RevisionIdTaken, AbortInstallTx, TypeOK
  <1>7. /\ blob' \in [BlobKeys -> Contents \cup {None}]
        /\ vector' \in [RevIds -> Contents \cup {None}] /\ StoresKept
    <2>1. CASE UNCHANGED storeVars
      BY <1>1, <2>1 DEF TypeOK, StoresKept, storeVars
    <2>2. CASE DualWritten(j)
      <3> DEFINE key == <<job[j].tenant, RevisionId(j), "text">>
      <3>1. /\ blob' = [blob EXCEPT ![key] = job[j].content]
            /\ vector' = [vector EXCEPT ![RevisionId(j)] = job[j].content]
            /\ None \notin Contents
        BY <2>2 DEF DualWritten, ConstantsAssumption
      <3> HIDE DEF key
      <3> QED BY <1>1, <1>2, <3>1 DEF TypeOK, StoresKept
    <2> QED BY <1>5, <2>1, <2>2
  <1>8. /\ superseded' \in [Jobs -> RevIds \cup {None}]
        /\ \A i \in Jobs : superseded'[i] \in {superseded[i], None}
        /\ UNCHANGED graphVars
    BY <1>1, <1>5 DEF TypeOK
  <1> QED BY <1>3, <1>4, <1>6, <1>7, <1>8, QuietStep

\* The driver runs the transaction function again from its start.
LEMMA RetryStep ==
  ASSUME ConstantsAssumption, InstallInvariant, NEW j \in Jobs, RetryInstallTx(j)
  PROVE  InstallInvariant'
PROOF
  <1>1. TypeOK /\ pc[j] # "new" /\ pc[j] \in Planned
    BY DEF InstallInvariant, RetryInstallTx, Planned
  <1>2. /\ job[j] \in IngestionJob /\ PlanHolds(job[j])
        /\ job = [job EXCEPT ![j] = job[j]]
    BY <1>1, JobFields, PlannedId DEF TypeOK
  <1>3. /\ MoveTo(j, "begin", job[j]) /\ tx' = WithoutOwner(tx, j)
        /\ UNCHANGED <<superseded, graphVars, lock, storeVars>>
    BY <1>2 DEF RetryInstallTx, Goto, MoveTo
  <1>4. "begin" \in PC /\ "begin" # "commit" /\ "begin" \notin OpenTx
    BY DEF PC, Running, LockedSection, OpenTx
  <1>5. tx' \in [Docs -> Jobs \cup {None}] /\ TransactionsHeld'
    BY <1>2, <1>3, <1>4, TxReleased
  <1>6. faults' \in 0..MaxFaults
    BY <1>1, FaultType DEF RetryInstallTx
  <1>7. /\ superseded' \in [Jobs -> RevIds \cup {None}]
        /\ \A i \in Jobs : superseded'[i] \in {superseded[i], None}
        /\ lock' \in [Tenants \X Docs -> Jobs \cup {None, Orphaned}]
        /\ blob' \in [BlobKeys -> Contents \cup {None}]
        /\ vector' \in [RevIds -> Contents \cup {None}]
    BY <1>1, <1>3 DEF TypeOK, storeVars
  <1>8. StoresKept /\ UNCHANGED graphVars
    BY <1>3 DEF StoresKept, storeVars
  <1> QED BY <1>2, <1>3, <1>4, <1>5, <1>6, <1>7, <1>8, QuietStep

\* The commit gives the document its next version number: the id is fresh
\* and every smaller number is taken.
LEMMA CommittedVersion ==
  ASSUME ConstantsAssumption, InstallInvariant, NEW j \in Jobs, pc[j] = "commit"
  PROVE  /\ job[j].doc \in Docs /\ job[j].ver \in Versions
         /\ RevisionId(j) \in RevIds \ hasRev
         /\ \A v \in Versions : <<job[j].doc, v>> \in hasRev <=> v < job[j].ver
PROOF
  <1>1. TypeOK /\ pc[j] # "new" /\ pc[j] \in Planned
    BY DEF InstallInvariant, Planned
  <1>2. job[j].doc \in Docs /\ RevisionId(j) \in RevIds /\ PlanHolds(job[j])
    BY <1>1, JobFields, PlannedId
  <1>3. RevisionId(j) \notin hasRev
    BY DEF InstallInvariant, CommitsAreStored
  <1>4. PICK n \in 0..MaxVersion : \A v \in Versions : <<job[j].doc, v>> \in hasRev <=> v <= n
    BY <1>2 DEF InstallInvariant, VersionsContiguous
  <1>5. job[j].ver \in Versions /\ ~(job[j].ver <= n)
    BY <1>2, <1>3, <1>4 DEF PlanHolds, RevisionId
  <1> QED BY <1>2, <1>3, <1>4, <1>5 DEF PlanHolds, Versions, ConstantsAssumption

\* Only revisions of the document are its previous ones, and they are linked.
LEMMA ActiveIsLinked ==
  ASSUME ConstantsAssumption, InstallInvariant, NEW r \in activeRev
  PROVE  r \in RevIds /\ r \in hasRev /\ r[1] \in Docs /\ r[2] \in Versions
         /\ r = <<r[1], r[2]>>
PROOF
  <1>1. r \in RevIds
    BY DEF InstallInvariant, TypeOK
  <1>2. r[1] \in Docs /\ r[2] \in Versions /\ r = <<r[1], r[2]>>
    BY <1>1 DEF RevIds
  <1>3. PICK n \in 0..MaxVersion :
          /\ \A v \in Versions : <<r[1], v>> \in hasRev <=> v <= n
          /\ \A v \in Versions : <<r[1], v>> \in activeRev <=> v = n
    BY <1>2 DEF InstallInvariant, VersionsContiguous
  <1> QED BY <1>1, <1>2, <1>3 DEF Versions, ConstantsAssumption

\* The committed _install_revision_tx preserves the invariant, whatever the
\* worker goes on with.
LEMMA InstallStep ==
  ASSUME ConstantsAssumption, InstallInvariant, NEW j \in Jobs, pc[j] = "commit",
         NEW l \in PC, NEW x \in IngestionJob, MoveTo(j, l, x), l \notin Planned,
         InstalledBy(j), TransactionsHeld',
         superseded' \in [Jobs -> RevIds \cup {None}],
         \A i \in Jobs : superseded'[i] \in {superseded[i], None} \cup PreviousRevisions(job[j].doc),
         tx' \in [Docs -> Jobs \cup {None}],
         lock' \in [Tenants \X Docs -> Jobs \cup {None, Orphaned}],
         UNCHANGED storeVars, faults' \in 0..MaxFaults
  PROVE  InstallInvariant'
PROOF
  <1> DEFINE d == job[j].doc
             r == RevisionId(j)
             prev == PreviousRevisions(d)
             new == [status |-> "ACTIVE", hash |-> job[j].content, tenant |-> job[j].tenant]
  <1>1. TypeOK /\ pc[j] # "new"
    BY DEF InstallInvariant
  <1>2. job[j].content \in Contents /\ job[j].tenant \in Tenants
    BY <1>1, JobFields
  <1>3. /\ d \in Docs /\ job[j].ver \in Versions /\ r \in RevIds \ hasRev
        /\ \A v \in Versions : <<d, v>> \in hasRev <=> v < job[j].ver
    BY CommittedVersion
  <1>4. r = <<d, job[j].ver>> /\ r[1] = d
    BY DEF RevisionId
  <1>5. prev = {s \in activeRev : s[1] = d}
    BY DEF PreviousRevisions
  <1>6. prev \subseteq hasRev /\ prev \subseteq activeRev /\ prev \subseteq RevIds /\ r \notin prev
    BY <1>3, <1>5, ActiveIsLinked
  <1>7. new \in DocRevision /\ new.status = "ACTIVE" /\ new.hash = job[j].content
        /\ new.tenant = job[j].tenant /\ new # NoRev
    BY <1>2 DEF DocRevision, NoRev
  <1>8. hasRev' = hasRev \cup {r} /\ activeRev' = (activeRev \ prev) \cup {r}
    BY DEF InstalledBy
  <1>9. \A s \in prev : /\ rev[s] \in DocRevision
                        /\ [rev[s] EXCEPT !.status = "EXPIRED"] \in DocRevision
                        /\ [rev[s] EXCEPT !.status = "EXPIRED"].status = "EXPIRED"
                        /\ [rev[s] EXCEPT !.status = "EXPIRED"] # NoRev
    <2> SUFFICES ASSUME NEW s \in prev
                 PROVE  /\ rev[s] \in DocRevision
                        /\ [rev[s] EXCEPT !.status = "EXPIRED"] \in DocRevision
                        /\ [rev[s] EXCEPT !.status = "EXPIRED"].status = "EXPIRED"
                        /\ [rev[s] EXCEPT !.status = "EXPIRED"] # NoRev
      OBVIOUS
    <2>1. rev[s] \in DocRevision
      BY <1>1, <1>6 DEF InstallInvariant, RevisionsLinked, TypeOK
    <2> QED BY <2>1 DEF DocRevision, NoRev
  <1>10. /\ rev' \in [RevIds -> DocRevision \cup {NoRev}]
         /\ rev'[r] = new
         /\ \A s \in prev : rev'[s] # NoRev /\ rev'[s].status = "EXPIRED"
         /\ \A s \in RevIds \ (prev \cup {r}) : rev'[s] = rev[s]
    <2>1. rev' = [Expired(prev) EXCEPT ![r] = new]
      BY DEF InstalledBy
    <2>2. Expired(prev) = [s \in RevIds |-> IF s \in prev THEN [rev[s] EXCEPT !.status = "EXPIRED"]
                                            ELSE rev[s]]
      BY DEF Expired
    <2>3. rev \in [RevIds -> DocRevision \cup {NoRev}]
      BY <1>1 DEF TypeOK
    <2> HIDE DEF r, prev, new
    <2>4. Expired(prev) \in [RevIds -> DocRevision \cup {NoRev}]
      BY <1>9, <2>2, <2>3
    <2> QED BY <1>3, <1>6, <1>7, <1>9, <2>1, <2>2, <2>3, <2>4
  <1>11. /\ nodes' \in [RevIds -> Contents \cup {None}]
         /\ nodes'[r] = job[j].content
         /\ \A s \in prev : nodes'[s] = None
         /\ \A s \in RevIds \ (prev \cup {r}) : nodes'[s] = nodes[s]
    <2>1. nodes' = [s \in RevIds |-> CASE s = r -> job[j].content
                                       [] s # r /\ s \in prev -> None
                                       [] OTHER -> nodes[s]]
      BY DEF InstalledBy
    <2>2. nodes \in [RevIds -> Contents \cup {None}]
      BY <1>1 DEF TypeOK
    <2> HIDE DEF r, prev
    <2> QED BY <1>2, <1>3, <1>6, <2>1, <2>2
  <1>12. TypeOK'
    <2>1. dl' \in [Docs -> Tenants \cup {None}]
      BY <1>1, <1>2, <1>3 DEF InstalledBy, TypeOK
    <2>2. hasRev' \in SUBSET RevIds /\ activeRev' \in SUBSET RevIds
      BY <1>1, <1>3, <1>8 DEF TypeOK
    <2>3. /\ blob' \in [BlobKeys -> Contents \cup {None}]
          /\ vector' \in [RevIds -> Contents \cup {None}]
      BY <1>1 DEF TypeOK, storeVars
    <2> HIDE DEF d, r, prev, new
    <2> QED BY <1>1, <1>10, <1>11, <2>1, <2>2, <2>3, MoveType DEF TypeOK
  <1>13. RevisionsLinked'
    <2> SUFFICES ASSUME NEW s \in RevIds PROVE rev'[s] # NoRev <=> s \in hasRev'
      BY DEF RevisionsLinked
    <2>1. rev[s] # NoRev <=> s \in hasRev
      BY DEF InstallInvariant, RevisionsLinked
    <2> HIDE DEF d, r, prev, new
    <2> QED BY <1>6, <1>7, <1>8, <1>10, <2>1
  <1>14. VersionsContiguous'
    <2> SUFFICES ASSUME NEW e \in Docs
                 PROVE  \E n \in 0..MaxVersion :
                          /\ \A v \in Versions : <<e, v>> \in hasRev' <=> v <= n
                          /\ \A v \in Versions : <<e, v>> \in activeRev' <=> v = n
      BY DEF VersionsContiguous
    <2>1. CASE e = d
      <3> DEFINE n == job[j].ver
      <3>1. n \in 0..MaxVersion /\ n \in Nat
        BY <1>3 DEF Versions, ConstantsAssumption
      <3>2. \A v \in Versions : <<e, v>> \in hasRev' <=> v <= n
        BY <1>3, <1>4, <1>8, <2>1 DEF Versions, ConstantsAssumption
      <3>3. \A v \in Versions : <<e, v>> \in activeRev' <=> v = n
        BY <1>4, <1>5, <1>8, <2>1
      <3> QED BY <3>1, <3>2, <3>3
    <2>2. CASE e # d
      <3>1. \A v \in Versions : /\ <<e, v>> \in hasRev' <=> <<e, v>> \in hasRev
                                /\ <<e, v>> \in activeRev' <=> <<e, v>> \in activeRev
        BY <1>4, <1>5, <1>8, <2>2
      <3> QED BY <3>1 DEF InstallInvariant, VersionsContiguous
    <2> QED BY <2>1, <2>2
  <1>15. ContentFollowsLifecycle'
    <2> SUFFICES ASSUME NEW s \in RevIds
                 PROVE  /\ rev'[s] # NoRev /\ rev'[s].status = "ACTIVE" <=> s \in activeRev'
                        /\ nodes'[s] = IF s \in activeRev' THEN rev'[s].hash ELSE None
      BY DEF ContentFollowsLifecycle, MarkedActive
    <2>1. /\ rev[s] # NoRev /\ rev[s].status = "ACTIVE" <=> s \in activeRev
          /\ nodes[s] = IF s \in activeRev THEN rev[s].hash ELSE None
      BY DEF InstallInvariant, ContentFollowsLifecycle, MarkedActive
    <2> HIDE DEF d, r, prev, new
    <2>2. CASE s = r
      BY <1>7, <1>8, <1>10, <1>11, <2>2
    <2>3. CASE s \in prev
      BY <1>6, <1>8, <1>10, <1>11, <2>3
    <2>4. CASE s # r /\ s \notin prev
      BY <1>8, <1>10, <1>11, <2>1, <2>4
    <2> QED BY <2>2, <2>3, <2>4
  <1>16. PlansFollowVersions'
    <2> SUFFICES ASSUME NEW i \in Jobs, pc'[i] \in Planned
                 PROVE  /\ job'[i].ver \in Versions
                        /\ \A v \in Versions : v < job'[i].ver => <<job'[i].doc, v>> \in hasRev'
      BY DEF PlansFollowVersions, Planned
    <2>1. i # j /\ pc[i] \in Planned /\ job'[i] = job[i]
      BY <1>1, MoveType
    <2> QED BY <1>8, <2>1 DEF InstallInvariant, PlansFollowVersions, Planned
  <1>17. CommitsAreStored'
    <2> SUFFICES ASSUME NEW i \in Jobs, pc'[i] = "commit"
                 PROVE  /\ RevisionId(i)' \notin hasRev'
                        /\ blob'[<<job'[i].tenant, RevisionId(i)', "text">>] # None
                        /\ vector'[RevisionId(i)'] # None
      BY DEF CommitsAreStored
    <2>1. i # j /\ pc[i] = "commit" /\ job'[i] = job[i] /\ UNCHANGED storeVars
      BY <1>1, MoveType DEF Planned
    <2>2. RevisionId(i)' = RevisionId(i)
      BY <2>1 DEF RevisionId
    <2>3. job[i].doc # job[j].doc
      <3>1. tx[job[j].doc] = j
        BY <1>3 DEF InstallInvariant, TransactionsHeld
      <3> QED BY <1>3, <2>1, <3>1 DEF InstallInvariant, TransactionsHeld
    <2>4. RevisionId(i) # r
      BY <2>3 DEF RevisionId
    <2> QED BY <1>8, <2>1, <2>2, <2>4 DEF InstallInvariant, CommitsAreStored, storeVars
  <1>18. PurgesAreOfExpired'
    BY <1>3, <1>6, <1>8 DEF InstallInvariant, PurgesAreOfExpired
  <1>19. ActiveIsStored'
    <2> SUFFICES ASSUME NEW s \in activeRev'
                 PROVE  blob[<<rev'[s].tenant, s, "text">>] # None /\ vector[s] # None
      BY DEF ActiveIsStored, storeVars
    <2>1. CASE s = r
      <3>1. rev'[s].tenant = job[j].tenant
        BY <1>7, <1>10, <2>1
      <3> QED BY <2>1, <3>1 DEF InstallInvariant, CommitsAreStored
    <2>2. CASE s # r
      <3>1. s \in activeRev /\ s \notin prev /\ s \in RevIds
        BY <1>8, <2>2, ActiveIsLinked
      <3>2. rev'[s] = rev[s]
        BY <1>10, <2>2, <3>1
      <3> QED BY <3>1, <3>2 DEF InstallInvariant, ActiveIsStored
    <2> QED BY <2>1, <2>2
  <1> QED BY <1>12, <1>13, <1>14, <1>15, <1>16, <1>17, <1>18, <1>19 DEF InstallInvariant

\* The commit, seen by the worker or lost on the way back to it.
LEMMA CommitSteps ==
  ASSUME ConstantsAssumption, InstallInvariant, NEW j \in Jobs,
         CommitInstallTx(j) \/ CommitOutcomeLost(j)
  PROVE  InstallInvariant'
PROOF
  <1>1. TypeOK /\ pc[j] = "commit" /\ pc[j] # "new"
    BY DEF InstallInvariant, CommitInstallTx, CommitOutcomeLost
  <1>2. job[j] \in IngestionJob /\ job = [job EXCEPT ![j] = job[j]]
    BY <1>1, JobFields DEF TypeOK
  <1>3. CASE CommitInstallTx(j)
    <2>1. /\ MoveTo(j, "purge", job[j]) /\ InstalledBy(j)
          /\ tx' = WithoutOwner(tx, j) /\ UNCHANGED <<lock, storeVars, faults>>
      BY <1>2, <1>3 DEF CommitInstallTx, Goto, MoveTo
    <2>2. "purge" \in PC /\ "purge" \notin Planned /\ "purge" \notin OpenTx
      BY DEF PC, Running, LockedSection, Planned, OpenTx
    <2>3. tx' \in [Docs -> Jobs \cup {None}] /\ TransactionsHeld'
      BY <1>2, <2>1, <2>2, TxReleased
    <2>4. PICK p \in RevIds \cup {None} :
            /\ p \in {None} \cup PreviousRevisions(job[j].doc)
            /\ superseded' = [superseded EXCEPT ![j] = p]
      BY <1>3 DEF CommitInstallTx
    <2>5. /\ superseded' \in [Jobs -> RevIds \cup {None}]
          /\ \A i \in Jobs :
                superseded'[i] \in {superseded[i], None} \cup PreviousRevisions(job[j].doc)
      BY <1>1, <2>4 DEF TypeOK
    <2>6. /\ lock' \in [Tenants \X Docs -> Jobs \cup {None, Orphaned}]
          /\ faults' \in 0..MaxFaults /\ UNCHANGED storeVars
      BY <1>1, <2>1 DEF TypeOK
    <2> QED BY <1>1, <1>2, <2>1, <2>2, <2>3, <2>5, <2>6, InstallStep
  <1>4. CASE CommitOutcomeLost(j)
    <2>1. LoadFails(j) /\ InstalledBy(j) /\ UNCHANGED <<superseded, storeVars>>
      BY <1>4 DEF CommitOutcomeLost
    <2>2. PICK x \in IngestionJob : MoveTo(j, "done", x)
      BY <1>1, <2>1, FailedLoad
    <2>3. /\ tx' \in [Docs -> Jobs \cup {None}] /\ TransactionsHeld'
          /\ lock' \in [Tenants \X Docs -> Jobs \cup {None, Orphaned}]
          /\ "done" \in PC /\ "done" \notin Planned
      BY <1>1, <2>1, FailedLoad
    <2>4. faults' \in 0..MaxFaults
      BY <1>1, <1>4, FaultType DEF CommitOutcomeLost
    <2>5. /\ superseded' \in [Jobs -> RevIds \cup {None}] /\ UNCHANGED storeVars
          /\ \A i \in Jobs :
                superseded'[i] \in {superseded[i], None} \cup PreviousRevisions(job[j].doc)
      BY <1>1, <2>1 DEF TypeOK
    <2> QED BY <1>1, <2>1, <2>2, <2>3, <2>4, <2>5, InstallStep
  <1> QED BY <1>3, <1>4

\* A purge leaves everything of the other revisions in the stores.
LEMMA PurgeEffect ==
  ASSUME ConstantsAssumption, TypeOK, NEW t \in Tenants, NEW r \in RevIds,
         PurgeRevision(t, r, Stores)
  PROVE  /\ blob' \in [BlobKeys -> Contents \cup {None}]
         /\ vector' \in [RevIds -> Contents \cup {None}]
         /\ faults' \in 0..MaxFaults
         /\ \A k \in BlobKeys : k[2] # r => blob'[k] = blob[k]
         /\ \A s \in RevIds \ {r} : vector'[s] = vector[s]
PROOF
  <1>1. PICK done \in SUBSET Stores :
          /\ blob' = PurgedBlob(t, r, done)
          /\ vector' = IF "vector" \in done THEN [vector EXCEPT ![r] = None] ELSE vector
          /\ faults' = faults \/ Fault
    BY DEF PurgeRevision
  <1>2. faults' \in 0..MaxFaults
    BY <1>1, FaultType DEF TypeOK
  <1>3. /\ blob' \in [BlobKeys -> Contents \cup {None}]
        /\ \A k \in BlobKeys : k[2] # r => blob'[k] = blob[k]
    BY <1>1 DEF PurgedBlob, TypeOK
  <1> QED BY <1>1, <1>2, <1>3 DEF TypeOK

\* The purge of the superseded revision, which is out of service: no
\* ACTIVE revision and no transaction about to commit loses its data.
LEMMA PurgeStep ==
  ASSUME ConstantsAssumption, InstallInvariant, NEW j \in Jobs, PurgeSuperseded(j)
  PROVE  InstallInvariant'
PROOF
  <1>1. TypeOK /\ pc[j] = "purge" /\ pc[j] # "new" /\ pc[j] \notin OpenTx
    BY DEF InstallInvariant, PurgeSuperseded, OpenTx
  <1>2. job[j] \in IngestionJob /\ job[j].tenant \in Tenants
    BY <1>1, JobFields
  <1> DEFINE x == [job[j] EXCEPT !.load = "success"]
  <1>3. x \in IngestionJob
    BY <1>2 DEF IngestionJob, LoadStatus
  <1>4. /\ MoveTo(j, "source", x) /\ UNCHANGED <<graphVars, tx, lock>>
        /\ superseded' = [superseded EXCEPT ![j] = None]
    BY DEF PurgeSuperseded, Goto, MoveTo
  <1> HIDE DEF x
  <1>5. "source" \in PC /\ "source" \notin Planned /\ "source" \notin OpenTx
        /\ "source" # "commit"
    BY DEF PC, Running, LockedSection, Planned, OpenTx
  <1>6. tx' \in [Docs -> Jobs \cup {None}] /\ TransactionsHeld'
    BY <1>1, <1>3, <1>4, <1>5, TxKept
  <1>7. /\ superseded' \in [Jobs -> RevIds \cup {None}]
        /\ \A i \in Jobs : superseded'[i] \in {superseded[i], None}
        /\ lock' \in [Tenants \X Docs -> Jobs \cup {None, Orphaned}]
        /\ UNCHANGED graphVars
    BY <1>1, <1>4 DEF TypeOK
  <1>8. PurgesAreOfExpired'
    BY <1>7 DEF InstallInvariant, PurgesAreOfExpired, graphVars
  <1>9. CASE superseded[j] = None
    <2>1. /\ blob' \in [BlobKeys -> Contents \cup {None}]
          /\ vector' \in [RevIds -> Contents \cup {None}]
          /\ faults' \in 0..MaxFaults /\ StoresKept
      BY <1>1, <1>9 DEF PurgeSuperseded, TypeOK, StoresKept, storeVars
    <2> QED BY <1>3, <1>4, <1>5, <1>6, <1>7, <2>1, QuietStep
  <1>10. CASE superseded[j] # None
    <2> DEFINE r == superseded[j]
    <2>1. r \in RevIds /\ r \in hasRev \ activeRev
      BY <1>1, <1>10 DEF InstallInvariant, PurgesAreOfExpired, TypeOK
    <2>2. /\ blob' \in [BlobKeys -> Contents \cup {None}]
          /\ vector' \in [RevIds -> Contents \cup {None}]
          /\ faults' \in 0..MaxFaults
          /\ \A k \in BlobKeys : k[2] # r => blob'[k] = blob[k]
          /\ \A s \in RevIds \ {r} : vector'[s] = vector[s]
      <3>1. PurgeRevision(job[j].tenant, r, Stores)
        BY <1>10 DEF PurgeSuperseded
      <3> QED BY <1>1, <1>2, <2>1, <3>1, PurgeEffect
    <2> HIDE DEF r
    <2>3. CommitsAreStored'
      <3> SUFFICES ASSUME NEW i \in Jobs, pc'[i] = "commit"
                   PROVE  /\ RevisionId(i)' \notin hasRev'
                          /\ blob'[<<job'[i].tenant, RevisionId(i)', "text">>] # None
                          /\ vector'[RevisionId(i)'] # None
        BY DEF CommitsAreStored
      <3>1. pc[i] = "commit" /\ pc[i] \in Planned /\ job'[i] = job[i] /\ hasRev' = hasRev
        BY <1>1, <1>3, <1>4, <1>5, MoveType DEF Planned, graphVars
      <3>2. RevisionId(i)' = RevisionId(i)
        BY <3>1 DEF RevisionId
      <3>3. RevisionId(i) \in RevIds /\ <<job[i].tenant, RevisionId(i), "text">> \in BlobKeys
        BY <3>1, PlannedId DEF BlobKinds
      <3>4. RevisionId(i) # r
        BY <2>1, <3>1 DEF InstallInvariant, CommitsAreStored
      <3> QED BY <2>2, <3>1, <3>2, <3>3, <3>4 DEF InstallInvariant, CommitsAreStored
    <2>4. ActiveIsStored'
      <3> SUFFICES ASSUME NEW s \in activeRev
                   PROVE  blob'[<<rev[s].tenant, s, "text">>] # None /\ vector'[s] # None
        BY <1>4 DEF ActiveIsStored, graphVars
      <3>1. s \in RevIds /\ s # r
        BY <1>1, <2>1 DEF TypeOK
      <3>2. rev[s] \in DocRevision
        BY <1>1, <3>1 DEF InstallInvariant, ContentFollowsLifecycle, MarkedActive, TypeOK
      <3>3. <<rev[s].tenant, s, "text">> \in BlobKeys
        BY <3>1, <3>2 DEF BlobKeys, BlobKinds, DocRevision
      <3> QED BY <2>2, <3>1, <3>3 DEF InstallInvariant, ActiveIsStored
    <2> QED BY <1>3, <1>4, <1>5, <1>6, <1>7, <1>8, <2>2, <2>3, <2>4, GraphlessStep
  <1> QED BY <1>9, <1>10

\* The saved source file is none of the texts.
LEMMA SourceStep ==
  ASSUME ConstantsAssumption, InstallInvariant, NEW j \in Jobs, PersistSourceFile(j)
  PROVE  InstallInvariant'
PROOF
  <1>1. TypeOK /\ pc[j] = "source" /\ pc[j] # "new" /\ pc[j] \notin OpenTx
    BY DEF InstallInvariant, PersistSourceFile, OpenTx
  <1>2. /\ job[j] \in IngestionJob /\ job[j].content \in Contents
        /\ job = [job EXCEPT ![j] = job[j]]
    BY <1>1, JobFields DEF TypeOK
  <1>3. MoveTo(j, "finish", job[j]) /\ UNCHANGED <<superseded, graphVars, tx, lock, vector>>
    BY <1>2 DEF PersistSourceFile, Goto, MoveTo
  <1>4. "finish" \in PC /\ "finish" \notin Planned /\ "finish" \notin OpenTx
        /\ "finish" # "commit"
    BY DEF PC, Running, LockedSection, Planned, OpenTx
  <1>5. tx' \in [Docs -> Jobs \cup {None}] /\ TransactionsHeld'
    BY <1>1, <1>2, <1>3, <1>4, TxKept
  <1>6. /\ superseded' \in [Jobs -> RevIds \cup {None}]
        /\ \A i \in Jobs : superseded'[i] \in {superseded[i], None}
        /\ lock' \in [Tenants \X Docs -> Jobs \cup {None, Orphaned}]
        /\ vector' \in [RevIds -> Contents \cup {None}]
        /\ UNCHANGED graphVars
    BY <1>1, <1>3 DEF TypeOK
  <1>7. faults' \in 0..MaxFaults
    BY <1>1, FaultType DEF PersistSourceFile, TypeOK
  <1>8. /\ blob' \in [BlobKeys -> Contents \cup {None}]
        /\ \A k \in BlobKeys : k[3] = "text" => blob'[k] = blob[k]
    <2> DEFINE key == <<job[j].tenant, RevisionId(j), "source">>
    <2>1. key[3] = "source"
      OBVIOUS
    <2> HIDE DEF key
    <2>2. blob' = [blob EXCEPT ![key] = job[j].content] \/ blob' = blob
      BY DEF PersistSourceFile, key
    <2> QED BY <1>1, <1>2, <2>1, <2>2 DEF TypeOK
  <1>9. StoresKept
    BY <1>3, <1>8 DEF StoresKept
  <1> QED BY <1>2, <1>3, <1>4, <1>5, <1>6, <1>7, <1>8, <1>9, QuietStep

\* The last step of a job, and an exception before its load.
LEMMA EndingSteps ==
  ASSUME ConstantsAssumption, InstallInvariant, NEW j \in Jobs,
         FinishJob(j) \/ ProcessingFails(j)
  PROVE  InstallInvariant'
PROOF
  <1>1. TypeOK /\ pc[j] # "new" /\ pc[j] \notin OpenTx
    BY DEF InstallInvariant, FinishJob, ProcessingFails, OpenTx
  <1>2. job[j] \in IngestionJob
    BY <1>1, JobFields
  <1> DEFINE good == [job[j] EXCEPT !.status = "completed", !.input = FALSE]
             bad(e) == [job[j] EXCEPT !.status = "failed", !.error = e, !.input = FALSE]
  <1>3. good \in IngestionJob /\ bad("load") \in IngestionJob /\ bad("processing") \in IngestionJob
    BY <1>2 DEF IngestionJob, Status, Errors
  <1>4. /\ [job EXCEPT ![j].status = "completed", ![j].input = FALSE] = [job EXCEPT ![j] = good]
        /\ FailedJob(j, "load") = [job EXCEPT ![j] = bad("load")]
        /\ FailedJob(j, "processing") = [job EXCEPT ![j] = bad("processing")]
    BY <1>1 DEF FailedJob, TypeOK
  <1> HIDE DEF good, bad
  <1>5. PICK x \in IngestionJob : MoveTo(j, "done", x)
    <2>1. pc' = [pc EXCEPT ![j] = "done"]
      BY DEF FinishJob, ProcessingFails, Goto
    <2>2. \E x \in IngestionJob : job' = [job EXCEPT ![j] = x]
      BY <1>3, <1>4 DEF FinishJob, ProcessingFails
    <2> QED BY <2>1, <2>2 DEF MoveTo
  <1>6. "done" \in PC /\ "done" \notin Planned /\ "done" \notin OpenTx
    BY DEF PC, Ended, Planned, OpenTx
  <1>7. faults' \in 0..MaxFaults
    BY <1>1, FaultType DEF FinishJob, ProcessingFails, TypeOK
  <1>8. lock' \in [Tenants \X Docs -> Jobs \cup {None, Orphaned}]
    BY <1>1, LockType DEF FinishJob, ProcessingFails, TypeOK
  <1>9. UNCHANGED <<superseded, graphVars, tx, storeVars>>
    BY DEF FinishJob, ProcessingFails
  <1> QED BY <1>1, <1>5, <1>6, <1>7, <1>8, <1>9, LocalStep

\* Submission stores a fresh record.
LEMMA SubmitStep ==
  ASSUME ConstantsAssumption, InstallInvariant, NEW j \in Jobs, NEW t \in Tenants,
         NEW d \in Docs, NEW c \in Contents, Submit(j, t, d, c)
  PROVE  InstallInvariant'
PROOF
  <1>1. TypeOK /\ pc[j] \notin OpenTx
    BY DEF InstallInvariant, Submit, OpenTx
  <1>2. NewJob(t, d, c) \in IngestionJob
    BY DEF NewJob, IngestionJob, Status, LoadStatus, Errors
  <1>3. /\ MoveTo(j, "queued", NewJob(t, d, c))
        /\ UNCHANGED <<superseded, graphVars, tx, storeVars>>
    BY DEF Submit, Goto, MoveTo
  <1>4. "queued" \in PC /\ "queued" \notin Planned /\ "queued" \notin OpenTx
    BY DEF PC, Planned, OpenTx
  <1>5. /\ lock' \in [Tenants \X Docs -> Jobs \cup {None, Orphaned}]
        /\ faults' \in 0..MaxFaults
    BY <1>1 DEF Submit, TypeOK
  <1> QED BY <1>1, <1>2, <1>3, <1>4, <1>5, LocalStep

----------------------------------------------------------------------------
(* The steps of the environment. *)

\* What RQ does with a job whose worker failed.
LEMMA RequeueMoves ==
  ASSUME TypeOK, NEW j \in Jobs, pc[j] # "new", Requeue(j)
  PROVE  \E l \in {"queued", "dead"}, x \in IngestionJob : MoveTo(j, l, x)
PROOF
  <1>1. job[j] \in IngestionJob /\ job = [job EXCEPT ![j] = job[j]]
    BY JobFields DEF TypeOK
  <1> DEFINE x == [job[j] EXCEPT !.tries = @ + 1]
  <1>2. x \in IngestionJob
    BY <1>1 DEF IngestionJob
  <1>3. MoveTo(j, "queued", x) \/ MoveTo(j, "dead", job[j])
    BY <1>1 DEF Requeue, Goto, MoveTo
  <1> QED BY <1>1, <1>2, <1>3

\* Failures that send a job outside its transaction back or give it up.
LEMMA RequeueSteps ==
  ASSUME ConstantsAssumption, InstallInvariant, NEW j \in Jobs,
         RbacSchemaFails(j) \/ Redeliver(j) \/ QueuedJobExpires(j)
  PROVE  InstallInvariant'
PROOF
  <1>1. TypeOK /\ pc[j] # "new" /\ pc[j] \notin OpenTx
    BY DEF InstallInvariant, RbacSchemaFails, Redeliver, QueuedJobExpires, OpenTx
  <1>2. PICK l \in {"queued", "dead"}, x \in IngestionJob : MoveTo(j, l, x)
    <2>1. CASE RbacSchemaFails(j) \/ Redeliver(j)
      BY <1>1, <2>1, RequeueMoves DEF RbacSchemaFails, Redeliver
    <2>2. CASE QueuedJobExpires(j)
      <3>1. job[j] \in IngestionJob /\ job = [job EXCEPT ![j] = job[j]]
        BY <1>1, JobFields DEF TypeOK
      <3>2. MoveTo(j, "dead", job[j])
        BY <2>2, <3>1 DEF QueuedJobExpires, Goto, MoveTo
      <3> QED BY <3>1, <3>2
    <2> QED BY <2>1, <2>2
  <1>3. l \in PC /\ l \notin Planned /\ l \notin OpenTx
    BY DEF PC, Ended, Planned, OpenTx
  <1>4. faults' \in 0..MaxFaults
    BY <1>1, FaultType DEF RbacSchemaFails, Redeliver, QueuedJobExpires
  <1>5. lock' \in [Tenants \X Docs -> Jobs \cup {None, Orphaned}]
    BY <1>1 DEF RbacSchemaFails, Redeliver, QueuedJobExpires, TypeOK
  <1>6. UNCHANGED <<superseded, graphVars, tx, storeVars>>
    BY DEF RbacSchemaFails, Redeliver, QueuedJobExpires
  <1> QED BY <1>1, <1>2, <1>3, <1>4, <1>5, <1>6, LocalStep

\* A dying worker may die inside its transaction, which is rolled back.
LEMMA DeathStep ==
  ASSUME ConstantsAssumption, InstallInvariant, NEW j \in Jobs, WorkerDies(j)
  PROVE  InstallInvariant'
PROOF
  <1>1. TypeOK /\ pc[j] # "new"
    BY DEF InstallInvariant, WorkerDies, Running, LockedSection
  <1>2. PICK l \in {"queued", "dead"}, x \in IngestionJob : MoveTo(j, l, x)
    BY <1>1, RequeueMoves DEF WorkerDies
  <1>3. l \in PC /\ l \notin Planned /\ l \notin OpenTx /\ l # "commit"
    BY DEF PC, Ended, Planned, OpenTx
  <1>4. tx' \in [Docs -> Jobs \cup {None}] /\ TransactionsHeld'
    BY <1>2, <1>3, TxReleased DEF WorkerDies
  <1>5. lock' \in [Tenants \X Docs -> Jobs \cup {None, Orphaned}]
    BY <1>1, LockType DEF WorkerDies
  <1>6. faults' \in 0..MaxFaults
    BY <1>1, FaultType DEF WorkerDies
  <1>7. /\ superseded' \in [Jobs -> RevIds \cup {None}]
        /\ \A i \in Jobs : superseded'[i] \in {superseded[i], None}
        /\ blob' \in [BlobKeys -> Contents \cup {None}]
        /\ vector' \in [RevIds -> Contents \cup {None}]
        /\ StoresKept /\ UNCHANGED graphVars
    BY <1>1 DEF WorkerDies, TypeOK, StoresKept, storeVars
  <1> QED BY <1>2, <1>3, <1>4, <1>5, <1>6, <1>7, QuietStep

\* The API process takes all its jobs and their transactions with it.
LEMMA ApiDeathStep ==
  ASSUME ConstantsAssumption, InstallInvariant, ApiProcessDies
  PROVE  InstallInvariant'
PROOF
  <1>1. TypeOK /\ None \notin Jobs
    BY DEF InstallInvariant, ConstantsAssumption
  <1>2. \A j \in Jobs : (pc'[j] = "dead" /\ pc[j] # "new")
                         \/ (pc'[j] = pc[j] /\ pc[j] \notin Running)
    BY <1>1 DEF ApiProcessDies, TypeOK, Running, LockedSection
  <1>3. pc' \in [Jobs -> PC] /\ \A j \in Jobs : pc'[j] \notin Planned
    <2>1. pc' \in [Jobs -> PC]
      BY <1>1 DEF ApiProcessDies, TypeOK, PC, Ended
    <2> QED BY <1>2, <2>1 DEF Planned, Running, LockedSection
  <1>4. UNCHANGED <<job, graphVars, lock, storeVars>> /\ tx' = [d \in Docs |-> None]
        /\ superseded' = [j \in Jobs |-> None]
    BY DEF ApiProcessDies
  <1>5. TypeOK'
    <2>1. faults' \in 0..MaxFaults
      BY <1>1, FaultType DEF ApiProcessDies
    <2> QED BY <1>1, <1>2, <1>3, <1>4, <2>1 DEF TypeOK, graphVars, storeVars
  <1>6. TransactionsHeld' /\ PlansFollowVersions' /\ CommitsAreStored' /\ PurgesAreOfExpired'
    BY <1>1, <1>3, <1>4 DEF TransactionsHeld, PlansFollowVersions, CommitsAreStored,
       PurgesAreOfExpired, Planned
  <1>7. /\ RevisionsLinked' /\ VersionsContiguous' /\ ContentFollowsLifecycle' /\ ActiveIsStored'
    BY <1>4 DEF InstallInvariant, RevisionsLinked, VersionsContiguous,
       ContentFollowsLifecycle, MarkedActive, ActiveIsStored, graphVars, storeVars
  <1> QED BY <1>5, <1>6, <1>7 DEF InstallInvariant

\* Losing the Redis lock costs none of this: the invariant does not use it.
LEMMA ExpiryStep ==
  ASSUME ConstantsAssumption, InstallInvariant, NEW k \in Tenants \X Docs, ExpireLock(k)
  PROVE  InstallInvariant'
PROOF
  <1>1. TypeOK
    BY DEF InstallInvariant
  <1>2. faults' \in 0..MaxFaults
    BY <1>1, FaultType DEF ExpireLock, TypeOK
  <1>3. lock' \in [Tenants \X Docs -> Jobs \cup {None, Orphaned}]
    BY <1>1 DEF ExpireLock, TypeOK
  <1>4. UNCHANGED <<jobVars, graphVars, tx, storeVars>>
    BY DEF ExpireLock
  <1>5. TypeOK'
    BY <1>1, <1>2, <1>3, <1>4 DEF TypeOK, jobVars, graphVars, storeVars
  <1> QED BY <1>4, <1>5 DEF InstallInvariant, TransactionsHeld, RevisionsLinked,
       PlansFollowVersions, VersionsContiguous, ContentFollowsLifecycle, MarkedActive, CommitsAreStored,
       PurgesAreOfExpired, ActiveIsStored, RevisionId, jobVars, graphVars, storeVars

----------------------------------------------------------------------------
(* The theorems. *)

\* The invariant holds of the empty stores.
LEMMA InitialInvariant == ConstantsAssumption /\ Init => InstallInvariant
PROOF
  <1> SUFFICES ASSUME ConstantsAssumption, Init PROVE InstallInvariant
    OBVIOUS
  <1>1. TypeOK
    BY DEF ConstantsAssumption, Init, TypeOK, PC
  <1>2. None \notin Jobs /\ NoRev.status # "ACTIVE"
    BY DEF ConstantsAssumption, NoRev
  <1>3. TransactionsHeld /\ PlansFollowVersions /\ CommitsAreStored /\ PurgesAreOfExpired
    BY <1>2 DEF Init, TransactionsHeld, PlansFollowVersions, CommitsAreStored, PurgesAreOfExpired
  <1>4. RevisionsLinked /\ ContentFollowsLifecycle /\ ActiveIsStored
    BY <1>2 DEF Init, RevisionsLinked, ContentFollowsLifecycle, MarkedActive, ActiveIsStored
  <1>5. VersionsContiguous
    <2>1. 0 \in 0..MaxVersion /\ \A v \in Versions : ~(v <= 0) /\ v # 0
      BY DEF ConstantsAssumption, Versions
    <2> QED BY <2>1 DEF Init, VersionsContiguous
  <1> QED BY <1>1, <1>3, <1>4, <1>5 DEF InstallInvariant

\* Every step preserves the invariant: one fact per action.
LEMMA InvariantStep ==
  ASSUME ConstantsAssumption, InstallInvariant, [Next]_vars
  PROVE  InstallInvariant'
PROOF
  <1>1. ASSUME NEW j \in Jobs, WorkerStep(j) PROVE InstallInvariant'
    BY <1>1, StepsBeforeLock, SnapshotStep, LockSteps, BeginStep, DualWriteStep,
       FailedLoadSteps, CommitSteps, PurgeStep, SourceStep, EndingSteps DEF WorkerStep
  <1>2. ASSUME NEW j \in Jobs, JobFault(j) PROVE InstallInvariant'
    BY <1>2, RequeueSteps, EndingSteps, LockSteps, CommitSteps, FailedLoadSteps,
       RetryStep, DeathStep, ApiDeathStep DEF JobFault, ProcessDies
  <1>3. CASE UNCHANGED vars
    <2>1. UNCHANGED <<pc, job, superseded, dl, rev, hasRev, activeRev, nodes, tx, lock,
                      blob, vector, faults>>
      BY <1>3 DEF vars, jobVars, graphVars, storeVars
    <2>2. TypeOK'
      BY <2>1 DEF InstallInvariant, TypeOK
    <2>3. TransactionsHeld' /\ PlansFollowVersions' /\ CommitsAreStored' /\ PurgesAreOfExpired'
      BY <2>1 DEF InstallInvariant, TransactionsHeld, PlansFollowVersions, CommitsAreStored,
         PurgesAreOfExpired, RevisionId
    <2>4. RevisionsLinked' /\ VersionsContiguous' /\ ContentFollowsLifecycle' /\ ActiveIsStored'
      BY <2>1 DEF InstallInvariant, RevisionsLinked, VersionsContiguous,
         ContentFollowsLifecycle, MarkedActive, ActiveIsStored
    <2> QED BY <2>2, <2>3, <2>4 DEF InstallInvariant
  <1> QED BY <1>1, <1>2, <1>3, SubmitStep, ExpiryStep DEF Next

\* InstallInvariant is an invariant of the ingestion of every number of jobs.
THEOREM Invariance == Spec => []InstallInvariant
PROOF
  <1>1. Init => InstallInvariant
    BY ConstantsAssumption, InitialInvariant
  <1>2. InstallInvariant /\ [Next]_vars => InstallInvariant'
    BY ConstantsAssumption, InvariantStep
  <1> QED BY <1>1, <1>2, PTL DEF Spec

\* The state keeps its types: above all, no worker writes under a revision
\* id outside the plan, and no job runs without its job record.
THEOREM TypeCorrect == Spec => []TypeOK
  BY Invariance, PTL DEF InstallInvariant

\* Although version numbers are planned outside the lock and the lock can be
\* lost, the revisions of a document are r1..rn, the newest one ACTIVE.
THEOREM ContiguousVersions == Spec => []VersionsContiguous
  BY Invariance, PTL DEF InstallInvariant

\* What the graph lets retrieval reach is in the text and vector stores,
\* whatever transactions abort, purges interleave or workers die.
THEOREM ActiveStored == Spec => []ActiveIsStored
  BY Invariance, PTL DEF InstallInvariant

\* Readers of the graph see whole revisions, and only ACTIVE ones.
THEOREM LifecycleContent == Spec => []ContentFollowsLifecycle
  BY Invariance, PTL DEF InstallInvariant

\* A document's versions are contiguous with the newest ACTIVE, so there are
\* no two ACTIVE ones.
LEMMA ActiveIsOne ==
  ASSUME InstallInvariant
  PROVE  OneActiveRevision /\ \A r, s \in activeRev : r[1] = s[1] => r = s
PROOF
  <1>1. ASSUME NEW r \in activeRev, NEW s \in activeRev, r[1] = s[1] PROVE r = s
    <2>1. /\ r[1] \in Docs /\ r[2] \in Versions /\ r = <<r[1], r[2]>>
          /\ s[2] \in Versions /\ s = <<s[1], s[2]>>
      BY ConstantsAssumption, ActiveIsLinked
    <2>2. PICK n \in 0..MaxVersion : \A v \in Versions : <<r[1], v>> \in activeRev <=> v = n
      BY <2>1 DEF InstallInvariant, VersionsContiguous
    <2> QED BY <1>1, <2>1, <2>2
  <1>2. \A r \in RevIds : MarkedActive(r) => r \in activeRev
    BY DEF InstallInvariant, ContentFollowsLifecycle
  <1> QED BY <1>1, <1>2 DEF OneActiveRevision

\* No interleaving of installs leaves a document with two ACTIVE revisions.
THEOREM SingleActive == Spec => []OneActiveRevision
  BY ActiveIsOne, Invariance, PTL

\* Only a commit changes what the graph says about revisions.
LEMMA GraphSteps ==
  ASSUME [Next]_vars
  PROVE  \/ UNCHANGED <<rev, hasRev, activeRev, nodes>>
         \/ \E j \in Jobs : pc[j] = "commit" /\ InstalledBy(j)
PROOF
  <1> DEFINE Same == UNCHANGED <<rev, hasRev, activeRev, nodes>>
  <1>1. ASSUME NEW j \in Jobs, WorkerStep(j) PROVE Same \/ (pc[j] = "commit" /\ InstalledBy(j))
    BY <1>1 DEF WorkerStep, StartJob, EnsureRbacSchema, InputMissing, ResolveLogicalId,
       CheckDuplicate, PlanRevision, WriteSnapshots, AcquireLock, LoadDuplicateCheck,
       BeginInstallTx, DualWriteChunks, RevisionIdTaken, CommitInstallTx,
       PurgeSuperseded, PersistSourceFile, FinishJob, graphVars
  <1>2. ASSUME NEW j \in Jobs, JobFault(j) PROVE Same \/ (pc[j] = "commit" /\ InstalledBy(j))
    BY <1>2 DEF JobFault, RbacSchemaFails, ProcessingFails, ProceedWithoutLock,
       CommitOutcomeLost, AbortInstallTx, RetryInstallTx, ProcessDies, WorkerDies,
       ApiProcessDies, Redeliver, QueuedJobExpires, graphVars
  <1>3. CASE UNCHANGED vars
    BY <1>3 DEF vars, graphVars
  <1> QED BY <1>1, <1>2, <1>3 DEF Next, Submit, ExpireLock, graphVars

\* No revision's hash or tenant changes, and an EXPIRED one stays EXPIRED.
RevisionsKept ==
    \A r \in RevIds : rev[r] # NoRev =>
        /\ rev'[r] # NoRev
        /\ rev'[r].hash = rev[r].hash /\ rev'[r].tenant = rev[r].tenant
        /\ rev[r].status = "EXPIRED" => rev'[r].status = "EXPIRED"

\* No step takes a revision from the graph, or what makes it that revision.
LEMMA RevisionsStay ==
  ASSUME ConstantsAssumption, InstallInvariant, [Next]_vars
  PROVE  RevisionsKept /\ hasRev \subseteq hasRev'
PROOF
  <1>1. CASE UNCHANGED <<rev, hasRev>>
    BY <1>1 DEF RevisionsKept
  <1>2. CASE \E j \in Jobs : pc[j] = "commit" /\ InstalledBy(j)
    <2>1. PICK j \in Jobs : pc[j] = "commit" /\ InstalledBy(j)
      BY <1>2
    <2> DEFINE new == [status |-> "ACTIVE", hash |-> job[j].content, tenant |-> job[j].tenant]
               prev == PreviousRevisions(job[j].doc)
    <2>2. rev' = [Expired(prev) EXCEPT ![RevisionId(j)] = new]
          /\ hasRev' = hasRev \cup {RevisionId(j)}
      BY <2>1 DEF InstalledBy
    <2>3. RevisionId(j) \in RevIds /\ rev[RevisionId(j)] = NoRev
      BY <2>1, ConstantsAssumption, CommittedVersion DEF InstallInvariant, RevisionsLinked
    <2> HIDE DEF new, prev
    <2> SUFFICES ASSUME NEW r \in RevIds, rev[r] # NoRev
                 PROVE  /\ rev'[r] # NoRev
                        /\ rev'[r].hash = rev[r].hash /\ rev'[r].tenant = rev[r].tenant
                        /\ rev[r].status = "EXPIRED" => rev'[r].status = "EXPIRED"
      BY <2>2 DEF RevisionsKept
    <2>4. rev[r] \in DocRevision
      BY DEF InstallInvariant, TypeOK
    <2>5. rev'[r] = IF r \in prev THEN [rev[r] EXCEPT !.status = "EXPIRED"] ELSE rev[r]
      BY <2>2, <2>3 DEF Expired
    <2> QED BY <2>4, <2>5 DEF DocRevision, NoRev
  <1> QED BY <1>1, <1>2, GraphSteps

\* Revisions are an audit trail: no step changes the hash or the tenant of a
\* DocRevision or brings an EXPIRED one back.
THEOREM ImmutableRevisions == Spec => RevisionsImmutable
PROOF
  <1>1. InstallInvariant /\ [Next]_vars => [RevisionsKept]_vars
    BY ConstantsAssumption, RevisionsStay
  <1> QED BY <1>1, Invariance, PTL DEF Spec, RevisionsImmutable, RevisionsKept

----------------------------------------------------------------------------
(* A job that says its revision was loaded is right. *)

\* The revision that the record x of a job names holds its content.
Installed(x) ==
    LET r == <<x.doc, x.ver>>
    IN  r \in hasRev /\ rev[r].hash = x.content /\ rev[r].tenant = x.tenant

\* What a job at l with record x says of its load is so.
TellsTheTruth(l, x) ==
    /\ l \in {"purge", "source"} => Installed(x)
    /\ x.load = "success" /\ (l = "finish" \/ x.status = "completed") => Installed(x)
    /\ x.status = "completed" => l \in {"queued", "done", "dead"}

\* All jobs tell the truth about their loads.
LoadsAreReal == \A j \in Jobs : pc[j] # "new" => TellsTheTruth(pc[j], job[j])

\* The inductive invariant of SuccessIsInstalled.
SuccessInvariant == InstallInvariant /\ LoadsAreReal

\* What is installed stays installed, EXPIRED or not.
LEMMA InstalledStays ==
  ASSUME ConstantsAssumption, InstallInvariant, [Next]_vars, NEW x, Installed(x)
  PROVE  Installed(x)'
PROOF
  <1> DEFINE r == <<x.doc, x.ver>>
  <1>1. r \in RevIds /\ rev[r] # NoRev
    BY DEF Installed, InstallInvariant, RevisionsLinked, TypeOK
  <1>2. r \in hasRev' /\ rev'[r].hash = rev[r].hash /\ rev'[r].tenant = rev[r].tenant
    BY <1>1, RevisionsStay DEF RevisionsKept, Installed
  <1> QED BY <1>2 DEF Installed

\* Nobody else's step makes what a job says of its load wrong.
LEMMA TruthStays ==
  ASSUME ConstantsAssumption, InstallInvariant, [Next]_vars, NEW l, NEW x, TellsTheTruth(l, x)
  PROVE  TellsTheTruth(l, x)'
  BY InstalledStays DEF TellsTheTruth

\* A revision that j's transaction commits is installed.
LEMMA CommitInstalls ==
  ASSUME ConstantsAssumption, InstallInvariant, NEW j \in Jobs, pc[j] = "commit",
         InstalledBy(j), NEW x, x = job[j]
  PROVE  Installed(x)'
PROOF
  <1> DEFINE new == [status |-> "ACTIVE", hash |-> job[j].content, tenant |-> job[j].tenant]
             prev == PreviousRevisions(job[j].doc)
  <1>1. rev' = [Expired(prev) EXCEPT ![RevisionId(j)] = new] /\ hasRev' = hasRev \cup {RevisionId(j)}
    BY DEF InstalledBy
  <1>2. RevisionId(j) \in RevIds
    BY CommittedVersion
  <1>3. new.hash = job[j].content /\ new.tenant = job[j].tenant
    OBVIOUS
  <1> HIDE DEF new, prev
  <1>4. rev'[RevisionId(j)] = new
    BY <1>1, <1>2 DEF Expired
  <1> QED BY <1>1, <1>3, <1>4 DEF Installed, RevisionId

\* Moving to l with record x leaves the job telling the truth if it is not
\* completed and neither installs nor ends a load.
LEMMA SilentMoves ==
  ASSUME NEW l, NEW x, l \notin {"purge", "source", "finish"}, x.status # "completed"
  PROVE  TellsTheTruth(l, x)'
  BY DEF TellsTheTruth

\* The job of a worker's step: what it says of its load is true after it.
LEMMA WorkerTellsTheTruth ==
  ASSUME ConstantsAssumption, SuccessInvariant, [Next]_vars, NEW j \in Jobs, WorkerStep(j),
         NEW l, NEW x, l = pc'[j], x = job'[j]
  PROVE  TellsTheTruth(l, x)'
PROOF
  <1>1. TypeOK /\ pc[j] # "new"
    BY DEF SuccessInvariant, InstallInvariant, WorkerStep, StartJob, EnsureRbacSchema,
       InputMissing, ResolveLogicalId, CheckDuplicate, PlanRevision, WriteSnapshots,
       AcquireLock, LoadDuplicateCheck, BeginInstallTx, DualWriteChunks, RevisionIdTaken,
       CommitInstallTx, PurgeSuperseded, PersistSourceFile, FinishJob
  <1>2. job[j] \in IngestionJob /\ pc \in [Jobs -> PC] /\ DOMAIN job = Jobs
    BY <1>1, JobFields DEF TypeOK
  <1>3. TellsTheTruth(pc[j], job[j]) /\ InstallInvariant
    BY <1>1 DEF SuccessInvariant, LoadsAreReal
  <1>4. pc[j] \in Running => job[j].status # "completed"
    BY <1>3 DEF TellsTheTruth, Running, LockedSection
  <1>5. CASE StartJob(j)
    <2>1. l = "rbac" /\ x.status = "validating"
      BY <1>2, <1>5 DEF StartJob, Goto, IngestionJob
    <2> QED BY <2>1, SilentMoves
  <1>6. CASE EnsureRbacSchema(j) \/ AcquireLock(j) \/ BeginInstallTx(j) \/ DualWriteChunks(j)
    <2>1. x = job[j] /\ l \in {"parse", "load", "dual", "commit"} /\ pc[j] \in Running
      BY <1>2, <1>6 DEF EnsureRbacSchema, AcquireLock, BeginInstallTx, DualWriteChunks,
         Goto, Running, LockedSection
    <2> QED BY <1>4, <2>1, SilentMoves
  <1>7. CASE InputMissing(j) \/ RevisionIdTaken(j)
    <2>1. l = "done" /\ x.status = "failed"
      BY <1>2, <1>7 DEF InputMissing, RevisionIdTaken, LoadFails, FailedJob, Goto, IngestionJob
    <2> QED BY <2>1, SilentMoves
  <1>8. CASE ResolveLogicalId(j)
    <2>1. l = "check" /\ x.status = "parsing"
      BY <1>2, <1>8 DEF ResolveLogicalId, Goto, IngestionJob
    <2> QED BY <2>1, SilentMoves
  <1>9. CASE CheckDuplicate(j) \/ LoadDuplicateCheck(j)
    <2>1. \/ x = job[j] /\ l \in {"plan", "begin"}
          \/ x.load = "skipped" /\ x.status = job[j].status /\ l = "finish"
      BY <1>2, <1>9 DEF CheckDuplicate, LoadDuplicateCheck, SkippedJob, Goto, IngestionJob
    <2>2. job[j].status # "completed"
      BY <1>4, <1>9 DEF CheckDuplicate, LoadDuplicateCheck, Running, LockedSection
    <2> QED BY <2>1, <2>2, SilentMoves DEF TellsTheTruth
  <1>10. CASE PlanRevision(j) \/ WriteSnapshots(j)
    <2>1. l \in {"snapshot", "lock"} /\ x.status \in {job[j].status, "exporting"}
      BY <1>2, <1>10 DEF PlanRevision, WriteSnapshots, Goto, IngestionJob
    <2>2. job[j].status # "completed"
      BY <1>4, <1>10 DEF PlanRevision, WriteSnapshots, Running, LockedSection
    <2> QED BY <2>1, <2>2, SilentMoves
  <1>11. CASE CommitInstallTx(j)
    <2>1. x = job[j] /\ l = "purge" /\ pc[j] = "commit" /\ InstalledBy(j)
      BY <1>2, <1>11 DEF CommitInstallTx, Goto
    <2>2. Installed(x)'
      BY <1>3, <2>1, CommitInstalls
    <2>3. x.status # "completed"
      BY <1>4, <2>1 DEF Running, LockedSection
    <2> QED BY <2>1, <2>2, <2>3 DEF TellsTheTruth
  <1>12. CASE PurgeSuperseded(j) \/ PersistSourceFile(j)
    <2>1. /\ x.doc = job[j].doc /\ x.ver = job[j].ver /\ x.content = job[j].content
          /\ x.tenant = job[j].tenant /\ x.status = job[j].status
          /\ l \in {"source", "finish"} /\ pc[j] \in {"purge", "source"}
      BY <1>2, <1>12 DEF PurgeSuperseded, PersistSourceFile, Goto, IngestionJob
    <2>2. Installed(x)
      BY <1>3, <2>1 DEF TellsTheTruth, Installed
    <2>3. Installed(x)'
      BY <1>3, <2>2, InstalledStays
    <2>4. x.status # "completed"
      BY <1>4, <2>1 DEF Running, LockedSection
    <2> QED BY <2>1, <2>3, <2>4 DEF TellsTheTruth
  <1>13. CASE FinishJob(j)
    <2>1. /\ x.doc = job[j].doc /\ x.ver = job[j].ver /\ x.content = job[j].content
          /\ x.tenant = job[j].tenant /\ x.load = job[j].load /\ l = "done"
          /\ pc[j] = "finish"
      BY <1>2, <1>13 DEF FinishJob, FailedJob, Goto, IngestionJob
    <2>2. x.load = "success" => Installed(x)'
      <3>1. x.load = "success" => Installed(x)
        BY <1>3, <2>1 DEF TellsTheTruth, Installed
      <3> QED BY <1>3, <3>1, InstalledStays
    <2> QED BY <2>1, <2>2 DEF TellsTheTruth
  <1> QED BY <1>5, <1>6, <1>7, <1>8, <1>9, <1>10, <1>11, <1>12, <1>13 DEF WorkerStep

\* A failure of a job or of its worker: what the job says of its load is true
\* after it.
LEMMA FaultTellsTheTruth ==
  ASSUME ConstantsAssumption, SuccessInvariant, [Next]_vars, NEW j \in Jobs,
         JobFault(j), ~ApiProcessDies,
         NEW l, NEW x, l = pc'[j], x = job'[j]
  PROVE  TellsTheTruth(l, x)'
PROOF
  <1>1. TypeOK /\ pc[j] # "new"
    BY DEF SuccessInvariant, InstallInvariant, JobFault, RbacSchemaFails, ProcessingFails,
       ProceedWithoutLock, CommitOutcomeLost, AbortInstallTx, RetryInstallTx, ProcessDies,
       WorkerDies, Redeliver, QueuedJobExpires, Running, LockedSection
  <1>2. job[j] \in IngestionJob /\ pc \in [Jobs -> PC] /\ DOMAIN job = Jobs
    BY <1>1, JobFields DEF TypeOK
  <1>3. TellsTheTruth(pc[j], job[j]) /\ InstallInvariant
    BY <1>1 DEF SuccessInvariant, LoadsAreReal
  <1>4. pc[j] \in Running => job[j].status # "completed"
    BY <1>3 DEF TellsTheTruth, Running, LockedSection
  <1>5. CASE RbacSchemaFails(j) \/ Redeliver(j) \/ QueuedJobExpires(j) \/ WorkerDies(j)
    <2>1. /\ x.doc = job[j].doc /\ x.ver = job[j].ver /\ x.content = job[j].content
          /\ x.tenant = job[j].tenant /\ x.load = job[j].load /\ x.status = job[j].status
          /\ l \in {"queued", "dead"}
      BY <1>2, <1>5 DEF RbacSchemaFails, Redeliver, QueuedJobExpires, WorkerDies, Requeue,
         Goto, IngestionJob
    <2>2. TellsTheTruth(l, x)
      BY <1>3, <2>1 DEF TellsTheTruth, Installed
    <2> QED BY <1>3, <2>2, TruthStays
  <1>6. CASE ProcessingFails(j) \/ CommitOutcomeLost(j) \/ AbortInstallTx(j)
    <2>1. l = "done" /\ x.status = "failed"
      BY <1>2, <1>6 DEF ProcessingFails, CommitOutcomeLost, AbortInstallTx, LoadFails,
         FailedJob, Goto, IngestionJob
    <2> QED BY <2>1, SilentMoves
  <1>7. CASE ProceedWithoutLock(j) \/ RetryInstallTx(j)
    <2>1. x = job[j] /\ l \in {"load", "begin"} /\ pc[j] \in Running
      BY <1>2, <1>7 DEF ProceedWithoutLock, RetryInstallTx, Goto, Running, LockedSection
    <2> QED BY <1>4, <2>1, SilentMoves
  <1> QED BY <1>5, <1>6, <1>7 DEF JobFault, ProcessDies

\* Only its own step, its submission or the death of the API process changes
\* what a job is.
LEMMA OthersKeepTheirJobs ==
  ASSUME TypeOK, [Next]_vars, NEW i \in Jobs
  PROVE  \/ pc'[i] = pc[i] /\ job'[i] = job[i]
         \/ WorkerStep(i)
         \/ JobFault(i) /\ ~ApiProcessDies
         \/ pc'[i] \in {pc[i], "dead"} /\ job'[i] = job[i] /\ pc[i] # "new"
         \/ \E t \in Tenants, d \in Docs, c \in Contents : Submit(i, t, d, c)
PROOF
  <1>1. pc \in [Jobs -> PC] /\ DOMAIN job = Jobs
    BY DEF TypeOK
  <1>2. ASSUME NEW j \in Jobs, j # i, WorkerStep(j) PROVE pc'[i] = pc[i] /\ job'[i] = job[i]
    BY <1>1, <1>2 DEF WorkerStep, StartJob, EnsureRbacSchema, InputMissing, ResolveLogicalId,
       CheckDuplicate, PlanRevision, WriteSnapshots, AcquireLock, LoadDuplicateCheck,
       BeginInstallTx, DualWriteChunks, RevisionIdTaken, CommitInstallTx, PurgeSuperseded,
       PersistSourceFile, FinishJob, Goto, SkippedJob, FailedJob, LoadFails
  <1>3. ASSUME NEW j \in Jobs, j # i, JobFault(j), ~ApiProcessDies
        PROVE  pc'[i] = pc[i] /\ job'[i] = job[i]
    BY <1>1, <1>3 DEF JobFault, RbacSchemaFails, ProcessingFails, ProceedWithoutLock,
       CommitOutcomeLost, AbortInstallTx, RetryInstallTx, ProcessDies, WorkerDies, Redeliver,
       QueuedJobExpires, Requeue, Goto, FailedJob, LoadFails
  <1>4. CASE ApiProcessDies
    BY <1>1, <1>4 DEF ApiProcessDies, Running, LockedSection
  <1>5. ASSUME NEW j \in Jobs, j # i, NEW t \in Tenants, NEW d \in Docs, NEW c \in Contents,
               Submit(j, t, d, c)
        PROVE  pc'[i] = pc[i] /\ job'[i] = job[i]
    BY <1>1, <1>5 DEF Submit, Goto
  <1>6. ASSUME NEW k, ExpireLock(k) PROVE pc'[i] = pc[i] /\ job'[i] = job[i]
    BY <1>6 DEF ExpireLock, jobVars
  <1>7. CASE UNCHANGED vars
    BY <1>7 DEF vars, jobVars
  <1> QED BY <1>2, <1>3, <1>4, <1>5, <1>6, <1>7 DEF Next

\* Every step preserves what the jobs say of their loads.
LEMMA SuccessStep ==
  ASSUME ConstantsAssumption, SuccessInvariant, [Next]_vars
  PROVE  SuccessInvariant'
PROOF
  <1>1. InstallInvariant /\ TypeOK /\ InstallInvariant'
    BY InvariantStep DEF SuccessInvariant, InstallInvariant
  <1> SUFFICES ASSUME NEW i \in Jobs, pc'[i] # "new", NEW l, NEW x, l = pc'[i], x = job'[i]
               PROVE  TellsTheTruth(l, x)'
    BY <1>1 DEF SuccessInvariant, LoadsAreReal
  <1>2. CASE pc'[i] \in {pc[i], "dead"} /\ job'[i] = job[i] /\ pc[i] # "new"
    <2>1. TellsTheTruth(l, x)
      BY <1>2 DEF SuccessInvariant, LoadsAreReal, TellsTheTruth
    <2> QED BY <1>1, <2>1, TruthStays
  <1>3. CASE \E t \in Tenants, d \in Docs, c \in Contents : Submit(i, t, d, c)
    <2>1. l = "queued" /\ x.status = "queued"
      BY <1>1, <1>3 DEF Submit, Goto, NewJob, TypeOK
    <2> QED BY <2>1, SilentMoves
  <1> QED BY <1>1, <1>2, <1>3, OthersKeepTheirJobs, WorkerTellsTheTruth, FaultTellsTheTruth

\* A job that ends with a successful load has installed a revision that holds
\* its content, whatever retries and crashes came before.
THEOREM SuccessInstalled == Spec => []SuccessIsInstalled
PROOF
  <1>1. Init => SuccessInvariant
    BY ConstantsAssumption, InitialInvariant DEF SuccessInvariant, LoadsAreReal, Init
  <1>2. SuccessInvariant /\ [Next]_vars => SuccessInvariant'
    BY ConstantsAssumption, SuccessStep
  <1>3. SuccessInvariant => SuccessIsInstalled
    BY DEF SuccessInvariant, LoadsAreReal, TellsTheTruth, Installed, SuccessIsInstalled,
       RevisionId, InstallInvariant, RevisionsLinked, TypeOK
  <1> QED BY <1>1, <1>2, <1>3, PTL DEF Spec

----------------------------------------------------------------------------
(* No source file is left behind, as long as nothing fails and documents are
   not shared between tenants. *)

\* Control points of the install that the lock covers.  (A duplicate upload
\* reaches "finish" without it.)
Installing == {"load", "begin", "dual", "commit", "purge", "source"}

\* Only revisions that are ACTIVE or about to be purged have a source file.
SourcesAreServed ==
    \A t \in Tenants, r \in RevIds : blob[<<t, r, "source">>] # None =>
        \/ r \in activeRev
        \/ \E j \in Jobs : pc[j] = "purge" /\ superseded[j] = r

\* The inductive invariant of SupersededSourceGone: who installs holds the
\* lock, so that what it has installed stays ACTIVE until it is done.
SourceInvariant ==
    faults = 0 =>
        /\ \A j \in Jobs : pc[j] \in Installing => lock[LockKey(j)] = j
        /\ \A j \in Jobs : superseded[j] # None => pc[j] = "purge"
        /\ \A j \in Jobs : pc[j] \in {"purge", "source"} => RevisionId(j) \in activeRev
        /\ SourcesAreServed

\* While a job has its lock, no other job installs the same document.
LEMMA LocksAreExclusive ==
  ASSUME TypeOK, SourceInvariant, faults = 0, NEW i \in Jobs, NEW j \in Jobs, i # j,
         pc[i] \in Installing, pc[j] \in Installing, job[i].doc = job[j].doc
  PROVE  job[i].tenant # job[j].tenant
  BY DEF SourceInvariant, LockKey

\* A move of job j to l with record x, when the other jobs keep their locks.
LEMMA LocksStay ==
  ASSUME TypeOK, SourceInvariant, faults = 0, NEW j \in Jobs, NEW l, NEW x, MoveTo(j, l, x),
         \A k \in Tenants \X Docs, i \in Jobs : i # j /\ lock[k] = i => lock'[k] = i,
         l \in Installing => lock'[<<x.tenant, x.doc>>] = j
  PROVE  /\ \A i \in Jobs : pc'[i] \in Installing => lock'[LockKey(i)'] = i
         /\ pc'[j] = l /\ RevisionId(j)' = <<x.doc, x.ver>>
         /\ \A i \in Jobs : i # j => pc'[i] = pc[i] /\ job'[i] = job[i]
  <1>1. /\ pc'[j] = l /\ job'[j] = x
        /\ \A i \in Jobs : i # j => pc'[i] = pc[i] /\ job'[i] = job[i]
    <2>1. DOMAIN pc = Jobs /\ DOMAIN job = Jobs
      BY DEF TypeOK
    <2> QED
      BY <2>1 DEF MoveTo
  <1>2. ASSUME NEW i \in Jobs, i # j, pc'[i] \in Installing PROVE lock'[LockKey(i)'] = i
    <2>1. pc[i] \in Installing /\ pc[i] # "new" /\ LockKey(i)' = LockKey(i)
      BY <1>1, <1>2 DEF Installing, LockKey
    <2>2. LockKey(i) \in Tenants \X Docs
      BY <2>1, JobFields DEF LockKey
    <2>3. lock[LockKey(i)] = i
      BY <2>1 DEF SourceInvariant
    <2> QED
      BY <1>2, <2>1, <2>2, <2>3
  <1> QED
    BY <1>1, <1>2 DEF LockKey, RevisionId

\* A job moves without a commit or a purge.
LEMMA MovesLeaveNoSource ==
  ASSUME TypeOK, SourceInvariant, faults = 0, NEW j \in Jobs, NEW l, NEW x, MoveTo(j, l, x),
         \A k \in Tenants \X Docs, i \in Jobs : i # j /\ lock[k] = i => lock'[k] = i,
         l \in Installing => lock'[<<x.tenant, x.doc>>] = j,
         pc[j] # "purge", l # "purge", UNCHANGED <<superseded, activeRev>>,
         l = "source" => <<x.doc, x.ver>> \in activeRev,
         \A t \in Tenants, r \in RevIds :
            blob'[<<t, r, "source">>] # None => blob[<<t, r, "source">>] # None \/ r \in activeRev
  PROVE  SourceInvariant'
  <1>1. /\ \A i \in Jobs : pc'[i] \in Installing => lock'[LockKey(i)'] = i
        /\ pc'[j] = l /\ RevisionId(j)' = <<x.doc, x.ver>>
        /\ \A i \in Jobs : i # j => pc'[i] = pc[i] /\ job'[i] = job[i]
    BY LocksStay
  <1>2. \A i \in Jobs : superseded'[i] # None => pc'[i] = "purge"
    BY <1>1 DEF SourceInvariant
  <1>3. ASSUME NEW i \in Jobs, pc'[i] \in {"purge", "source"} PROVE RevisionId(i)' \in activeRev'
    <2>1. CASE i = j
      BY <1>1, <1>3, <2>1
    <2>2. CASE i # j
      BY <1>1, <1>3, <2>2 DEF SourceInvariant, RevisionId
    <2> QED
      BY <2>1, <2>2
  <1>4. SourcesAreServed'
    BY <1>1 DEF SourceInvariant, SourcesAreServed
  <1> QED
    BY <1>1, <1>2, <1>3, <1>4 DEF SourceInvariant

\* The revision a commit supersedes is the only one that it takes out of
\* service, and the installs of other documents keep theirs.
LEMMA CommitsLeaveNoSource ==
  ASSUME ConstantsAssumption, InstallInvariant, SourceInvariant, faults = 0,
         \A t \in Tenants, u \in Tenants : t = u,
         NEW j \in Jobs, CommitInstallTx(j)
  PROVE  SourceInvariant'
  <1>1. TypeOK /\ pc[j] = "commit" /\ job[j].doc \in Docs /\ job[j].tenant \in Tenants
    BY JobFields DEF InstallInvariant, CommitInstallTx
  <1>2. PICK prev : prev = PreviousRevisions(job[j].doc)
    OBVIOUS
  <1>3. /\ MoveTo(j, "purge", job[j]) /\ UNCHANGED <<lock, blob>>
        /\ activeRev' = (activeRev \ prev) \cup {RevisionId(j)}
        /\ prev = {r \in activeRev : r[1] = job[j].doc}
        /\ \E p \in RevIds \cup {None} :
              /\ superseded' = [superseded EXCEPT ![j] = p]
              /\ IF prev = {} THEN p = None ELSE p \in prev
    <2>1. job' = job /\ job \in [Jobs -> IngestionJob \cup {None}]
      BY <1>1 DEF CommitInstallTx, TypeOK
    <2>2. job' = [job EXCEPT ![j] = job[j]]
      BY <2>1
    <2> QED
      BY <1>2, <2>2 DEF CommitInstallTx, InstalledBy, PreviousRevisions, MoveTo, Goto, storeVars
  <1>4. lock[<<job[j].tenant, job[j].doc>>] = j
    BY <1>1 DEF SourceInvariant, LockKey, Installing
  <1>5. /\ \A i \in Jobs : pc'[i] \in Installing => lock'[LockKey(i)'] = i
        /\ pc'[j] = "purge" /\ RevisionId(j)' = <<job[j].doc, job[j].ver>>
        /\ \A i \in Jobs : i # j => pc'[i] = pc[i] /\ job'[i] = job[i]
    BY <1>1, <1>3, <1>4, LocksStay
  <1>6. PICK p : /\ superseded' = [superseded EXCEPT ![j] = p]
                 /\ IF prev = {} THEN p = None ELSE p \in prev
    BY <1>3
  <1>7. superseded \in [Jobs -> RevIds \cup {None}] /\ activeRev \subseteq RevIds
    BY <1>1 DEF TypeOK
  <1>8. superseded[j] = None /\ \A i \in Jobs : i # j => superseded'[i] = superseded[i]
    BY <1>1, <1>6, <1>7 DEF SourceInvariant
  <1>9. \A i \in Jobs : superseded'[i] # None => pc'[i] = "purge"
    BY <1>5, <1>8 DEF SourceInvariant
  <1>10. ASSUME NEW i \in Jobs, pc'[i] \in {"purge", "source"} PROVE RevisionId(i)' \in activeRev'
    <2>1. CASE i = j
      BY <1>3, <1>5, <2>1 DEF RevisionId
    <2>2. CASE i # j
      <3>1. pc[i] \in {"purge", "source"} /\ RevisionId(i)' = RevisionId(i)
        BY <1>5, <1>10, <2>2 DEF RevisionId
      <3>2. job[i].tenant \in Tenants
        BY <1>1, <3>1, JobFields
      <3>3. job[i].doc # job[j].doc
        BY <1>1, <2>2, <3>1, <3>2, LocksAreExclusive DEF Installing
      <3>4. RevisionId(i) \in activeRev /\ RevisionId(i)[1] = job[i].doc
        BY <3>1 DEF SourceInvariant, RevisionId
      <3> QED
        BY <1>3, <3>1, <3>3, <3>4
    <2> QED
      BY <2>1, <2>2
  <1>11. ASSUME NEW r \in prev PROVE superseded'[j] = r
    <2>1. p \in prev /\ superseded'[j] = p
      BY <1>6, <1>7, <1>11
    <2>2. p = r
      BY <1>3, <1>11, <2>1, ActiveIsOne
    <2> QED
      BY <2>1, <2>2
  <1>12. SourcesAreServed'
    <2> SUFFICES ASSUME NEW t \in Tenants, NEW r \in RevIds, blob'[<<t, r, "source">>] # None,
                        r \notin activeRev'
                 PROVE  \E i \in Jobs : pc'[i] = "purge" /\ superseded'[i] = r
      BY DEF SourcesAreServed
    <2>1. CASE r \in activeRev
      BY <1>3, <1>5, <1>11, <2>1
    <2>2. CASE r \notin activeRev
      <3>1. PICK i \in Jobs : pc[i] = "purge" /\ superseded[i] = r
        BY <1>3, <2>2 DEF SourceInvariant, SourcesAreServed
      <3>2. i # j
        BY <1>1, <3>1
      <3> QED
        BY <1>5, <1>8, <3>1, <3>2
    <2> QED
      BY <2>1, <2>2
  <1> QED
    BY <1>5, <1>9, <1>10, <1>12 DEF SourceInvariant

\* A purge that does not fail takes the source file with it.
LEMMA PurgesLeaveNoSource ==
  ASSUME ConstantsAssumption, InstallInvariant, SourceInvariant, faults = 0, faults' = 0,
         \A t \in Tenants, u \in Tenants : t = u,
         NEW j \in Jobs, PurgeSuperseded(j)
  PROVE  SourceInvariant'
  <1>1. /\ TypeOK /\ pc[j] = "purge" /\ job[j] \in IngestionJob /\ job[j].tenant \in Tenants
        /\ ~Fault
    BY JobFields DEF InstallInvariant, PurgeSuperseded, Fault
  <1>2. PICK x : x = [job[j] EXCEPT !.load = "success"]
    OBVIOUS
  <1>3. x.tenant = job[j].tenant /\ x.doc = job[j].doc /\ x.ver = job[j].ver
    BY <1>1, <1>2 DEF IngestionJob
  <1>4. /\ MoveTo(j, "source", x) /\ UNCHANGED <<lock, activeRev>>
        /\ superseded' = [superseded EXCEPT ![j] = None]
        /\ IF superseded[j] = None THEN blob' = blob
           ELSE blob' = PurgedBlob(job[j].tenant, superseded[j], Stores)
    <2>1. superseded[j] # None => blob' = PurgedBlob(job[j].tenant, superseded[j], Stores)
      BY <1>1 DEF PurgeSuperseded, PurgeRevision
    <2>2. job' = [job EXCEPT ![j] = x]
      <3>1. job \in [Jobs -> IngestionJob \cup {None}]
        BY <1>1 DEF TypeOK
      <3> QED
        BY <1>2, <3>1 DEF PurgeSuperseded
    <2> QED
      BY <2>1, <2>2 DEF PurgeSuperseded, MoveTo, Goto, graphVars, storeVars
  <1>5. lock[<<job[j].tenant, job[j].doc>>] = j
    BY <1>1 DEF SourceInvariant, LockKey, Installing
  <1>6. /\ \A i \in Jobs : pc'[i] \in Installing => lock'[LockKey(i)'] = i
        /\ pc'[j] = "source" /\ RevisionId(j)' = <<x.doc, x.ver>>
        /\ \A i \in Jobs : i # j => pc'[i] = pc[i] /\ job'[i] = job[i]
    BY <1>1, <1>3, <1>4, <1>5, LocksStay
  <1>7. superseded'[j] = None /\ \A i \in Jobs : i # j => superseded'[i] = superseded[i]
    BY <1>1, <1>4 DEF TypeOK
  <1>8. \A i \in Jobs : superseded'[i] # None => pc'[i] = "purge"
    BY <1>6, <1>7 DEF SourceInvariant
  <1>9. ASSUME NEW i \in Jobs, pc'[i] \in {"purge", "source"} PROVE RevisionId(i)' \in activeRev'
    <2>1. CASE i = j
      <3>1. RevisionId(i)' = RevisionId(j)
        BY <1>3, <1>6, <2>1 DEF RevisionId
      <3> QED
        BY <1>1, <1>4, <3>1 DEF SourceInvariant
    <2>2. CASE i # j
      BY <1>4, <1>6, <1>9, <2>2 DEF SourceInvariant, RevisionId
    <2> QED
      BY <2>1, <2>2
  <1>10. SourcesAreServed'
    <2> SUFFICES ASSUME NEW t \in Tenants, NEW r \in RevIds, blob'[<<t, r, "source">>] # None,
                        r \notin activeRev'
                 PROVE  \E i \in Jobs : pc'[i] = "purge" /\ superseded'[i] = r
      BY DEF SourcesAreServed
    <2>1. <<t, r, "source">> \in BlobKeys /\ "source" \in Stores /\ r # None
      BY DEF BlobKeys, BlobKinds, Stores, RevIds, Versions, ConstantsAssumption
    <2>2. blob[<<t, r, "source">>] # None /\ superseded[j] # r
      <3>1. t = job[j].tenant
        BY <1>1
      <3>2. CASE superseded[j] = None
        BY <1>4, <2>1, <3>2
      <3>3. CASE superseded[j] # None
        BY <1>4, <2>1, <3>1, <3>3 DEF PurgedBlob
      <3> QED
        BY <3>2, <3>3
    <2>3. PICK i \in Jobs : pc[i] = "purge" /\ superseded[i] = r
      BY <1>4, <2>2 DEF SourceInvariant, SourcesAreServed
    <2> QED
      BY <1>6, <1>7, <2>2, <2>3
  <1> QED
    BY <1>6, <1>8, <1>9, <1>10 DEF SourceInvariant

\* Job j moves to l with record x, its files in order, and commits nothing.
Keeps(j, l, x) ==
    /\ MoveTo(j, l, x) /\ pc[j] # "purge" /\ l # "purge"
    /\ UNCHANGED <<superseded, activeRev>>
    /\ \A k \in Tenants \X Docs, i \in Jobs : i # j /\ lock[k] = i => lock'[k] = i
    /\ l \in Installing => lock'[<<x.tenant, x.doc>>] = j
    /\ l = "source" => <<x.doc, x.ver>> \in activeRev
    /\ \A t \in Tenants, r \in RevIds :
            blob'[<<t, r, "source">>] # None => blob[<<t, r, "source">>] # None \/ r \in activeRev

\* The record of a failing job.
LEMMA FailedRecord ==
  ASSUME TypeOK, NEW j \in Jobs, NEW e
  PROVE  FailedJob(j, e) =
            [job EXCEPT ![j] = [job[j] EXCEPT !.status = "failed", !.error = e, !.input = FALSE]]
  <1>1. job \in [Jobs -> IngestionJob \cup {None}]
    BY DEF TypeOK
  <1>2. PICK x : x = [job[j] EXCEPT !.status = "failed"]
    OBVIOUS
  <1>3. PICK y : y = [x EXCEPT !.error = e]
    OBVIOUS
  <1>4. [job EXCEPT ![j].status = "failed"] = [job EXCEPT ![j] = x]
    BY <1>2
  <1>5. [[job EXCEPT ![j] = x] EXCEPT ![j].error = e] = [job EXCEPT ![j] = y]
    BY <1>1, <1>3
  <1>6. [[job EXCEPT ![j] = y] EXCEPT ![j].input = FALSE] = [job EXCEPT ![j] = [y EXCEPT !.input = FALSE]]
    BY <1>1
  <1> QED
    BY <1>2, <1>3, <1>4, <1>5, <1>6 DEF FailedJob

\* The steps of a worker up to the lock.
LEMMA PlansLeaveNoSource ==
  ASSUME TypeOK, NEW j \in Jobs,
         \/ StartJob(j) \/ EnsureRbacSchema(j) \/ InputMissing(j)
         \/ ResolveLogicalId(j) \/ CheckDuplicate(j) \/ PlanRevision(j) \/ WriteSnapshots(j)
  PROVE  \E l, x : Keeps(j, l, x)
  <1>1. job \in [Jobs -> IngestionJob \cup {None}] /\ job = [job EXCEPT ![j] = job[j]]
    BY DEF TypeOK
  <1>2. ASSUME NEW l, l \notin Installing \cup {"purge"}, Goto(j, l), pc[j] # "purge",
               UNCHANGED <<superseded, activeRev, lock, blob>>,
               NEW x, job' = [job EXCEPT ![j] = x]
        PROVE  \E m, y : Keeps(j, m, y)
    <2>1. Keeps(j, l, x)
      BY <1>2 DEF Keeps, MoveTo, Goto, Installing
    <2> QED
      BY <2>1
  <1>3. CASE StartJob(j)
    BY <1>1, <1>2, <1>3 DEF StartJob, Installing, graphVars, storeVars
  <1>4. CASE EnsureRbacSchema(j)
    BY <1>1, <1>2, <1>4 DEF EnsureRbacSchema, Installing, graphVars, storeVars
  <1>5. CASE InputMissing(j)
    <2>1. \E x : job' = [job EXCEPT ![j] = x]
      BY <1>5, FailedRecord DEF InputMissing
    <2> QED
      BY <1>2, <1>5, <2>1 DEF InputMissing, Installing, graphVars, storeVars
  <1>6. CASE ResolveLogicalId(j)
    <2>1. PICK d \in Docs : job' = [job EXCEPT ![j].status = "parsing", ![j].doc = d]
      BY <1>6 DEF ResolveLogicalId
    <2>2. PICK x : x = [job[j] EXCEPT !.status = "parsing", !.doc = d]
      OBVIOUS
    <2>3. job' = [job EXCEPT ![j] = x]
      BY <1>1, <2>1, <2>2
    <2> QED
      BY <1>2, <1>6, <2>3 DEF ResolveLogicalId, Installing, graphVars, storeVars
  <1>7. CASE CheckDuplicate(j)
    BY <1>1, <1>2, <1>7 DEF CheckDuplicate, SkippedJob, Installing, graphVars, storeVars
  <1>8. CASE PlanRevision(j)
    BY <1>1, <1>2, <1>8 DEF PlanRevision, Installing, graphVars, storeVars
  <1>9. CASE WriteSnapshots(j)
    <2>1. PICK x : x = [job[j] EXCEPT !.status = "exporting"]
      OBVIOUS
    <2>2. MoveTo(j, "lock", x)
      BY <1>1, <1>9, <2>1 DEF WriteSnapshots, MoveTo, Goto
    <2>3. \A t \in Tenants, r \in RevIds : blob'[<<t, r, "source">>] = blob[<<t, r, "source">>]
      <3>1. blob \in [BlobKeys -> Contents \cup {None}]
        BY DEF TypeOK
      <3>2. \A t \in Tenants, r \in RevIds : <<t, r, "source">> \in BlobKeys
        BY DEF BlobKeys, BlobKinds
      <3>3. \A t, r : <<t, r, "source">> # <<job[j].tenant, RevisionId(j), "snapshot">>
        OBVIOUS
      <3> QED
        BY <1>9, <3>1, <3>2, <3>3 DEF WriteSnapshots
    <2>4. Keeps(j, "lock", x)
      BY <1>9, <2>2, <2>3 DEF WriteSnapshots, Keeps, Installing, graphVars
    <2> QED
      BY <2>4
  <1> QED
    BY <1>3, <1>4, <1>5, <1>6, <1>7, <1>8, <1>9

\* The steps of a worker from the lock on, but for the commit and the purge.
LEMMA InstallsLeaveNoSource ==
  ASSUME UseRedis, TypeOK, SourceInvariant, faults = 0, NEW j \in Jobs,
         \/ AcquireLock(j) \/ LoadDuplicateCheck(j) \/ BeginInstallTx(j) \/ DualWriteChunks(j)
         \/ RevisionIdTaken(j) \/ PersistSourceFile(j) \/ FinishJob(j)
  PROVE  \E l, x : Keeps(j, l, x)
  <1>1. /\ job \in [Jobs -> IngestionJob \cup {None}] /\ job = [job EXCEPT ![j] = job[j]]
        /\ lock \in [Tenants \X Docs -> Jobs \cup {None, Orphaned}]
        /\ blob \in [BlobKeys -> Contents \cup {None}]
        /\ \A t \in Tenants, r \in RevIds : <<t, r, "source">> \in BlobKeys
    BY DEF TypeOK, BlobKeys, BlobKinds
  <1>2. pc[j] # "new" /\ pc[j] # "purge"
    BY DEF AcquireLock, LoadDuplicateCheck, BeginInstallTx, DualWriteChunks, RevisionIdTaken,
       PersistSourceFile, FinishJob
  <1>3. job[j].tenant \in Tenants /\ job[j].doc \in Docs
    BY <1>2, JobFields
  <1>4. pc[j] \in Installing => lock[<<job[j].tenant, job[j].doc>>] = j
    BY DEF SourceInvariant, LockKey
  <1>5. CASE AcquireLock(j)
    <2>1. Keeps(j, "load", job[j])
      BY <1>1, <1>2, <1>3, <1>5, ConstantsAssumption
         DEF AcquireLock, LockKey, Keeps, MoveTo, Goto, graphVars, storeVars
    <2> QED
      BY <2>1
  <1>6. CASE LoadDuplicateCheck(j)
    <2>1. PICK x : x = [job[j] EXCEPT !.load = "skipped"]
      OBVIOUS
    <2>2. Keeps(j, "finish", x) \/ Keeps(j, "begin", job[j])
      BY <1>1, <1>2, <1>4, <1>6, <2>1
         DEF LoadDuplicateCheck, SkippedJob, Keeps, MoveTo, Goto, Installing, graphVars, storeVars
    <2> QED
      BY <2>2
  <1>7. CASE BeginInstallTx(j)
    <2>1. Keeps(j, "dual", job[j])
      BY <1>1, <1>2, <1>4, <1>7
         DEF BeginInstallTx, Keeps, MoveTo, Goto, Installing, graphVars, storeVars
    <2> QED
      BY <2>1
  <1>8. ASSUME DualWritten(j) \/ blob' = blob, NEW t \in Tenants, NEW r \in RevIds
        PROVE  blob'[<<t, r, "source">>] = blob[<<t, r, "source">>]
    BY <1>1, <1>8 DEF DualWritten
  <1>9. CASE DualWriteChunks(j)
    <2>1. Keeps(j, "commit", job[j])
      BY <1>1, <1>2, <1>4, <1>8, <1>9
         DEF DualWriteChunks, Keeps, MoveTo, Goto, Installing, graphVars
    <2> QED
      BY <2>1
  <1>10. \A k \in Tenants \X Docs, i \in Jobs : i # j /\ lock[k] = i => WithoutOwner(lock, j)[k] = i
    BY <1>1 DEF WithoutOwner
  <1>11. CASE RevisionIdTaken(j)
    <2>1. PICK x : x = [FailedJob(j, "masked") EXCEPT ![j].load = "failed"][j]
      OBVIOUS
    <2>2. MoveTo(j, "done", x)
      BY <1>1, <1>11, <2>1 DEF RevisionIdTaken, LoadFails, FailedJob, MoveTo, Goto
    <2>3. Keeps(j, "done", x)
      BY <1>2, <1>8, <1>10, <1>11, <2>2
         DEF RevisionIdTaken, LoadFails, Keeps, Installing, graphVars, storeVars
    <2> QED
      BY <2>3
  <1>12. CASE PersistSourceFile(j)
    <2>1. <<job[j].doc, job[j].ver>> \in activeRev
      BY <1>12 DEF PersistSourceFile, SourceInvariant, RevisionId
    <2>2. ASSUME NEW t \in Tenants, NEW r \in RevIds, blob'[<<t, r, "source">>] # None
          PROVE  blob[<<t, r, "source">>] # None \/ r \in activeRev
      BY <1>1, <1>12, <2>1, <2>2 DEF PersistSourceFile, RevisionId
    <2>3. Keeps(j, "finish", job[j])
      BY <1>1, <1>2, <1>12, <2>2 DEF PersistSourceFile, Keeps, MoveTo, Goto, Installing, graphVars
    <2> QED
      BY <2>3
  <1>13. CASE FinishJob(j)
    <2>1. PICK x : job' = [job EXCEPT ![j] = x]
      <3>1. CASE job[j].load = "failed"
        BY <1>13, <3>1, FailedRecord DEF FinishJob
      <3>2. CASE job[j].load # "failed"
        <4>1. job' = [job EXCEPT ![j] = [job[j] EXCEPT !.status = "completed", !.input = FALSE]]
          BY <1>1, <1>13, <3>2 DEF FinishJob
        <4> QED
          BY <4>1
      <3> QED
        BY <3>1, <3>2
    <2>2. Keeps(j, "done", x)
      BY <1>2, <1>10, <1>13, <2>1 DEF FinishJob, Keeps, MoveTo, Goto, Installing, graphVars, storeVars
    <2> QED
      BY <2>2
  <1> QED
    BY <1>5, <1>6, <1>7, <1>9, <1>11, <1>12, <1>13

\* A failure is counted, and nothing takes it back.
LEMMA FaultsAreCounted == ASSUME [Next]_vars PROVE faults' = faults \/ Fault
  <1>1. ASSUME NEW j \in Jobs, WorkerStep(j) PROVE faults' = faults \/ Fault
    BY <1>1 DEF WorkerStep, StartJob, EnsureRbacSchema, InputMissing, ResolveLogicalId,
       LogicalIdForContent, CheckDuplicate, PlanRevision, WriteSnapshots, AcquireLock,
       LoadDuplicateCheck, BeginInstallTx, DualWriteChunks, RevisionIdTaken, CommitInstallTx,
       PurgeSuperseded, PurgeRevision, PersistSourceFile, FinishJob
  <1>2. ASSUME NEW j \in Jobs, JobFault(j) PROVE Fault
    BY <1>2 DEF JobFault, RbacSchemaFails, ProcessingFails, ProceedWithoutLock, CommitOutcomeLost,
       AbortInstallTx, RetryInstallTx, ProcessDies, WorkerDies, ApiProcessDies, Redeliver,
       QueuedJobExpires
  <1>3. CASE UNCHANGED vars
    BY <1>3 DEF vars
  <1> QED
    BY <1>1, <1>2, <1>3 DEF Next, Submit, ExpireLock

\* No step of anybody leaves a source file behind.
LEMMA StepsLeaveNoSource ==
  ASSUME UseRedis, \A t \in Tenants, u \in Tenants : t = u,
         InstallInvariant, SourceInvariant, [Next]_vars
  PROVE  SourceInvariant'
  <1>0. faults' # 0 => SourceInvariant'
    BY DEF SourceInvariant
  <1>1. SUFFICES ASSUME faults' = 0 PROVE SourceInvariant'
    BY <1>0
  <1>2. TypeOK /\ faults \in Nat
    BY ConstantsAssumption DEF InstallInvariant, TypeOK
  <1>3. ~Fault
    BY <1>1, <1>2 DEF Fault
  <1>4. ASSUME NEW j \in Jobs, NEW l, NEW x, Keeps(j, l, x), faults = 0 PROVE SourceInvariant'
    BY <1>2, <1>4, MovesLeaveNoSource DEF Keeps
  <1>5. ASSUME NEW j \in Jobs, WorkerStep(j), faults = 0 PROVE SourceInvariant'
    BY <1>1, <1>2, <1>4, <1>5, ConstantsAssumption, PlansLeaveNoSource, InstallsLeaveNoSource,
       CommitsLeaveNoSource, PurgesLeaveNoSource DEF WorkerStep
  <1>6. ASSUME NEW j \in Jobs PROVE ~JobFault(j)
    BY <1>3 DEF JobFault, RbacSchemaFails, ProcessingFails, ProceedWithoutLock, CommitOutcomeLost,
       AbortInstallTx, RetryInstallTx, ProcessDies, WorkerDies, ApiProcessDies, Redeliver,
       QueuedJobExpires
  <1>7. ASSUME NEW j \in Jobs, NEW t \in Tenants, NEW d \in Docs, NEW c \in Contents,
               Submit(j, t, d, c), faults = 0
        PROVE  SourceInvariant'
    <2>1. Keeps(j, "queued", NewJob(t, d, c))
      BY <1>7 DEF Submit, Keeps, MoveTo, Goto, Installing, graphVars, storeVars
    <2> QED
      BY <1>4, <1>7, <2>1
  <1>8. ASSUME NEW k \in Tenants \X Docs, ExpireLock(k), faults = 0 PROVE SourceInvariant'
    <2>1. lock[k] = Orphaned /\ lock' = [lock EXCEPT ![k] = None]
          /\ UNCHANGED <<pc, job, superseded, activeRev, blob>>
      BY <1>3, <1>8 DEF ExpireLock, jobVars, graphVars, storeVars
    <2>2. \A i \in Jobs : i # Orphaned /\ (pc[i] \in Installing => LockKey(i) \in DOMAIN lock)
      BY <1>2, ConstantsAssumption, JobFields DEF TypeOK, LockKey, Installing
    <2> QED
      BY <1>8, <2>1, <2>2 DEF SourceInvariant, SourcesAreServed, LockKey, RevisionId
  <1>9. CASE UNCHANGED vars
    <2>1. UNCHANGED <<pc, job, superseded, activeRev, blob, lock, faults>>
      BY <1>9 DEF vars, jobVars, graphVars, storeVars
    <2> QED
      BY <1>1, <2>1 DEF SourceInvariant, SourcesAreServed, LockKey, RevisionId
  <1>10. faults = 0
    BY <1>1, <1>3, FaultsAreCounted
  <1> QED
    BY <1>5, <1>6, <1>7, <1>8, <1>9, <1>10 DEF Next

\* With a single tenant and Redis, and as long as nothing fails, no uploaded
\* file of a superseded revision is left behind: the document lock keeps the
\* next install from superseding a revision whose file is still to be saved.
THEOREM SourcesGone ==
  ASSUME UseRedis, \A t \in Tenants, u \in Tenants : t = u
  PROVE  Spec => []SupersededSourceGone
PROOF
  <1>1. Init => SourceInvariant
    <2>1. ASSUME Init PROVE SourceInvariant
      <3>1. \A j \in Jobs : pc[j] = "new" /\ superseded[j] = None
        BY <2>1 DEF Init
      <3>2. \A t \in Tenants, r \in RevIds : blob[<<t, r, "source">>] = None
        BY <2>1 DEF Init, BlobKeys, BlobKinds
      <3> QED
        BY <3>1, <3>2 DEF SourceInvariant, SourcesAreServed, Installing
    <2> QED
      BY <2>1
  <1>2. InstallInvariant /\ SourceInvariant /\ [Next]_vars => SourceInvariant'
    BY StepsLeaveNoSource
  <1>3. SourceInvariant => SupersededSourceGone
    BY DEF SourceInvariant, SourcesAreServed, SupersededSourceGone
  <1> QED
    BY <1>1, <1>2, <1>3, Invariance, PTL DEF Spec
----------------------------------------------------------------------------
(* DocumentIngestion implements RevisionHistory. *)

\* A number with the property that defines LatestVersion is LatestVersion.
LEMMA LatestIsUnique ==
  ASSUME ConstantsAssumption, NEW d, NEW n \in 0..MaxVersion,
         \A v \in Versions : <<d, v>> \in hasRev <=> v <= n
  PROVE  LatestVersion(d) = n
PROOF
  <1> DEFINE P(k) == \A v \in Versions : <<d, v>> \in hasRev <=> v <= k
             m == CHOOSE k \in 0..MaxVersion : P(k)
  <1>1. m \in 0..MaxVersion /\ P(m)
    <2>1. \E k \in 0..MaxVersion : P(k)
      OBVIOUS
    <2> HIDE DEF P
    <2> QED BY <2>1
  <1>2. m = LatestVersion(d)
    BY DEF LatestVersion
  <1> HIDE DEF m
  <1>3. \A v \in 1..MaxVersion : v <= m <=> v <= n
    BY <1>1 DEF Versions
  <1>4. m = n
    BY <1>1, <1>3 DEF ConstantsAssumption
  <1> QED BY <1>2, <1>4

\* Under the invariant the ACTIVE revision of a document is its latest one.
LEMMA LatestIsActive ==
  ASSUME ConstantsAssumption, InstallInvariant, NEW d \in Docs
  PROVE  /\ LatestVersion(d) \in 0..MaxVersion
         /\ \A v \in Versions : <<d, v>> \in hasRev <=> v <= LatestVersion(d)
         /\ \A v \in Versions : <<d, v>> \in activeRev <=> v = LatestVersion(d)
PROOF
  <1>1. PICK n \in 0..MaxVersion :
          /\ \A v \in Versions : <<d, v>> \in hasRev <=> v <= n
          /\ \A v \in Versions : <<d, v>> \in activeRev <=> v = n
    BY DEF InstallInvariant, VersionsContiguous
  <1>2. LatestVersion(d) = n
    BY <1>1, LatestIsUnique
  <1> QED BY <1>1, <1>2

\* Steps that leave the graph alone are invisible to its readers.
LEMMA InvisibleStep ==
  ASSUME UNCHANGED <<rev, hasRev, activeRev, nodes>>
  PROVE  UNCHANGED <<History, Served>>
  BY DEF History, Served, ServedBy, EntryOf, LatestVersion

\* A commit, of entry e as version n of document d, appends e to the history
\* of d and serves it.
LEMMA CommitPublishes ==
  ASSUME ConstantsAssumption, InstallInvariant, NEW j \in Jobs, pc[j] = "commit",
         InstalledBy(j), NEW d \in Docs, NEW n \in Versions, NEW e \in H!Entry,
         d = job[j].doc, n = job[j].ver,
         e.hash = job[j].content, e.tenant = job[j].tenant
  PROVE  H!Publish(d, e)
PROOF
  <1> DEFINE r == <<d, n>>
             prev == {s \in activeRev : s[1] = d}
             new == [status |-> "ACTIVE", hash |-> e.hash, tenant |-> e.tenant]
  <1>1. TypeOK /\ n \in Nat /\ MaxVersion \in Nat /\ n - 1 \in 0..MaxVersion /\ n \in 0..MaxVersion
    BY DEF InstallInvariant, Versions, ConstantsAssumption
  <1>2. r = RevisionId(j) /\ prev = PreviousRevisions(job[j].doc)
    BY DEF RevisionId, PreviousRevisions
  <1>3. r \in RevIds \ hasRev /\ \A v \in Versions : <<d, v>> \in hasRev <=> v < n
    BY <1>2, CommittedVersion
  <1>4. LatestVersion(d) = n - 1
    <2>1. \A v \in Versions : <<d, v>> \in hasRev <=> v <= n - 1
      BY <1>1, <1>3 DEF Versions
    <2> QED BY <1>1, <2>1, LatestIsUnique
  <1>5. /\ hasRev' = hasRev \cup {r} /\ activeRev' = (activeRev \ prev) \cup {r}
        /\ rev' = [Expired(prev) EXCEPT ![r] = new]
        /\ nodes' = [s \in RevIds |-> CASE s = r -> e.hash
                                        [] s # r /\ s \in prev -> None
                                        [] OTHER -> nodes[s]]
    BY <1>2 DEF InstalledBy
  <1>6. EntryOf(r)' = e
    <2>1. e = [hash |-> e.hash, tenant |-> e.tenant]
      BY DEF H!Entry
    <2>2. Expired(prev) = [s \in RevIds |-> IF s \in prev THEN [rev[s] EXCEPT !.status = "EXPIRED"]
                                            ELSE rev[s]]
      BY DEF Expired
    <2>3. rev'[r] = new
      BY <1>3, <1>5, <2>2
    <2> QED BY <2>1, <2>3 DEF EntryOf
  <1>7. ASSUME NEW s \in hasRev PROVE s \in RevIds /\ EntryOf(s)' = EntryOf(s)
    <2>1. s \in RevIds /\ s # r
      BY <1>1, <1>3, <1>7 DEF TypeOK
    <2>2. rev[s] \in DocRevision
      BY <1>1, <1>7, <2>1 DEF InstallInvariant, RevisionsLinked, TypeOK
    <2>3. rev'[s] = IF s \in prev THEN [rev[s] EXCEPT !.status = "EXPIRED"] ELSE rev[s]
      BY <1>5, <2>1 DEF Expired
    <2> QED BY <2>1, <2>2, <2>3 DEF EntryOf, DocRevision
  <1>8. History' = [History EXCEPT ![d] = Append(@, e)]
    <2>1. LatestVersion(d)' = n
      <3> DEFINE P(k) == \A v \in Versions : <<d, v>> \in hasRev' <=> v <= k
      <3>1. P(n)
        BY <1>1, <1>3, <1>5 DEF Versions
      <3>2. \A k \in 0..MaxVersion : P(k) => k = n
        <4> SUFFICES ASSUME NEW k \in 0..MaxVersion, P(k) PROVE k = n
          OBVIOUS
        <4>1. \A v \in 1..MaxVersion : v <= k <=> v <= n
          BY <3>1 DEF Versions
        <4> QED BY <1>1, <4>1
      <3>3. LatestVersion(d)' = CHOOSE k \in 0..MaxVersion : P(k)
        BY DEF LatestVersion, Versions
      <3> HIDE DEF P
      <3> QED BY <1>1, <3>1, <3>2, <3>3
    <2>2. ASSUME NEW c \in Docs \ {d} PROVE LatestVersion(c)' = LatestVersion(c)
      <3>1. \A v \in Versions : <<c, v>> \in hasRev' <=> <<c, v>> \in hasRev
        BY <1>5, <2>2
      <3> QED BY <3>1 DEF LatestVersion, Versions
    <2>3. ASSUME NEW c \in Docs \ {d} PROVE History'[c] = History[c]
      <3>1. \A v \in 1..LatestVersion(c) : EntryOf(<<c, v>>)' = EntryOf(<<c, v>>)
        BY <1>1, <1>7, LatestIsActive DEF Versions
      <3> QED BY <2>2, <3>1 DEF History
    <2>4. History'[d] = Append(History[d], e)
      <3> DEFINE old == [v \in 1..(n - 1) |-> EntryOf(<<d, v>>)]
      <3>1. History[d] = old
        BY <1>4 DEF History
      <3>2. History'[d] = [v \in 1..n |-> EntryOf(<<d, v>>)']
        BY <2>1 DEF History
      <3>3. \A v \in 1..(n - 1) : EntryOf(<<d, v>>)' = EntryOf(<<d, v>>)
        BY <1>1, <1>3, <1>7 DEF Versions
      <3>4. History'[d] = [v \in 1..n |-> IF v = n THEN e ELSE old[v]]
        BY <1>1, <1>6, <3>2, <3>3
      <3>5. \A v \in 1..(n - 1) : EntryOf(<<d, v>>) \in H!Entry
        <4> SUFFICES ASSUME NEW v \in 1..(n - 1) PROVE EntryOf(<<d, v>>) \in H!Entry
          OBVIOUS
        <4>1. v \in Versions /\ <<d, v>> \in hasRev /\ <<d, v>> \in RevIds
          BY <1>1, <1>3 DEF Versions, RevIds
        <4>2. rev[<<d, v>>] \in DocRevision
          BY <1>1, <4>1 DEF InstallInvariant, RevisionsLinked, TypeOK
        <4> QED BY <4>2 DEF EntryOf, DocRevision, H!Entry
      <3>6. old \in [1..(n - 1) -> H!Entry] /\ n - 1 \in Nat
        BY <1>1, <3>5 DEF Versions
      <3> HIDE DEF old
      <3>7. old \in Seq(H!Entry) /\ Len(old) = n - 1
        <4>1. old \in Seq(H!Entry)
          BY <3>6, SeqDef
        <4>2. Len(old) \in Nat /\ DOMAIN old = 1..Len(old)
          BY <4>1, LenProperties
        <4>3. 1..Len(old) = 1..(n - 1)
          BY <3>6, <4>2
        <4> QED BY <3>6, <4>1, <4>2, <4>3
      <3>8. Append(old, e) = [v \in 1..n |-> IF v = n THEN e ELSE old[v]]
        <4> DEFINE appended == Append(old, e)
        <4>1. /\ appended \in Seq(H!Entry) /\ Len(appended) = n
              /\ \A i \in 1..(n - 1) : appended[i] = old[i]
              /\ appended[n] = e
          BY <1>1, <3>7, AppendProperties
        <4> HIDE DEF appended
        <4>2. appended \in [1..n -> H!Entry]
          BY <4>1, LenProperties
        <4>3. appended = [v \in 1..n |-> appended[v]]
          BY <4>2
        <4>4. \A v \in 1..n : appended[v] = IF v = n THEN e ELSE old[v]
          BY <1>1, <4>1
        <4> QED BY <4>3, <4>4 DEF appended
      <3> QED BY <3>1, <3>4, <3>8
    <2> QED BY <2>3, <2>4 DEF History
  <1>9. Served' = [Served EXCEPT ![d] = e.hash]
    <2>1. ServedBy(d)' = e.hash
      <3>1. \A s \in activeRev' : s[1] = d <=> s = r
        BY <1>5
      <3>2. (CHOOSE s \in activeRev' : s[1] = d) = r
        BY <1>5, <3>1
      <3>3. nodes'[r] = e.hash
        BY <1>3, <1>5
      <3> QED BY <1>5, <3>1, <3>2, <3>3 DEF ServedBy
    <2>2. ASSUME NEW c \in Docs \ {d} PROVE ServedBy(c)' = ServedBy(c)
      <3>1. \A s : s \in activeRev' /\ s[1] = c <=> s \in activeRev /\ s[1] = c
        BY <1>5, <2>2
      <3>2. (CHOOSE s \in activeRev' : s[1] = c) = (CHOOSE s \in activeRev : s[1] = c)
        BY <3>1
      <3>3. ASSUME NEW s \in activeRev, s[1] = c PROVE nodes'[s] = nodes[s]
        BY <1>1, <1>5, <2>2, <3>3 DEF TypeOK
      <3> QED BY <3>1, <3>2, <3>3 DEF ServedBy
    <2> QED BY <2>1, <2>2 DEF Served
  <1> QED BY <1>8, <1>9 DEF H!Publish

\* DocumentIngestion implements RevisionHistory: whatever jobs interleave,
\* fail and are retried, readers of the graph see documents whose history
\* only grows, one whole revision at a time, and the newest one served.
THEOREM Refinement == Spec => ImplementsHistory
PROOF
  <1>1. Init => H!Init
    <2> SUFFICES ASSUME Init PROVE H!Init
      OBVIOUS
    <2>1. \A d \in Docs : LatestVersion(d) = 0
      <3> SUFFICES ASSUME NEW d \in Docs PROVE LatestVersion(d) = 0
        OBVIOUS
      <3>1. 0 \in 0..MaxVersion /\ \A v \in Versions : <<d, v>> \in hasRev <=> v <= 0
        BY ConstantsAssumption DEF Init, Versions
      <3> QED BY <3>1, ConstantsAssumption, LatestIsUnique
    <2>2. History = [d \in Docs |-> <<>>]
      BY <2>1 DEF History
    <2>3. Served = [d \in Docs |-> None]
      BY DEF Served, ServedBy, Init
    <2> QED BY <2>2, <2>3 DEF H!Init
  <1>2. InstallInvariant /\ [Next]_vars => [H!Next]_<<History, Served>>
    <2> SUFFICES ASSUME InstallInvariant, [Next]_vars
                 PROVE  H!Next \/ UNCHANGED <<History, Served>>
      OBVIOUS
    <2>1. CASE UNCHANGED <<rev, hasRev, activeRev, nodes>>
      BY <2>1, InvisibleStep
    <2>2. CASE \E j \in Jobs : pc[j] = "commit" /\ InstalledBy(j)
      <3>1. PICK j \in Jobs : pc[j] = "commit" /\ InstalledBy(j)
        BY <2>2
      <3>2. PICK d \in Docs, n \in Versions : d = job[j].doc /\ n = job[j].ver
        BY <3>1, ConstantsAssumption, CommittedVersion
      <3>3. job[j].content \in Contents /\ job[j].tenant \in Tenants
        BY <3>1, JobFields DEF InstallInvariant
      <3>4. PICK e \in H!Entry : e.hash = job[j].content /\ e.tenant = job[j].tenant
        <4>1. [hash |-> job[j].content, tenant |-> job[j].tenant] \in H!Entry
          BY <3>3 DEF H!Entry
        <4> QED BY <4>1
      <3>5. H!Publish(d, e)
        BY <3>1, <3>2, <3>4, ConstantsAssumption, CommitPublishes
      <3> QED BY <3>5 DEF H!Next
    <2> QED BY <2>1, <2>2, GraphSteps
  <1> QED BY <1>1, <1>2, Invariance, PTL DEF Spec, ImplementsHistory, H!Spec
=============================================================================
