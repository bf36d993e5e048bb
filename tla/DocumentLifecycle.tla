------------------------- MODULE DocumentLifecycle -------------------------
(***************************************************************************)
(* DocumentIngestion together with the two operations that take documents  *)
(* away: delete_document, run by an admin request without the document     *)
(* lock, and the gc_orphaned_storage script, run by an operator.  Both     *)
(* read the graph, then delete from the stores in later steps, while       *)
(* workers go on installing revisions.                                     *)
(***************************************************************************)
EXTENDS DocumentIngestion

CONSTANTS
    MaxDeletes,     \* bound on delete requests
    MaxSweeps       \* bound on runs of the gc script

ASSUME LifecycleAssumption == MaxDeletes \in Nat /\ MaxSweeps \in Nat

VARIABLES
    del,        \* the delete request under way, or NoDelete
    gc,         \* the run of the gc script under way, or NoSweep
    deletes,    \* delete requests so far
    sweeps,     \* runs of the script so far
    raced       \* history: documents a delete of which was overtaken by an install

lifecycleVars == <<del, gc, deletes, sweeps, raced>>
allVars == <<vars, lifecycleVars>>

\* A delete request: its revisions, those still to be purged, whether a
\* purge reported errors, and, as history, whether no job ran since it started
\* and whether an install of its document committed since.
DeleteRequest ==
    [at: {"idle", "purge", "nodes", "logical"}, doc: Docs \cup {None},
     tenant: Tenants \cup {None}, keep: BOOLEAN, revs: SUBSET RevIds,
     todo: SUBSET RevIds, errors: BOOLEAN, alone: BOOLEAN, overtaken: BOOLEAN]

\* A run of the script: the revisions it believes live, the (tenant,
\* revision) pairs and the vectors it will delete.
Sweep ==
    [at: {"idle", "list", "purge"}, keep: BOOLEAN, live: SUBSET RevIds,
     orphans: SUBSET (Tenants \X RevIds), vectors: SUBSET RevIds, errors: BOOLEAN,
     alone: BOOLEAN]

\* Types of the delete request and of the script's run.
LifecycleTypeOK ==
    /\ TypeOK
    /\ del \in DeleteRequest
    /\ gc \in Sweep
    /\ deletes \in 0..MaxDeletes
    /\ sweeps \in 0..MaxSweeps
    /\ raced \subseteq Docs

NoDelete == [at |-> "idle", doc |-> None, tenant |-> None, keep |-> FALSE, revs |-> {},
             todo |-> {}, errors |-> FALSE, alone |-> TRUE, overtaken |-> FALSE]
NoSweep == [at |-> "idle", keep |-> TRUE, live |-> {}, orphans |-> {}, vectors |-> {},
            errors |-> FALSE, alone |-> TRUE]

LifecycleInit ==
    /\ Init
    /\ del = NoDelete
    /\ gc = NoSweep
    /\ deletes = 0
    /\ sweeps = 0
    /\ raced = {}

JobsQuiet == \A j \in Jobs : pc[j] \in Ended \cup {"new", "queued"}

----------------------------------------------------------------------------
(* delete_document *)

\* Mutant of RevisionsToDelete: superseded revisions are forgotten.
ActiveRevisionsOnly(d, t) == {r \in activeRev : r[1] = d /\ dl[d] = t}

\* Mutant of RevisionsToDelete: a look-up by the wrong lifecycle status.
SupersededRevisionsOnly(d, t) == {r \in hasRev \ activeRev : r[1] = d /\ dl[d] = t}

\* The document's revisions by its HAS_REVISION edges if it is this
\* tenant's, otherwise the tenant's revisions that name the document.
RevisionsToDelete(d, t) ==
    LET linked == {r \in hasRev : r[1] = d /\ dl[d] = t}
    IN  IF linked # {} THEN linked
        ELSE {r \in RevIds : r[1] = d /\ rev[r] # NoRev /\ rev[r].tenant = t}

DeleteStarts(d, t, keep) ==
    /\ del.at = "idle" /\ deletes < MaxDeletes
    /\ RevisionsToDelete(d, t) # {}
    /\ del' = [at |-> "purge", doc |-> d, tenant |-> t, keep |-> keep,
               revs |-> RevisionsToDelete(d, t), todo |-> RevisionsToDelete(d, t),
               errors |-> FALSE, alone |-> JobsQuiet, overtaken |-> FALSE]
    /\ deletes' = deletes + 1
    /\ gc' = [gc EXCEPT !.alone = gc.at = "idle"]
    /\ UNCHANGED <<vars, sweeps, raced>>

\* Purge one revision; a store that fails is noted and passed over.
DeletePurges(r) ==
    /\ del.at = "purge" /\ r \in del.todo
    /\ PurgeRevision(del.tenant, r, IF del.keep THEN Stores \ {"source"} ELSE Stores)
    /\ del' = [del EXCEPT !.todo = @ \ {r}, !.errors = @ \/ faults' # faults,
                          !.at = IF del.todo = {r} THEN "nodes" ELSE "purge"]
    /\ UNCHANGED <<jobVars, graphVars, tx, lock, gc, deletes, sweeps, raced>>

\* DETACH DELETE of the content and revision nodes; it waits for an install
\* transaction that holds the document.
DeleteNodes ==
    /\ del.at = "nodes" /\ tx[del.doc] = None
    /\ rev' = [r \in RevIds |-> IF r \in del.revs THEN NoRev ELSE rev[r]]
    /\ nodes' = [r \in RevIds |-> IF r \in del.revs THEN None ELSE nodes[r]]
    /\ hasRev' = hasRev \ del.revs
    /\ activeRev' = activeRev \ del.revs
    /\ del' = [del EXCEPT !.at = "logical"]
    /\ UNCHANGED <<jobVars, dl, tx, lock, storeVars, faults, gc, deletes, sweeps, raced>>

\* DETACH DELETE of the DocumentLogical node, whatever it links by now.
DeleteLogical ==
    /\ del.at = "logical" /\ tx[del.doc] = None
    /\ dl' = [dl EXCEPT ![del.doc] = None]
    /\ hasRev' = {r \in hasRev : r[1] # del.doc}
    /\ activeRev' = {r \in activeRev : r[1] # del.doc}
    /\ raced' = IF del.overtaken THEN raced \cup {del.doc} ELSE raced
    /\ del' = NoDelete
    /\ UNCHANGED <<jobVars, rev, nodes, tx, lock, storeVars, faults, gc, deletes, sweeps>>

\* The request dies with its process or an exception of a graph query.
DeleteDies ==
    /\ del.at \in {"purge", "nodes", "logical"}
    /\ Fault
    /\ del' = NoDelete
    /\ UNCHANGED <<jobVars, graphVars, tx, lock, storeVars, gc, deletes, sweeps, raced>>

----------------------------------------------------------------------------
(* scripts/gc_orphaned_storage.py --apply *)

\* Mutant of LiveRevisions: only revisions a document links count.
LinkedRevisions == hasRev

\* Every DocRevision node, EXPIRED ones included.
LiveRevisions == {r \in RevIds : rev[r] # NoRev}

SweepReadsLive(keep) ==
    /\ gc.at = "idle" /\ sweeps < MaxSweeps
    /\ gc' = [NoSweep EXCEPT !.at = "list", !.keep = keep, !.live = LiveRevisions,
                             !.alone = JobsQuiet /\ del.at = "idle"]
    /\ sweeps' = sweeps + 1
    /\ UNCHANGED <<vars, del, deletes, raced>>

\* Mutant of BlobRevisions: keys of snapshots and reports are not parsed.
TextRevisions == {p \in Tenants \X RevIds : blob[<<p[1], p[2], "text">>] # None}

\* (tenant, revision) pairs some blob key names.
BlobRevisions ==
    {p \in Tenants \X RevIds : \E k \in BlobKinds : blob[<<p[1], p[2], k>>] # None}

SweepListsOrphans ==
    /\ gc.at = "list"
    /\ gc' = [gc EXCEPT
        !.at = "purge",
        !.orphans = {p \in BlobRevisions : p[2] \notin gc.live},
        !.vectors = {r \in RevIds : r \notin gc.live /\ vector[r] # None}]
    /\ UNCHANGED <<vars, del, deletes, sweeps, raced>>

SweepPurges(p) ==
    /\ gc.at = "purge" /\ p \in gc.orphans
    /\ PurgeRevision(p[1], p[2], IF gc.keep THEN Stores \ {"source"} ELSE Stores)
    /\ gc' = [gc EXCEPT !.orphans = @ \ {p}, !.vectors = @ \ {p[2]},
                        !.errors = @ \/ faults' # faults]
    /\ UNCHANGED <<jobVars, graphVars, tx, lock, del, deletes, sweeps, raced>>

\* Vectors of revisions without blobs are deleted by revision_id alone.
SweepClearsVectors(r) ==
    /\ gc.at = "purge" /\ gc.orphans = {} /\ r \in gc.vectors
    /\ vector' = [vector EXCEPT ![r] = None]
    /\ gc' = [gc EXCEPT !.vectors = @ \ {r}]
    /\ UNCHANGED <<jobVars, graphVars, tx, lock, blob, faults, del, deletes, sweeps, raced>>

SweepFinishes ==
    /\ gc.at = "purge" /\ gc.orphans = {} /\ gc.vectors = {}
    /\ gc' = NoSweep
    /\ UNCHANGED <<vars, del, deletes, sweeps, raced>>

----------------------------------------------------------------------------
\* The step commits an install of the document that is being deleted.
Overtakes == \E r \in RevIds : r[1] = del.doc /\ rev'[r] # rev[r]

\* A step of a job, noted by the delete and the sweep it runs beside.
JobStep ==
    /\ \/ \E j \in Jobs, t \in Tenants, d \in Docs, c \in Contents : Submit(j, t, d, c)
       \/ \E j \in Jobs : WorkerStep(j) \/ JobFault(j)
       \/ \E k \in Tenants \X Docs : ExpireLock(k)
    /\ del' = [del EXCEPT !.alone = @ /\ (del.at = "idle" \/ JobsQuiet'),
                          !.overtaken = @ \/ Overtakes]
    /\ gc' = [gc EXCEPT !.alone = @ /\ (gc.at = "idle" \/ JobsQuiet')]
    /\ UNCHANGED <<deletes, sweeps, raced>>

LifecycleNext ==
    \/ JobStep
    \/ \E d \in Docs, t \in Tenants, keep \in BOOLEAN : DeleteStarts(d, t, keep)
    \/ \E r \in RevIds : DeletePurges(r)
    \/ DeleteNodes
    \/ DeleteLogical
    \/ DeleteDies
    \/ \E keep \in BOOLEAN : SweepReadsLive(keep)
    \/ SweepListsOrphans
    \/ \E p \in Tenants \X RevIds : SweepPurges(p)
    \/ \E r \in RevIds : SweepClearsVectors(r)
    \/ SweepFinishes

LifecycleSpec == LifecycleInit /\ [][LifecycleNext]_allVars

----------------------------------------------------------------------------
(* Properties. *)

\* Also with deletes beside installs, retrieval is served one revision of a
\* document at most, and it is the one that the document links and that the
\* next install expires or the next delete takes away.  The only exception: a
\* document of which an install committed after a delete had looked its
\* revisions up, and before that delete detached the document.
OneActiveUnlessRaced ==
    /\ \A r, s \in activeRev : r[1] = s[1] => r = s
    /\ \A r \in RevIds : MarkedActive(r) /\ r[1] \notin raced => r \in activeRev

\* Also with deletes beside installs, the content nodes of a revision exist
\* exactly as long as its DocRevision node is ACTIVE, and are its own.
ContentFollowsStatus ==
    \A r \in RevIds :
        nodes[r] = IF MarkedActive(r) THEN rev[r].hash ELSE None

\* delete_document, when it returns without errors and no job was running
\* beside it, has removed the revisions it found from the graph and from all
\* three stores, superseded ones included, and the uploaded files unless asked
\* to keep them.  Those are all there is of the document, if nothing failed
\* before and no earlier delete raced an install.
DeleteLeavesNoTrace ==
    [][(DeleteLogical /\ del.alone /\ ~del.errors) =>
        /\ dl'[del.doc] = None
        /\ \A r \in RevIds : r \in del.revs =>
            /\ rev'[r] = NoRev /\ nodes'[r] = None /\ vector'[r] = None
            /\ \A k \in {"text", "snapshot"} : blob'[<<del.tenant, r, k>>] = None
            /\ ~del.keep => blob'[<<del.tenant, r, "source">>] = None
        /\ (faults = 0 /\ deletes = 1) => \A r \in RevIds : r[1] = del.doc =>
            /\ rev'[r] = NoRev /\ nodes'[r] = None /\ vector'[r] = None
            /\ blob'[<<del.tenant, r, "text">>] = None]_allVars

\* Run without jobs and deletes beside it, the gc script never takes the
\* text or the embeddings of a revision that retrieval can still reach,
\* also when a delete that raced an install has cut it off its document.
SweepSparesActive ==
    [][(gc.at = "purge" /\ gc.alone /\ UNCHANGED <<rev, pc>>) =>
        \A r \in RevIds : MarkedActive(r) =>
            /\ vector'[r] = vector[r]
            /\ blob'[<<rev[r].tenant, r, "text">>] = blob[<<rev[r].tenant, r, "text">>]]_allVars

\* Run to the end without jobs and deletes beside it, the gc script leaves
\* nothing but source files of revisions Neo4j does not know.
SweepReclaimsUnknown ==
    [][(SweepFinishes /\ gc.alone /\ ~gc.errors) =>
        \A r \in RevIds \ LiveRevisions :
            /\ vector[r] = None
            /\ \A t \in Tenants, k \in {"text", "snapshot"} : blob[<<t, r, k>>] = None]_allVars

(* What the docstring of delete_document says and the code does not keep.   *)

\* delete_document: "If this fails midway the document is still listed and
\* the delete can simply be retried": a delete some purge of which failed
\* does not take the document out of the graph.
FailedDeleteIsStillListed == [][del.errors => dl' = dl]_allVars

\* "After it returns, the id is absent from Neo4j ... there is no remaining
\* trace to make the document reappear": a revision installed since the delete
\* looked the revisions up stays, ACTIVE, and is found by searches.  The next
\* upload of the document finds no previous revision to expire, and two are
\* ACTIVE (OneActiveRevision).
DeletedDocumentIsAbsent ==
    [][DeleteLogical => \A r \in RevIds : r[1] = del.doc => rev'[r] = NoRev]_allVars
=============================================================================
