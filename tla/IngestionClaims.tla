-------------------------- MODULE IngestionClaims --------------------------
(***************************************************************************)
(* What comments of the repository say about the ingestion of documents,   *)
(* stated over DocumentIngestion.  TLC refutes each of them; PROJECT.json  *)
(* quotes the line and describes the behaviour.                            *)
(***************************************************************************)
EXTENDS DocumentIngestion

Known(j) == pc[j] # "new"

\* interface/routes/ingest.py: "No 409 gate: multiple concurrent uploads are
\* fine.  The per-doc Redis lock serialises revision installs": when nothing
\* fails, every upload that is processed succeeds or is skipped.
ConcurrentUploadsAreFine ==
    faults = 0 => \A j \in Jobs : Known(j) => job[j].status # "failed"

\* _process_unstructured on the page report: it "can't disagree with what
\* was actually ingested": snapshot and report of the ACTIVE revision come
\* from the file that revision was made from.
ReportAgreesWithRevision ==
    faults = 0 =>
        \A r \in activeRev :
            blob[<<rev[r].tenant, r, "snapshot">>] = rev[r].hash

\* run_job on failed loads: the load's own error is what the job reports.
LoadFailureIsReported ==
    \A j \in Jobs : Known(j) =>
        (job[j].load = "failed" /\ job[j].status = "failed" => job[j].error = "load")
=============================================================================
