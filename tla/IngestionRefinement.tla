------------------------ MODULE IngestionRefinement ------------------------
(***************************************************************************)
(* DocumentIngestion implements RevisionHistory.  The entries of a         *)
(* document are its DocRevision nodes by version number; what it serves    *)
(* are the content nodes of the revision its ACTIVE_REVISION edge names.   *)
(***************************************************************************)
EXTENDS DocumentIngestion

\* The newest version number of a document, 0 if it has none.
LatestVersion(d) ==
    CHOOSE n \in 0..MaxVersion : \A v \in Versions : <<d, v>> \in hasRev <=> v <= n

EntryOf(r) == [hash |-> rev[r].hash, tenant |-> rev[r].tenant]

History == [d \in Docs |-> [v \in 1..LatestVersion(d) |-> EntryOf(<<d, v>>)]]

ServedBy(d) ==
    IF \E r \in activeRev : r[1] = d
    THEN nodes[CHOOSE r \in activeRev : r[1] = d]
    ELSE None

Served == [d \in Docs |-> ServedBy(d)]

H == INSTANCE RevisionHistory WITH history <- History, served <- Served

\* Every step of every job, and every failure, is an append to the history
\* of one document or changes nothing a reader of the graph can see.
ImplementsHistory == H!Spec
=============================================================================
