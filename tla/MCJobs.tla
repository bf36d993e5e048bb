------------------------------- MODULE MCJobs -------------------------------
(* An instance of IngestionJobs for TLC. *)
EXTENDS IngestionJobs

CONSTANTS f1, f2, f3, f4, c1, c2, stem1, stem2, schema, create

\* f2 is f1 under another name, f3 another document of the same name.
MCContent == f1 :> c1 @@ f2 :> c1 @@ f3 :> c2 @@ f4 :> c2
MCStem == f1 :> stem1 @@ f2 :> stem2 @@ f3 :> stem1 @@ f4 :> stem2
MCUploads == {f1}
MCInsane == {f4}
MCCorpora == {<<f2, f4, f3>>, <<f1, f2, f3, f4>>}
MCScripts == {<<schema, create>>, <<>>}
MCSchemaStatements == {schema}
MCJobIds == 1..3
=============================================================================
