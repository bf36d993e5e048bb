---------------------------- MODULE MCIngestion ----------------------------
(* Instances of DocumentIngestion and its refinement for TLC. *)
EXTENDS IngestionRefinement, TLC

CONSTANTS j1, j2, j3, t1, t2, d1, d2, c1, c2

OneTenant == {t1}
TwoTenants == {t1, t2}
OneDoc == {d1}
TwoDocs == {d1, d2}
TwoJobs == {j1, j2}
ThreeJobs == {j1, j2, j3}
TwoContents == {c1, c2}

JobSymmetry == Permutations(Jobs) \cup Permutations(Contents)
=============================================================================
