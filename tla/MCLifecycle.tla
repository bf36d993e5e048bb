---------------------------- MODULE MCLifecycle ----------------------------
(* Instances of DocumentLifecycle for TLC. *)
EXTENDS DocumentLifecycle, TLC

CONSTANTS j1, j2, t1, t2, d1, c1, c2

OneTenant == {t1}
TwoTenants == {t1, t2}
OneDoc == {d1}
TwoJobs == {j1, j2}
TwoContents == {c1, c2}

JobSymmetry == Permutations(Jobs) \cup Permutations(Contents)
=============================================================================
