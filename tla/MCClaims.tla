----------------------------- MODULE MCClaims ------------------------------
(* Instances of IngestionClaims for TLC. *)
EXTENDS IngestionClaims, TLC

CONSTANTS j1, j2, j3, t1, t2, d1, d2, c1, c2, c3

OneTenant == {t1}
TwoTenants == {t1, t2}
OneDoc == {d1}
TwoDocs == {d1, d2}
TwoJobs == {j1, j2}
ThreeJobs == {j1, j2, j3}
OneContent == {c1}
TwoContents == {c1, c2}
ThreeContents == {c1, c2, c3}
=============================================================================
