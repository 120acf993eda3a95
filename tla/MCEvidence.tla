----------------------------- MODULE MCEvidence -----------------------------
(* A small instance of Evidence for TLC.  No two values lie exactly 5 or     *)
(* 10.005 percent apart, where the floats of the code decide; 7199 is less   *)
(* than 10.005 percent below 7999, and more than 10.                         *)
EXTENDS Evidence

MCKinds == {<<TRUE, 60, 500, 100>>, <<TRUE, 20, 9000, 90000>>, <<FALSE, 0, 0, 0>>}
MCMarks == [score : {0, 71, 100}, weight : {0, 1, 3}]
MCValues == {-2000, 7199, 7999, 8400}
MCOveralls == {8000, 8200}
MCThresholds == {-100, 0, 400}
=============================================================================
