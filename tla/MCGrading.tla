----------------------------- MODULE MCGrading -----------------------------
(* Grading of three SWE-bench submits: one thread may be abandoned while    *)
(* another rollout grades and a third waits; or of one of Terminal-Bench.   *)
EXTENDS Grading
=============================================================================
