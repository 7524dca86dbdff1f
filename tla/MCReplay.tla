------------------------------ MODULE MCReplay ------------------------------
(* One command whose output and timing vary, a flaky grader.                *)
EXTENDS Replay

CONSTANTS command

MCFlaky == {command, Verify}
=============================================================================
