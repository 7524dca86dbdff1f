----------------------------- MODULE MCVerdict -----------------------------
(* Verdict on three tasks.  A mode stands for the ones the judgment does   *)
(* not tell apart from it; each has the metrics such a rollout publishes.  *)
EXTENDS Verdict

MCRollouts ==
       [mode: {"solved"}, invalid: {0, 1}, steps: {1, 2}]
  \cup [mode: {"verified_rejected"}, invalid: {0}, steps: {2}]
  \cup [mode: {"verify_timeout"}, invalid: {1}, steps: {1}]
  \cup [mode: {"crash"}, invalid: {0, Unpublished}, steps: {Unpublished}]
=============================================================================
