----------------------------- MODULE MCTrainer -----------------------------
(* Trainer on one or two tasks.  Equal metrics leave the decision to the    *)
(* solved sets; "crash" is the rollout whose verdict is not trusted.        *)
EXTENDS Trainer, TLC

MCTrusted ==
  [mode: {"solved", "verified_rejected"}, invalid: {0}, steps: {1}]

MCInfra ==
  [mode: {"solved", "crash"}, invalid: {0}, steps: {1}]

Symmetry == Permutations(Tasks)
=============================================================================
