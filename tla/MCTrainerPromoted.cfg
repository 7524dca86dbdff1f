SPECIFICATION DocumentedSpec
CONSTANTS
  Tasks = {t1, t2}
  Rollouts <- MCTrusted
  Replay = TRUE
  MaxEpochs = 2
  MaxDrift = 0
  MaxBumps = 0
  MaxKills = 0
CHECK_DEADLOCK FALSE
INVARIANT PromotedIffApplied
