SPECIFICATION DocumentedSpec
CONSTANTS
  Tasks = {t1}
  Rollouts <- MCTrusted
  Replay = TRUE
  MaxEpochs = 1
  MaxDrift = 0
  MaxBumps = 1
  MaxKills = 0
CHECK_DEADLOCK FALSE
INVARIANT JudgedRunsAreComparable
