SPECIFICATION DocumentedSpec
CONSTANTS
  Tasks = {t1}
  Rollouts <- MCInfra
  Replay = TRUE
  MaxEpochs = 2
  MaxDrift = 1
  MaxBumps = 0
  MaxKills = 1
CHECK_DEADLOCK FALSE
INVARIANTS
  RecordsAgree
  BaselineIsCompleteAndCurrent
  HistoryAgreesWithIndex
