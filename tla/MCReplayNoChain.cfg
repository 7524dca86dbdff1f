SPECIFICATION Spec
CONSTANTS
  command = command
  RunActions = {command}
  Flaky <- MCFlaky
  Delicate = {command}
  MaxSteps = 1
  MaxRuns = 2
  MaxTroubles = 0
CHECK_DEADLOCK FALSE
INVARIANTS
  NoChainMeansNoChain
