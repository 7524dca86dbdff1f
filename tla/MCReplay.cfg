SPECIFICATION Spec
CONSTANTS
  command = command
  RunActions = {command}
  Flaky <- MCFlaky
  Delicate = {command}
  MaxSteps = 1
  MaxRuns = 3
  MaxTroubles = 1
CHECK_DEADLOCK FALSE
INVARIANTS
  ReplayIsReal
  LiveRolloutSeesItsOwnEnvironment
  InheritedCertificatesCoverOutputs
PROPERTIES
  NoStepDriftsTwice
