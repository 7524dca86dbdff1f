SPECIFICATION Spec
CONSTANTS
  command = command
  RunActions = {command}
  Flaky <- MCFlaky
  Delicate = {command}
  MaxSteps = 1
  MaxRuns = 3
  MaxTroubles = 0
CHECK_DEADLOCK FALSE
PROPERTIES
  AuditUnderRecordedRegime
