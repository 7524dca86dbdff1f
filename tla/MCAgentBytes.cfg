SPECIFICATION Spec
CONSTANTS
  Revisions = {"mute", "r1"}
  Informs = {"r1"}
  Reports = {"r1"}
  Configs <- MCBudgeted
  Replies = {"call", "edge"}
  Sizes <- MCSizes
  Prompt <- MCPrompt
  Note <- MCNote
  Failed <- MCFailed
  Repair <- MCRepair
  Echo <- MCEcho
  Room = 100
  OutputRetries = 1
  RetrimBudget = 2
  MaxCalibration = 200
  CutoffThreshold = 2
  MaxSteps = 1
  MaxRollouts = 2
  MaxMishaps = 2
INVARIANTS
  WritersStoreIdenticalBytes
CHECK_DEADLOCK FALSE
