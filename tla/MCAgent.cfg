SPECIFICATION Spec
CONSTANTS
  Revisions = {"mute", "r1"}
  Informs = {"r1"}
  Reports = {"r1"}
  Configs <- MCConfigs
  Replies = {"call", "long", "runaway", "bad", "cut", "rejected"}
  Sizes <- MCSizes
  Prompt <- MCPrompt
  Note <- MCNote
  Failed <- MCFailed
  Repair <- MCRepair
  Echo <- MCEcho
  Room = 100
  OutputRetries = 1
  RetrimBudget = 2
  MaxCalibration = 200
  CutoffThreshold = 2
  MaxSteps = 2
  MaxRollouts = 2
  MaxMishaps = 2
CHECK_DEADLOCK FALSE
INVARIANTS
  TrimmingIsRight
  ThinkingEndsOnce
  SameHistorySameRequest
  CompletionIsOwn
