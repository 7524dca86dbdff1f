SPECIFICATION Spec
CONSTANTS
  Tasks = {t1, t2}
  Rollouts <- MCTrusted
  Replay = TRUE
  MaxEpochs = 2
  MaxDrift = 0
  MaxBumps = 1
  MaxKills = 0
CHECK_DEADLOCK FALSE
SYMMETRY Symmetry
INVARIANTS
  BaselineIsCompleteAndCurrent
  PromotionsAreSound
PROPERTIES
  HeadOnlyFollowsSelections
  VerdictsNeverLeakForward
