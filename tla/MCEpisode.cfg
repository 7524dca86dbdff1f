SPECIFICATION FairSpec
CONSTANTS
  MaxSteps = 3
  MaxBatch = 2
  AgentBudget = 3
  StallBudget = 2
  VerifyBudget = 1
INVARIANTS
  SolvedIsEarned
  DriftsOnce
  NothingLeftOpen
  NeverResamples
PROPERTIES
  AgentBudgetHolds
  RolloutEnds
