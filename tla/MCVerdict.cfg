SPECIFICATION JudgmentSpec
CONSTANTS
  Tasks = {t1, t2, t3}
  Rollouts <- MCRollouts
INVARIANTS
  SelectionNeverRegresses
  InfraNoiseNeverDecides
  DecisionsAreTrue
