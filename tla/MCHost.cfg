SPECIFICATION FairSpec
CONSTANTS
  Procs = {p1, p2}
  Tasks = {t1, t2}
  Slots = 2
  Threads = 2
  Retries = 1
  MaxTroubles = 1
  Auditors = {}
  Nobody = Nobody
\* The processes end: EveryProcessEnds tells an end from a deadlock.
CHECK_DEADLOCK FALSE
INVARIANTS
  SlotsAreExact
  TasksAreExclusive
  NothingOutlivesItsOwner
PROPERTIES
  EveryProcessEnds
