SPECIFICATION Spec
CONSTANTS
  Procs = {p1, p2}
  Tasks = {t1}
  Slots = 1
  Threads = 2
  Retries = 1
  MaxTroubles = 1
  Auditors = {}
  Nobody = Nobody
INVARIANTS
  SubnetsNeverCollide
CHECK_DEADLOCK FALSE
