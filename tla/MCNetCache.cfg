SPECIFICATION Spec
CONSTANTS
  Conns = {c1, c2}
  Scopes = {s1, s2}
  Requests <- MCRequests
  Builds = {b1}
  NoScope = NoScope
  NoKey = NoKey
  Nothing = Nothing
  MaxRequests = 3
  MaxVersions = 2
  MaxTroubles = 1
CHECK_DEADLOCK FALSE
SYMMETRY Symmetry
INVARIANTS
  EntriesAreKept
  AnswersAreRight
PROPERTIES
  FrozenSnapshot
  MirrorIsWriteOnce
