SPECIFICATION Spec
CONSTANTS
  Swe = {s1, s2, s3}
  Terminal = {t1}
  Patches = {p0, p1}
  NoPatch = p0
  Graded = {s1}
  Nobody = Nobody
  Default = Default
CHECK_DEADLOCK FALSE
INVARIANTS
  GradesAreOwn
  LogDirIsOwn
PROPERTIES
  LockMovesOn
