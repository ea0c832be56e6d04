SPECIFICATION Spec
CONSTANTS
  b1 = b1  b2 = b2  r1 = r1  s1 = s1  v1 = v1  v2 = v2  v3 = v3  None = None
  Migrations = {b1, b2, r1, s1}
  Arrivals = {{b1, b2}, {b1, r1}, {b1, s1}}
  Kind <- KindOf
  NewImage <- NewImageOf
  OldImage = v1
  Concurrent = FALSE
  StopDesks = TRUE
  RestartWhileLive = FALSE
INVARIANTS Recoverable
PROPERTY EndsTruthful
CHECK_DEADLOCK FALSE
