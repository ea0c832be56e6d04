SPECIFICATION Spec
CONSTANTS
  b1 = b1  b2 = b2  r1 = r1  s1 = s1  v1 = v1  v2 = v2  v3 = v3  None = None
  Migrations = {b1}
  Arrivals = {{b1}}
  Kind <- KindOf
  NewImage <- NewImageOf
  OldImage = v1
  Concurrent = FALSE
  StopDesks = FALSE
  RestartWhileLive = TRUE
INVARIANT RecoveryIsClean
CHECK_DEADLOCK FALSE
