SPECIFICATION WorkloadSpec
CONSTANTS
  memory = memory  cpu = cpu  w1 = w1  w2 = w2  w3 = w3  w4 = w4  q1 = q1  q2 = q2  NoRegister = NoRegister
  Fields = {memory, cpu}
  Capped = {memory}
  Registers = {w1, w2, w3, w4}
  WorkloadReleases = {q1, q2}
  Want <- WantOf
  WorkloadTarget <- TargetOf
  WorkloadArrivals = {{w1, w2, q1, q2}, {w1, w3, w4, q1}}
  Containers = 2
INVARIANT LiftAccounted
PROPERTIES ClosedStaysClosed ExpiredLeasesEnd
CHECK_DEADLOCK FALSE
