SPECIFICATION Spec
CONSTANTS
  main = main  child = child  None = None
  create1 = create1  create2 = create2  create3 = create3  create4 = create4
  stop1 = stop1  stop2 = stop2  destroy1 = destroy1  spawn1 = spawn1
  Desks = {main}
  Requests = {create1}
  Arrivals = {{create1}}
  Job <- JobOf
  InFlightMax = 1
  Overlapping = {}
  Faults = FALSE
INVARIANT RollbackIsClean
CHECK_DEADLOCK FALSE
