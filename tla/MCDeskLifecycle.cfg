SPECIFICATION FairSpec
CONSTANTS
  main = main  child = child  None = None
  create1 = create1  create2 = create2  create3 = create3  create4 = create4
  stop1 = stop1  stop2 = stop2  destroy1 = destroy1  spawn1 = spawn1
  Desks = {main, child}
  Requests = {create1, create2, create3, create4, spawn1, stop1, stop2, destroy1}
  Arrivals = {{create1, create2, stop1, destroy1}, {create1, spawn1, destroy1},
              {create3, create4, stop2}}
  Job <- JobOf
  InFlightMax = 1
  Overlapping = {create3, create4, stop2}
  Faults = TRUE
INVARIANTS TypeOK TokenUsable RunningIsWhole NoStrandedProvisioning NothingOutlivesRow
 
CHECK_DEADLOCK FALSE
