SPECIFICATION MCSpec
CONSTANTS
  None = None
  Yamls <- MCYamls
  Threads = {t1}
  Domains <- MCDomains
  MaxEdits = 2
  MaxCommands = 4
  MaxUpdates = 1
  Labels = {"a", "A", "b", "*", "", ":"}
  Segments = {"a", "b", ".", "..", ""}
  Characters = {"a", "b", "/", "*"}
  MaxLength = 3
    
INVARIANTS  StorageSegmentwise 
CHECK_DEADLOCK FALSE
