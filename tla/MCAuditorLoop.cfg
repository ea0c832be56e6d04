SPECIFICATION LoopSpec
CONSTANTS
  h1 = h1  h2 = h2  None = None
  Harbors = {h1, h2}
  MaxNotes = 1
  TTLs = {1}
  Responsive = 1
  NearResponsive = 1
  Default = 1
  Quiet = 2
  ThreadWindow = 1
  ForceRefresh = 3
  Threshold = 3
  Period = 1
INVARIANT HeartbeatHonest
PROPERTIES  NoFalseAlarm SilenceAlerted StopHonoured
