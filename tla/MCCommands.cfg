SPECIFICATION MCSpec
CONSTANTS
  None = None  dashed = dashed  underscored = underscored
  Desks = {d1, d2}
  Names = {dashed, underscored}
  Slug <- MCSlug
  Amendments = {am}
  Procs = {p1, p2}
  MaxCommands = 7
  Commands = {c1, c2}
  MaxDaemons = 3
  MaxRuns = 4
SYMMETRY Symmetry
INVARIANTS SoleAuditor  MembersHaveYards RecoversAlone ListedIsReachable
 
CHECK_DEADLOCK FALSE
