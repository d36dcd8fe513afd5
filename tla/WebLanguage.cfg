SPECIFICATION Spec
CONSTANTS
  Tabs = {a, b}
  NoTab = NoTab
  Recordings = {1, 2}
  MaxOpens = 3
  MaxTurns = 1
  MaxFrames = 2
  CleanupRaces = FALSE
SYMMETRY TabSymmetry
INVARIANT OnlyTheUserAbandons
CHECK_DEADLOCK FALSE
