SPECIFICATION Spec
CONSTANTS
  Tabs = {a, b}
  Recordings = {1, 2}
  Meetings = {2}
  Sections = {cleanup, shortcut}
  PageSize = 1
  MaxMoves = 4
SYMMETRY Symmetry
INVARIANTS
  NoLostUpdate
  ShownIsCurrent
CHECK_DEADLOCK FALSE
