\* One recording and one Logout, which does not overlap the start.
SPECIFICATION Spec
CONSTANTS
  Recordings = {1}
  MaxLogouts = 1
  MaxRestarts = 0
  LogoutRacesStart = FALSE
INVARIANT LogoutLeavesNoTranscript
CHECK_DEADLOCK FALSE
