\* One recording; Logout may come at any moment of its start.
SPECIFICATION Spec
CONSTANTS
  Recordings = {1}
  MaxLogouts = 1
  MaxRestarts = 0
  LogoutRacesStart = TRUE
INVARIANT LogoutEndsRecording
CHECK_DEADLOCK FALSE
