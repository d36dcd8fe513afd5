\* Two recordings, one logout and one restart of the service worker; Logout
\* and a start do not overlap where the document opens or closes.
SPECIFICATION Spec
CONSTANTS
  Recordings = {1, 2}
  MaxLogouts = 1
  MaxRestarts = 1
  LogoutRacesStart = FALSE
INVARIANTS
  NoHiddenCapture
  OneCapture
  ResultOnceAndInItsOwnField
CHECK_DEADLOCK FALSE
