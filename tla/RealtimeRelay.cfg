\* Two upgrades of one session, three frames each, and room for one frame
\* before the upstream socket opens.
SPECIFICATION FairSpec
CONSTANTS
  u1 = u1
  u2 = u2
  s1 = s1
  Upgrades = {u1, u2}
  Sessions = {s1}
  SessionOf <- OneSession
  BufferLimit = 1
  MaxFrames = 3
INVARIANTS
  TypeOK
  SlotHeldByOne
  OneOpenClient
  SocketsCounted
  RelaysInOrder
PROPERTY ClientAnswered
CHECK_DEADLOCK FALSE
