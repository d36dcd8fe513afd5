\* What becomes of the upstream socket of a client that left while it was
\* still connecting.
SPECIFICATION FairSpec
CONSTANTS
  u1 = u1
  u2 = u2
  s1 = s1
  Upgrades = {u1, u2}
  Sessions = {s1}
  SessionOf <- OneSession
  BufferLimit = 1
  MaxFrames = 1
PROPERTY UpstreamFollowsClient
CHECK_DEADLOCK FALSE
