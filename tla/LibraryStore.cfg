\* Two recordings, one of them uploaded twice, and room for one pending save.
SPECIFICATION Spec
CONSTANTS
  s1 = s1
  s2 = s2
  u1 = u1
  u2 = u2
  u3 = u3
  Saves = {s1, s2}
  Puts = {u1, u2, u3}
  SaveOf <- OneRepeated
  MaxPending = 1
INVARIANTS
  TypeOK
  NoForgottenFile
PROPERTY ImplementsLibrary
CHECK_DEADLOCK FALSE
