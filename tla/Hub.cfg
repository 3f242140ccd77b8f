CONSTANTS
  c1 = c1 c2 = c2
  u1 = u1 u2 = u2
  s1 = s1 s2 = s2
  d1 = d1
  None = None
  Devices = {d1}
  Device <- OneDevice
  Users = {u1, u2}
  Conns = {c1, c2}
  Owner <- TwoUsers
  Sessions = {s1, s2}
  Session <- TwoDevices
  Workers = {w1}
  Buffer = 1
  Slots = {p1}
SPECIFICATION FairSpec
INVARIANTS PublishNeverPanics KickedAreClosed
PROPERTY KickedLeave
CHECK_DEADLOCK FALSE
