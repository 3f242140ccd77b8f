CONSTANTS
  Users = {u1, u2}
  Devices = {d1}
  Calls = {c1, c2}
  Workers = {w1}
  Ops <- Redials
  IsGroup = FALSE
  Disconnects = TRUE
  MaxRestarts = 1
  None = None
SPECIFICATION FairSpec
INVARIANTS OneOpenCall
PROPERTIES RingEnds
CHECK_DEADLOCK FALSE
