CONSTANTS
  Users = {u1, u2}
  Devices = {d1, d2}
  Calls = {c1}
  Workers = {w1, w2, w3}
  Ops <- DMRequests
  IsGroup = FALSE
  Disconnects = TRUE
  MaxRestarts = 0
  None = None
SPECIFICATION Spec
SYMMETRY Symmetric
INVARIANTS UnansweredOutcome SingleAnswer AnnouncedEndIsTrue
CHECK_DEADLOCK FALSE
