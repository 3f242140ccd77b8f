CONSTANTS
  p1 = p1 p2 = p2
  w1 = w1 w2 = w2
  SIDs = {s1, s2}
  Types = {web}
  Procs = {p1, p2}
  Workers = {w1, w2}
  Home <- TwoProcesses
  Requests = {"login", "logout"}
  Serial = FALSE
  UseRedis = TRUE
  Faults = {"set", "exists"}
  Cancels = TRUE
  MaxRestarts = 1
  None = None
SPECIFICATION Spec
SYMMETRY Symmetric
INVARIANT AcknowledgedStaysOut
CHECK_DEADLOCK FALSE
