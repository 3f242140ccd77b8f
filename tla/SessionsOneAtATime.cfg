CONSTANTS
  p1 = p1 p2 = p2
  w1 = w1 w2 = w2
  SIDs = {s1, s2, s3}
  Types = {web, phone}
  Procs = {p1, p2}
  Workers = {w1, w2}
  Home <- TwoProcesses
  Requests = {"login", "refresh", "revoke", "ban", "reset", "connect"}
  Serial = TRUE
  UseRedis = TRUE
  Faults = {"publish"}
  Cancels = FALSE
  MaxRestarts = 0
  None = None
SPECIFICATION Spec
SYMMETRY Symmetric
INVARIANTS OneSessionPerType RefreshOnce RevokedHasNoSocket BannedIsOut
CHECK_DEADLOCK FALSE
