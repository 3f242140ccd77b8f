CONSTANTS
  Users = {u1, u2, u3}
  Devices = {d1}
  Calls = {c1}
  Workers = {w1, w2}
  Ops <- AllRequests
  IsGroup = TRUE
  Disconnects = FALSE
  MaxRestarts = 0
  None = None
SPECIFICATION Spec
SYMMETRY Symmetric
INVARIANT RequestsAgree
PROPERTY ImplementsLifecycle
CHECK_DEADLOCK FALSE
