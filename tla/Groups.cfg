CONSTANTS
  o = o  a = a  b = b
  Users = {o, a, b}
  Owner = o
  Clients = {b}
  Capacity = 2
  Workers = {w1, w2}
  Requests <- Everything
  MaxInbox = 1
  MaxLoads = 2
  None = None
SPECIFICATION Spec
SYMMETRY Symmetric
INVARIANTS OwnerStays WithinCapacity MemberIsListed LeaverIsUnlisted
PROPERTIES HistoryKept ImplementsMembership
CHECK_DEADLOCK FALSE
