CONSTANTS
  a = a  b = b
  Users = {a, b}
  Peer <- Pair
  Ids = {i1, i2}
  Convs = {x1, x2, x3}
  Open = {b}
  Workers = {w1, w2}
  Requests <- Everything
  None = None
SPECIFICATION Spec
SYMMETRY Symmetric
INVARIANTS AnsweredOnce FriendsHaveDM OneRow OneChat OneShared BlockStands
CHECK_DEADLOCK FALSE
