CONSTANTS
  a1 = a1  b = b  m1 = m1  m2 = m2  x = x  y = y  w1 = w1  w2 = w2
  Clients = {a1, b}
  Authors = {a1}
  Msgs = {m1, m2}
  Texts = {x, y}
  Workers = {w1, w2}
  MaxAsks = 2
  MaxAstray = 2
  Dm = FALSE
SPECIFICATION Spec
SYMMETRY Symmetric
CHECK_DEADLOCK FALSE
INVARIANTS EventsSuffice ReadersAgree FailedIsRepaired
