SPECIFICATION Spec
CONSTANTS
  o = o
  m1 = m1
  m2 = m2
  r1 = r1
  r2 = r2
  Users = {o, m1, m2}
  Resvs = {r1, r2}
  Clients = {c1, c2}
  None = None
  Owner <- MCOwner
  Requests = 4
SYMMETRY Symmetry
INVARIANT SidesAgree
INVARIANT ChangesAreFlagged
CHECK_DEADLOCK FALSE
