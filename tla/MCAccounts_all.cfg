SPECIFICATION MCSpec
CONSTANTS
  Users = {u1, u2, u3, u4}
  Addresses = {a1, a2, a3, a4}
  Names = {n1, n2}
  Secrets = {s1, s2, s3}
  Clients = {c1, c2}
  None = None
  MaxUsers = 1
  Allowed = {a4}
  Requests = 3
  People = {p1, p2}
  Tickets = {t1}
  Sessions = {x1, x2}
  Limit = 1
  LoginRequests = 4
SYMMETRY Symmetry
CONSTRAINT Undisturbed
INVARIANT IndexesAgree
INVARIANT UsesAreLimited
CHECK_DEADLOCK FALSE
