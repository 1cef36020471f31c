SPECIFICATION MCSpec
CONSTANTS
  Polls = {p1, p2}
  Phones = {h1}
  Users = {u1}
  Clients = {g1, g2}
  Limit = 2
  MaxTokens = 2
  Life = 3
  Interval = 1
  MaxPolls = 3
  MaxWrites = 5
  Null = Null
  Tools = {"api", "force", "unpair"}
  MaxCodes = 2
  MaxFaults = 1
ACTION_CONSTRAINT Explored
SYMMETRY Symmetry
INVARIANT TokenHandOver
INVARIANT WorkingIsListed
INVARIANT RevokedStaysDead
INVARIANT ShownIsPolled
CHECK_DEADLOCK FALSE
