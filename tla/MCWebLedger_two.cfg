SPECIFICATION MCSpec
CONSTANTS
  Clients = {c1, c2}
  Ids = {r1, r2}
  Plans = {p1}
  Null = Null
  MaxDay = 0
  MaxAttempts = 2
  Ops = {"create", "confirm", "replace", "patch"}
SYMMETRY Symmetry
INVARIANT OneWinnerPerPlan
