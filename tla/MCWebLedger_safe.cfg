SPECIFICATION MCSpec
CONSTANTS
  Clients = {c1, c2}
  Ids = {r1, r2}
  Plans = {p1}
  Null = Null
  MaxDay = 1
  MaxAttempts = 1
  Ops = {"create", "confirm", "replace", "patch", "cancel", "restore", "delete"}
SYMMETRY Symmetry
INVARIANT WinnerHoldsGuard
PROPERTY SettlementIsWhole
PROPERTY LosersReallyLost
PROPERTY ImplementsPlanWinner
