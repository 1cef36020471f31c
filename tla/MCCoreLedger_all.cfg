SPECIFICATION MCSpec
CONSTANTS
  Sessions = {s1, s2}
  Ids = {r1, r2}
  Plans = {p1, p2}
  Foreign = {p2}
  Null = Null
  Quotas = {1, 2}
  MaxCommands = 5
  Tools = {"create_plan", "create", "add", "link", "confirm", "report", "void", "policy"}
  CanCrash = TRUE
  ab = ab
  a_b = a_b
  cd = cd
  Names = {ab, a_b, cd}
  Place <- MCPlace
  Times = {1}
  FeeTables = {y1, y2}
  MaxRows = 2
  MaxChanges = 2
  Day = 3
  Offsets = {0, 1, 3, 4, 6}
  Percents = {0, 30, 100}
  FixedFees = {Null, 50}
  MaxStages = 3
  Starts = {8}
  Amounts = {100}
  Morning = 1
  Every = 2
  Late = 1
  Horizon = 6
  Edits = 1
ACTION_CONSTRAINT Explored
SYMMETRY Symmetry
CHECK_DEADLOCK FALSE
INVARIANT LogExplainsStore
INVARIANT ProjectionAgrees
INVARIANT QuotaHeld
INVARIANT NoSecondRow
INVARIANT TaughtPolicyApplies
INVARIANT BoundaryIsTheNextChange
INVARIANT PreviewIsKept
INVARIANT RemindedInTime
PROPERTY FeeNeverDrops
