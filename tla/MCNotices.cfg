SPECIFICATION MCSpec
CONSTANTS
  u1 = u1
  u2 = u2
  u3 = u3
  r1 = r1
  r2 = r2
  r3 = r3
  r4 = r4
  Users = {u1, u2, u3}
  Resvs = {r1, r2, r3, r4}
  LedgerOf <- MCLedgerOf
  Guaranteed = {u3}
  Linked = {u2}
  Cap = 1
  DaySlots = 2
  LastSlot = 3
  Faults = 1
  Edits = 1
  Writers = {w1, w2}
  Ids = {i1}
  Plans = {p1}
  Times = {t1, t2}
  Null = Null
  MaxAttempts = 2
  Day = 3
  Offsets = {0, 1, 3, 4, 6}
  Percents = {0, 30, 100}
  FixedFees = {Absent, 50}
  MaxStages = 3
  Starts = {8}
  Amounts = {100}
  Absent = Absent
  WebMaxStages = 3
  MaxHours = 5
  FreeHours = {1, 4, 6}
  Unknown = Unknown
INVARIANT NoticeOnce
INVARIANT NoneMissed
INVARIANT RationHeld
INVARIANT IndexesMatch
INVARIANT SameRateAsCore
INVARIANT CanonicalForm
INVARIANT FreeWindowNeverUnderWarns
PROPERTY ImplementsMemory
CHECK_DEADLOCK FALSE
