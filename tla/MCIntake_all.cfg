SPECIFICATION MCSpec
CONSTANTS
  Mails = {m1}
  Calls = {c1, c2, c3}
  Failed = Failed
  Answers <- MCAnswers
  DailyCap = 2
  Faults = 2
  Rows = {c1, c2, c3}
  Taps = {d1, d2}
  MaxChips = 2
  MaxEdits = 2
  Clients = {d1, d2}
  Writers = {w1}
  Boots = {b1}
  Parsers = {g1, g2}
  None = None
  Cap = 1
  BeaconCap = 2
  Retry = 1
  Day = 2
  LastHour = 4
  Requests = 2
  Cuts = 1
SYMMETRY Symmetry
CONSTRAINT Explored
INVARIANT SiblingCountTrue
INVARIANT EachMailOnce
INVARIANT JobsSettleOnce
INVARIANT OutputIsBacked
INVARIANT OncePerDay
INVARIANT FaultsReachTheList
CHECK_DEADLOCK FALSE
