SPECIFICATION Spec
CONSTANTS
  Calls = {p1, p2}
  Loops = {g1, g2}
  None = None
  Tools = {"api"}
  MaxCodes = 2
  MaxFaults = 0
PROPERTY SameCodeComesBack
CHECK_DEADLOCK FALSE
