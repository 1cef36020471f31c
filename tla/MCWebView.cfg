SPECIFICATION WebSpec
CONSTANTS
  Day = 3
  Offsets = {0, 3, 4}
  Percents = {0, 30, 100}
  FixedFees = {Null}
  MaxStages = 3
  Starts = {7}
  Amounts = {100}
  Null = Null
  WebMaxStages = 3
  MaxHours = 5
  FreeHours = {1, 4}
  Unknown = Unknown
CHECK_DEADLOCK FALSE
INVARIANT NextChargeIsTheRate
