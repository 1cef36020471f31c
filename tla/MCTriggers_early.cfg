SPECIFICATION NoticeSpec
CONSTANTS
  Day = 6
  Offsets = {0, 7}
  Percents = {0, 50}
  FixedFees = {Null}
  MaxStages = 2
  Starts = {12}
  Amounts = {100}
  Null = Null
  Morning = 2
  Every = 2
  Late = 1
  Horizon = 8
  Edits = 1
INVARIANT EarlyEventReminds
CHECK_DEADLOCK FALSE
