SPECIFICATION MCSpec
CONSTANTS
  Null = Null
  Ticks = {c1}
  Publishers = {u1}
  DueKeys = {d1}
  EventKeys = {e1}
  MaxAttempts = 2
  MaxAborts = 2
  Requests = {q1}
  Cron = cron
  Resvs = {r1, r2}
  FirstCalendar = 1
  MaxRevs = 2
  MaxTroubles = 1
INVARIANT SendsAreCounted
INVARIANT CleanMeansInSync
PROPERTY SettledIsFinal
PROPERTY EventuallySettled
PROPERTY EventuallyClean
