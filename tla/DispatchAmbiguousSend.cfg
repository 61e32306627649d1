SPECIFICATION Spec
CONSTANTS
  d1 = d1
  d2 = d2
  Reports <- TwoReports
  Dispatchers <- TwoDispatchers
  DailyLimit = 1
  MaxBatch = 2
  LastDay = 1
  MaxFaults = 1
INVARIANT DeliveredWithinDailyLimit
CHECK_DEADLOCK FALSE
