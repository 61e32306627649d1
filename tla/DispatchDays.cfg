SPECIFICATION DaysSpec
CONSTANTS
  d1 = d1
  d2 = d2
  Reports <- SixReports
  Dispatchers <- TwoDispatchers
  DailyLimit = 3
  MaxBatch = 4
  LastDay = 2
  MaxFaults = 1
INVARIANT BacklogSharedOut
PROPERTIES QueueDrains MailboxSpec
CHECK_DEADLOCK FALSE
