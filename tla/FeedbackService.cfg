SPECIFICATION ServiceSpec
CONSTANTS
  d1 = d1
  d2 = d2
  Reports <- TwoReports
  Dispatchers <- TwoDispatchers
  DailyLimit = 2
  MaxBatch = 2
  LastDay = 1
  MaxFaults = 2
  Drafts = {fault}
  NoDraft = NoDraft
  Manual = {m1}
  Installations = {home}
  Handlers <- TwoDispatchers
  SubmissionsPerHour = 1
  MaxSubmissionsPerHour = 1
  MaximumStored = 1
  MaximumPerInstallation = 1
  MaxAttempts = 3
  Receipts = {1, 2}
  ReviewStatuses = {"needs_review", "duplicate", "declined"}
  Closed = {"declined"}
  NoReport = 0
  MaxRequests = 3
  ServiceFaults = 1
SYMMETRY DispatcherSymmetry
INVARIANTS TypeOK WithinDailyLimit UnemailedReportsRetained SettledReportsNotMailedAgain
INVARIANTS SuccessMeansStored OwnReceipt OvershootBounded DeletionComplete
PROPERTY DeletedStaysDeleted
CHECK_DEADLOCK FALSE
