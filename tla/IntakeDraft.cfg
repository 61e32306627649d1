SPECIFICATION Spec
CONSTANTS
  Installations = {home}
  Handlers = {h1}
  Reports = {fault, wish}
  NoDraft = NoDraft
  Manual = {}
  SubmissionsPerHour = 2
  MaxSubmissionsPerHour = 2
  MaximumStored = 2
  MaximumPerInstallation = 2
  MaxAttempts = 2
  MaxFaults = 0
INVARIANT DraftPreserved
CHECK_DEADLOCK FALSE
