SPECIFICATION Spec
CONSTANTS
  Imports = {i1}
  UploadWindow = 0
  Grace = 0
  Keep = 2
  DayLength = 2
  CleanupBatch = 1
  LastDay = 1
  MaxFaults = 0
INVARIANT DeletedLeavesNothing
