SPECIFICATION Spec
CONSTANTS
  Imports = {i1, i2}
  UploadWindow = 0
  Grace = 0
  Keep = 2
  DayLength = 2
  CleanupBatch = 2
  LastDay = 0
  MaxFaults = 1
INVARIANTS PhaseFollowsData OneCountedUnlessOvertaken ObjectsFollowed
PROPERTIES NothingRestored EventuallyDeleted
