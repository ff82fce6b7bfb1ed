SPECIFICATION Spec
CONSTANTS
  r1 = r1  r2 = r2  r3 = r3  a1 = a1
  NoModel = NoModel  NoJob = NoJob
  PrimaryModel = luna  EscalationModel = sol
  Jobs = {r1, r2}
  ReviewJobs = {r1, r2}
  Damages = {"none"}
  Concurrency = 1
  MaxAttempts = 2
  LeaseDuration = 1
  BackoffBase = 1
  BackoffCap = 2
  FailureThreshold = 1
  OpenDuration = 1
  MaxOpenDuration = 2
  RequestInterval = 0
  RecoveryPage = 1
  CircuitEnabled = FALSE
  EscalationAllowed = TRUE
  MaxTime = 2
  MaxGeneration = 2
SYMMETRY ReviewSymmetry
CHECK_DEADLOCK FALSE
INVARIANTS LeaseCapacity CallBudget NoNoticeReplayed
