SPECIFICATION Spec
CONSTANTS
  r1 = r1  r2 = r2  r3 = r3  a1 = a1
  NoModel = NoModel  NoJob = NoJob
  PrimaryModel = luna  EscalationModel = sol
  Jobs = {r1, a1}
  ReviewJobs = {r1}
  Damages = {"none", "payload"}
  Concurrency = 2
  MaxAttempts = 2
  LeaseDuration = 2
  BackoffBase = 1
  BackoffCap = 2
  FailureThreshold = 1
  OpenDuration = 2
  MaxOpenDuration = 3
  RequestInterval = 1
  RecoveryPage = 1
  CircuitEnabled = TRUE
  EscalationAllowed = TRUE
  MaxTime = 2
  MaxGeneration = 0
CHECK_DEADLOCK FALSE
INVARIANT WorkConserving
