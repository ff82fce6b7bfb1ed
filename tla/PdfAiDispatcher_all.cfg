SPECIFICATION Spec
CONSTANTS
  Nodes = {n1, n2}
  Concurrency = 2
  Interval = 1
  MaxOrphans = 1
  MaxJobs = 2
  MaxFaults = 1
CHECK_DEADLOCK FALSE
INVARIANTS WorkersWithinLimit OneDelayedWake NotStranded
PROPERTIES SignalHeard Quiesces DrainsWithoutPoll
