SPECIFICATION BoardSpec
CONSTANTS
  None = None
  MaxActors = 2
  Slots = {1, 2}
  FirstOffered = {1}
  MaxCapacity = 1
  MaxOthers = 2
  RecordShown = TRUE
CHECK_DEADLOCK FALSE
PROPERTY OverwritesOnlyShown
