SPECIFICATION TabSpec
CONSTANTS
  Files = {f1, f2}
  Sources = {s1}
  NoAnswer = NoAnswer
  Concurrency = 2
  MaxForm = 1
  MaxAttempts = 2
  MaxWrites = 1
  MaxMishaps = 1
  Nothing = Nothing
  None = None
  MaxActors = 2
  Slots = {1, 2}
  FirstOffered = {1}
  MaxCapacity = 1
  MaxOthers = 1
  RecordShown = FALSE
  VisitorTabs = {v1, v2}
  Phones = {p1, p2}
  MaxTickets = 2
  MaxSeats = 2
  MaxBookings = 2
  MaxCalls = 2
  MaxEdits = 1
  RecordTold = FALSE
  NoCall = NoCall
CHECK_DEADLOCK FALSE
INVARIANTS
  ApplicantFollowsJob ReportedIsStored
  ReceiptMatches DuplicateMeansOther ClosesOnlySaved
  SavedFits RefusedOnlyWhenStale NoticesAsListed
  SeatsFit OnePerPhone BookedSessionsStay
PROPERTIES
  KeepsEdits CanceledIsFinal ImplementsSeats
