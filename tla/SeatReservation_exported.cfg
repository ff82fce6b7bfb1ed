SPECIFICATION SeatSpec
CONSTANTS
  VisitorTabs = {v1}
  Phones = {p1}
  MaxTickets = 1
  MaxSeats = 1
  MaxBookings = 1
  MaxCalls = 2
  MaxEdits = 0
  RecordTold = TRUE
  NoCall = NoCall
CHECK_DEADLOCK FALSE
INVARIANT ExportsNoCanceled
