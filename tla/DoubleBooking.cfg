SPECIFICATION Spec
CONSTANTS
  Booking = {b1, b2}
  Land = {l1}
  Call = {c1}
  RentPeriod <- OverlappingPeriods
  LongTerm = 3
  Horizon = 0
  MaxCopies = 1
  MaxExtend = 0
  MaxAccidents = 0
  Serial = TRUE
CHECK_DEADLOCK FALSE
INVARIANT NoDoubleBooking
