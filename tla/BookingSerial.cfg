SPECIFICATION Spec
CONSTANTS
  Booking = {b1, b2}
  Land = {l1, l2}
  Call = {c1}
  RentPeriod <- SomePeriods
  LongTerm = 1
  Horizon = 4
  MaxCopies = 2
  MaxExtend = 1
  MaxAccidents = 1
  Serial = TRUE
CHECK_DEADLOCK FALSE
SYMMETRY Symm
CONSTRAINT Followed
INVARIANTS AcceptedOnce BillAndBookingAgree
PROPERTIES NewBookingIsClear SettledStays FollowsLifecycle
