SPECIFICATION FairSpec
CONSTANTS
  Booking = {b1, b2}
  Land = {l1}
  Call = {c1}
  RentPeriod <- NowOrLater
  LongTerm = 0
  Horizon = 3
  MaxCopies = 1
  MaxExtend = 0
  MaxAccidents = 1
  Serial = FALSE
CHECK_DEADLOCK FALSE
CONSTRAINT OneWholeOrTwoBills
INVARIANTS GrantedWasPaid RefundWasPaid
PROPERTIES JobsKeepUp
