SPECIFICATION FairSpec
CONSTANTS
  Booking = {b1}
  Land = {l1}
  Call = {c1}
  RentPeriod <- OnePeriod
  LongTerm = 0
  Horizon = 3
  MaxCopies = 1
  MaxExtend = 0
  MaxAccidents = 0
  Serial = TRUE
CHECK_DEADLOCK FALSE
PROPERTY SecondInstalmentBecomesPayable
