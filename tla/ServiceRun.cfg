SPECIFICATION FairSpec
CONSTANTS
  Service = {s1, s2}
  Bill = {t1, t2}
  Offer <- Offers
  Acreage = 2
  RentEnd = 1
  Call = {c1}
  Job = job
  Horizon = 2
  MaxAccidents = 1
  SerialModes = {TRUE, FALSE}
CHECK_DEADLOCK FALSE
INVARIANTS ServiceInductive AcreageFits ServicesAgree
PROPERTIES UnpaidServiceGoes
