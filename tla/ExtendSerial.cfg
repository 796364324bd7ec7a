SPECIFICATION FairSpec
CONSTANTS
  b1 = b1
  b2 = b2
  Booking = {b1, b2}
  Span <- OneAfterTheOther
  Extend = {e1, e2}
  Bill = {t1, t2, t3}
  Call = {c1}
  Job = job
  Months = {2, 5}
  Put <- Branches
  Horizon = 2
  MaxAccidents = 1
  Serial = TRUE
CHECK_DEADLOCK FALSE
INVARIANTS OneExtendInHand BillAndExtendAgree PaymentExtends ExtendIsFree
PROPERTIES CompletedStays UnpaidExtendCloses
