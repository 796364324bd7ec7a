SPECIFICATION FairSpec
CONSTANTS
  Service = {s1}
  End <- Ends
  Request = {r1, r2, r3}
  Txn = {t1}
  Call = {c1}
  Morning = morning
  Hourly = hourly
  Lead = 1
  Horizon = 3
  MaxAccidents <- Accidents
  SerialModes = {TRUE, FALSE}
CHECK_DEADLOCK FALSE
INVARIANTS TypeOK RefundWasReported OneOfEach EndingIsInspected
PROPERTIES OverServiceExpires
