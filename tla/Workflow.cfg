SPECIFICATION FairSpec
CONSTANTS
  Request = {r1}
  Expert = {x1, x2}
  Renter = renter
  Call = {c1, c2}
  Job = job
  Week = 0
  Horizon = 1
  MaxMessages = 2
  MaxAccidents = 1
  SerialModes = {TRUE, FALSE}
CHECK_DEADLOCK FALSE
INVARIANTS TypeOK WorkHasAssignee WorkersCanTalk
PROPERTIES OnlyReportedIsDeleted LapsedChannelGoes
