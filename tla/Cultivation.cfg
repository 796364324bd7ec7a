SPECIFICATION Spec
CONSTANTS
  g1 = g1
  g2 = g2
  k1 = k1
  m1 = m1
  Stage <- Stages
  Content <- Contents
  StageOf <- StagesOf
  Begin <- Begins
  EndOfUse = 2
  Material = {m1}
  MaterialOf <- MaterialsOf
  Rented = {m1}
  Stock <- Stocks
  Quantity = {2}
  Call = {c1}
  Job = job
  Horizon = 2
  Cap = 2
  MaxAccidents <- Accidents
  SerialModes = {TRUE, FALSE}
CHECK_DEADLOCK FALSE
INVARIANTS TypeOK StockIsRight WorkFollowsActivation ContentIsAskedFor
