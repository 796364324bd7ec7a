SPECIFICATION Spec
CONSTANTS
  Buy = {seed}
  Rent = {hoe}
  Order = {o1}
  Rental = {r1, r2}
  Call = {c1}
  Initial <- Three
  Cart <- Baskets
  Edit = {5}
  Delta <- OneLess
  MaxRequest = 1
  MaxRefund = 2
  MaxAccidents = 1
  Serial = TRUE
CHECK_DEADLOCK FALSE
SYMMETRY SymmDeal
INVARIANTS PiecesAreCounted RentStockConserved SignedWasPaid
PROPERTIES PaidDealStays
