SPECIFICATION Spec
CONSTANTS
  b1 = b1
  b2 = b2
  Booking = {b1}
  Span <- Alone
  Extend = {e1}
  Bill = {t1, t2}
  Call = {c1, c2}
  Job = job
  Months = {2}
  Put <- AnyBody
  Horizon = 2
  MaxAccidents = 1
  Serial = FALSE
CHECK_DEADLOCK FALSE
SYMMETRY Symm
INVARIANTS ExtendedHasCause
