SPECIFICATION FairSpec
CONSTANTS
  OrderIds = {o1, o2}
  ProductIds = {p1}
  Customers = {c1, c2}
  Quantities = {2}
  Stocks = {1, 3}
  NoProduct = NoProduct
  Unlimited = Unlimited
INVARIANTS
  TypeOK
  ReservedOnlyWhilePending
  ConfirmedInSync
  ReservationsCovered
  ReservationsBacked
  NoRecentDuplicates
PROPERTIES
  StatusMovesForward
  ReservationEnds
  CandidateEnds
CHECK_DEADLOCK FALSE
