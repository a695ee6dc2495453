SPECIFICATION RCSpec
CONSTANTS
  OrderIds = {o1, o2}
  ProductIds = {p1}
  Customers = {c1}
  Quantities = {}
  Stocks = {2}
  NoProduct = NoProduct
  Unlimited = Unlimited
  Sessions = {w1, w2}
  MaxBatch = 2
SYMMETRY Symmetry
CONSTRAINT Focus
PROPERTIES
  SerialUnlessStale
  NeverReopened
CHECK_DEADLOCK FALSE
