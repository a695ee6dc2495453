SPECIFICATION FairSpec
CONSTANTS
  Charges = {1, 2}
  Debits = {d1, d2}
  Job = Job
  NoTask = NoTask
  Amounts = {1}
  Costs = {1}
  Thresholds = {}
  LowBalance = 0
  MaxTime = 1
  MaxFailures = 1
INVARIANTS
  NoOverspend
PROPERTIES
  DebitEnds
  StaleExpires
CHECK_DEADLOCK FALSE
