SPECIFICATION Spec
CONSTANTS
  Charges = {1, 2}
  Debits = {d1}
  Job = Job
  NoTask = NoTask
  Amounts = {2}
  Costs = {0, 2, 3}
  Thresholds = {1, 2}
  LowBalance = 2
  MaxTime = 2
  MaxFailures = 0
INVARIANTS
  InStepUnlessRaced
  EmptyFlagUnlessCrossed
  RemindersComeNearer
CHECK_DEADLOCK FALSE
