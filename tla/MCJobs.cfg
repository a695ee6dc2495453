SPECIFICATION FairSpec
CONSTANTS
  Shops = {s1, s2}
  Frequency = 2
  Grace = 2
  Term = 2
  Renewals = {r1, r2}
  MaxLeft = 4
  MaxFaults = 2
INVARIANTS
  ReportsSpacedUnlessBroken
  NoticeBeforeExpiry
  RenewalsAddUpUnlessCrossed
PROPERTY
  PassesComplete
