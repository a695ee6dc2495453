SPECIFICATION FairSpec
CONSTANTS
  MaxPayments = 2
  Owners <- MCOwners
  Referrer <- MCReferrer
  Sessions = {s1, s2}
  MaxUses = 2
INVARIANTS
  CreditedUnlessStale
  OneCreditPerCode
  RewardedOnce
  UsedCountUnlessLost
  ToldUnlessUndone
PROPERTY SessionEnds
CHECK_DEADLOCK FALSE
