SPECIFICATION Spec
CONSTANTS
  MaxPayments = 1
  Owners <- MCOwners
  Referrer <- MCReferrer
  Sessions = {s1, s2}
  MaxUses = 1
INVARIANT CreditedOnce
CHECK_DEADLOCK FALSE
