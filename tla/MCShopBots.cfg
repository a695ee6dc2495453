SPECIFICATION Spec
CONSTANTS
  Tokens = {t1, t2}
  NoToken = NoToken
  Sessions = {s1, s2}
  NoSession = NoSession
  MaxFaults = 2
INVARIANTS
  InStepWhenQuiet
