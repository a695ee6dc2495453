SPECIFICATION Spec
CONSTANTS
  Addresses = {a, b}
  NoAddress = NoAddress
  Links = {link}
  Strays = {stray}
  NoLink = NoLink
  Handlers = {h1, h2}
  Modes = {"test", "sms", "email"}
  MaxCodes = 2
  MaxFaults = 1
SYMMETRY Symmetry
CHECK_DEADLOCK FALSE
INVARIANTS
  VerifiedUnlessSwitched
  ReferredUnlessLost
  OneTrialUnlessRaced
