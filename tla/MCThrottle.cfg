SPECIFICATION ThrottleFairSpec
CONSTANTS
  Debounce = 2
  MaxWait = 3
  MinDelay = 1
  MaxMessages = 2
  Window = 2
  Calls = {c1, c2}
  PoolKeys = {k1}
  OwnKeys <- MCOwnKeys
  k0 = k0
  Threshold = 2
  Cooldown = 3
  MaxRetries = 1
INVARIANTS
  BufferWaitBounded
PROPERTIES
  CircuitCloses
  CallEnds
CHECK_DEADLOCK FALSE
