SPECIFICATION FairSpec
CONSTANTS
  Messages <- MCMessages
  NoMessage = 0
  Kinds <- MCKinds
  MaxSeen = 2
  MaxFaults = 1
INVARIANTS
  HistoryMissesNoText
  AnswersAreSaved
PROPERTY KeepsPromise
CHECK_DEADLOCK FALSE
