SPECIFICATION FairSpec
CONSTANTS
  MAX_EVENTS = 4
  SECTOR = 2
  MAX_LOGGED = 6
  MAX_RESETS = 0
INVARIANT TypeOK
INVARIANT SentMeansDelivered
INVARIANT NoEventLost
INVARIANT FrameMatchesSlot
PROPERTY QueueSpec
PROPERTY EveryEventConfirmed
CHECK_DEADLOCK FALSE
