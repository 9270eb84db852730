SPECIFICATION HarshSpec
CONSTANTS
  MAX_EVENTS = 2
  SECTOR = 2
  MAX_LOGGED = 4
  MAX_RESETS = 1
INVARIANT NeverMixed
PROPERTY CatchesUp
CHECK_DEADLOCK FALSE
