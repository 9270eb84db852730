SPECIFICATION ResetSpec
CONSTANTS
  MAX_EVENTS = 5
  SECTOR = 3
  MAX_LOGGED = 8
  MAX_RESETS = 1
PROPERTY ResetFindsWriter
PROPERTY ResetKeepsPending
CHECK_DEADLOCK FALSE
