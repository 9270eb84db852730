SPECIFICATION FairSpec
CONSTANTS
  MAX_KEYS = 2
  TimeLimits = {1}
  AtStart = {}
  Sensors = {"door"}
  STRAY_FOBS = {}
  ORPHAN_TASKS = TRUE
  MAX_RESETS = 0
INVARIANT TypeOK
PROPERTY AlarmDropped
PROPERTY ScanReaches
