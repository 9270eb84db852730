SPECIFICATION Spec
CONSTANTS
  MAX_KEYS = 2
  TimeLimits = {1}
  Sensors = {"door"}
  AtStart = {"service"}
  STRAY_FOBS = {0}
  ORPHAN_TASKS = FALSE
  MAX_RESETS = 1
INVARIANT OverdueOnce
