SPECIFICATION FullSpec
CONSTANTS
  SLOTS = 4
  SECTOR = 2
  UserIds = {u1, u2, u3}
  TaskIds = {t1}
  Contents = {c1}
  MAX_RESETS = 0
INVARIANT TablesAsTold
