SPECIFICATION Spec
CONSTANTS
  SLOTS = 4
  SECTOR = 3
  UserIds = {u1, u2}
  TaskIds = {t1}
  Contents = {c1, c2}
  MAX_RESETS = 1
INVARIANT TypeOK
INVARIANT TablesAsTold
INVARIANT SearchFinds
