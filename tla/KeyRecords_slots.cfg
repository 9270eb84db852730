SPECIFICATION FairSpec
CONSTANTS
  MAX_KEYS = 2
  Fobs = {f1, f2, f3}
  DS1990 = {f1, f2}
  MAX_MOVES = 1
  MAX_TAKES = 2
  MAX_MENUS = 1
  MAX_COMMANDS = 1
  MAX_RESETS = 1
INVARIANT TypeOK
INVARIANT RegistrationDurable
INVARIANT DeadlineOfTaking
PROPERTY StatusSettles
CHECK_DEADLOCK FALSE
