SPECIFICATION Spec
CONSTANTS
  Ids = {1, 2, 3}
  TEST_ID = 1
  WIDTH = 2
  People = {p, q}
  SLOTS = 3
  MAX_CMDS = 3
  MAX_FAULTS = 1
  MAX_RESETS = 1
INVARIANT TypeOK
INVARIANT FlagMatchesTemplates
INVARIANT FingerOpensOwn
