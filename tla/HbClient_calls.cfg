SPECIFICATION Spec
CONSTANTS
  SOCKETS = 4
  OTHERS = 2
  RETRIES = 30
  MAX_CMDS = 3
  MAX_PRESSES = 1
INVARIANT TypeOK
INVARIANT OpensWithHeartbeat
INVARIANT CommandAnswered
INVARIANT SocketsReturned
PROPERTY KeepsCalling
PROPERTY HoldReleased
