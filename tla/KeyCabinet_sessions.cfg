SPECIFICATION FairSpec
CONSTANTS
  a = a
  b = b
  t1 = t1
  t2 = t2
  t3 = t3
  k1 = k1
  k2 = k2
  Users <- MCUsers
  Tasks <- MCTasks
  Keys <- MCKeys
  TasksOf <- MCTasksOf
  KeysOf <- MCKeysOf
  Approvers <- MCApprovers
  CardOnly <- MCCardOnly
  MAX_LOGINS = 2
  MAX_MOVES = 2
  MAX_SERVER = 1
INVARIANT TypeOK
INVARIANT LockedAfterSession
INVARIANT RightsRespected
PROPERTY LoggedForUser
PROPERTY CustodySettles
