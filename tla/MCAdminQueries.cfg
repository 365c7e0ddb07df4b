CONSTANTS
  UserIds = {1, 2, 3}
  TransferIds = {1, 2, 3}
  NotificationIds = {1, 2, 3, 4}
  InitialUsers = {1, 2}
  Matching = {2, 3}
  Admins = {a1}
  AskedSizes = {0, 1, 3}
  MaxSize = 1
  DefaultSize = 2
  MaxPage = 2
SPECIFICATION Spec
INVARIANTS
  TypeOK
  WalkComplete
  TransfersWalkComplete
  NamesResolved
  StatsOrdered
CHECK_DEADLOCK FALSE
