CONSTANTS
  Users = {1, 2, 3}
  Requests = {r1, r2, r3}
  NoReq = NoReq
  Payloads <- ContendedPayloads
  InitialBalance <- MCInitialBalance
  MaxUserId = 3
  MaxBalance = 6
  MaxAttempts = 1
  MaxConns = 2
SPECIFICATION FairSpec
INVARIANTS
  ReadStillCurrent
  DeadlockFree
  TablesAgree
PROPERTIES
  EveryRequestAnswered
