CONSTANTS
  Users = {1, 2}
  Requests = {r1, r2}
  NoReq = NoReq
  Payloads <- MixedPayloads
  InitialBalance <- MCInitialBalance
  MaxUserId = 2
  MaxBalance = 3
  MaxAttempts = 3
  MaxConns = 2
SPECIFICATION FairSpec
INVARIANTS
  TypeOK
  LocksOwned
  BalancesInRange
  BookedOnce
  IdsFollowCommits
  MoneyConserved
PROPERTIES
  EventMatchesCommit
  StepsAreProgress
  LedgerSpec
  BookingSpec
  EveryRequestAnswered
