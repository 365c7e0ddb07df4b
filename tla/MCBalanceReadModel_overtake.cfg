CONSTANTS
  Users = {1, 2}
  Requests = {r1, r2}
  Readers = {}
  Workers = {w1}
  InitialBalance <- MCInitialBalance
  InitialHash <- WarmHash
  Amount = 1
  UseJetStream = FALSE
  Faults = FALSE
  MaxInFlight = 2
  MaxDeliver = 2
  MaxWipes = 0
  MaxRestarts = 0
  Absent = Absent
SPECIFICATION Spec
INVARIANTS
  HashFreshAtRest
CHECK_DEADLOCK FALSE
