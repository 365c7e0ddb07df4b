CONSTANTS
  Users = {1, 2}
  Requests = {r1, r2}
  Readers = {}
  Workers = {w1, w2}
  InitialBalance <- MCInitialBalance
  InitialHash <- WarmHash
  Amount = 1
  UseJetStream = TRUE
  Faults = TRUE
  MaxInFlight = 2
  MaxDeliver = 2
  MaxWipes = 0
  MaxRestarts = 1
  Absent = Absent
SPECIFICATION FairSpec
PROPERTIES
  EventsSettle
CHECK_DEADLOCK FALSE
