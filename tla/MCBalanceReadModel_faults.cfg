CONSTANTS
  Users = {1, 2}
  Requests = {r1, r2}
  Readers = {q1}
  Workers = {w1, w2}
  InitialBalance <- MCInitialBalance
  InitialHash <- ColdHash
  Amount = 1
  UseJetStream = TRUE
  Faults = TRUE
  MaxInFlight = 2
  MaxDeliver = 2
  MaxWipes = 1
  MaxRestarts = 1
  Absent = Absent
SPECIFICATION Spec
SYMMETRY Interchangeable
INVARIANTS
  TypeOK
  HashGenuine
  AckedIsProjected
  StreamIsHistory
CHECK_DEADLOCK FALSE
