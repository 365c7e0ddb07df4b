CONSTANTS
  Clients = {k1}
  MaxTries = 2
  RetryOn = {400, 503}
  Replicas = {r1}
  MaxStarts = 1
SPECIFICATION FairSpec
INVARIANTS
  TypeOK
  BookedOncePerClient
PROPERTIES
  BookingSpec
  CallsAnswered
  RunnersStop
CHECK_DEADLOCK FALSE
