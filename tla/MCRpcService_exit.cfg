CONSTANTS
  Clients = {k1}
  MaxTries = 1
  RetryOn = {}
  Replicas = {r1}
  MaxStarts = 0
SPECIFICATION FairSpec
PROPERTIES
  ProducerStops
CHECK_DEADLOCK FALSE
