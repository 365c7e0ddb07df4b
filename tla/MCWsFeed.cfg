CONSTANTS
  Conns = {1, 2}
  Listening = {1}
  Hosts = {1, 2}
  HostOf <- OwnHost
  TTL = 3
  MaxMsgs = 2
  SubBuffer = 1
  ChanSize = 1
SPECIFICATION FairSpec
INVARIANTS
  TypeOK
  OnlineWhileBeating
  FramesInOrder
PROPERTIES
  GoroutinesEnd
  PresenceExpires
CHECK_DEADLOCK FALSE
