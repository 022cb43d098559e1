\* A reset, a switch, a poll and a timeout; every failed handshake forces a reconnect.
CONSTANTS
  c1 = c1
  NoContext = NoContext
  NoRequest = NoRequest
  Contexts <- OneContext
  LogFroms <- FromZero
  Items <- OneItem
  MaxUpdates = 0
  MaxResets = 1
  MaxRequests = 20
  MaxSpurious = 0
  MaxDrops = 0
  MaxTimeouts = 1
  MaxPolls = 1
  MaxSwitches = 1
  AckFirst = FALSE
  FailureLimit = 1
SPECIFICATION SyncFairSpec
INVARIANTS
  TypeOK
  
PROPERTIES
  ComesToRest
CHECK_DEADLOCK FALSE
