\* Two connection losses while two messages are written and updated.
CONSTANTS
  c1 = c1
  NoContext = NoContext
  NoRequest = NoRequest
  Contexts <- OneContext
  LogFroms <- FromZero
  Items <- TwoItems
  MaxUpdates = 3
  MaxResets = 0
  MaxRequests = 20
  MaxSpurious = 0
  MaxDrops = 2
  MaxTimeouts = 0
  MaxPolls = 0
  MaxSwitches = 0
  AckFirst = TRUE
  FailureLimit = 3
SPECIFICATION SyncFairSpec
INVARIANTS
  QuietMeansInSync
PROPERTIES
  EventuallyInSync
CHECK_DEADLOCK FALSE
