\* One connection, one chat and the welcome screen, two updates, one reset,
\* not both updates again after the reset.
CONSTANTS
  s1 = s1
  s2 = s2
  c1 = c1
  c2 = c2
  NoContext = NoContext
  NoRequest = NoRequest
  Sids <- OneSid
  Contexts <- OneContext
  LogFroms <- FromZero
  MaxUpdates = 2
  MaxResets = 1
  MaxRequests = 2
SPECIFICATION Spec
CONSTRAINT FewLogChanges
INVARIANTS
  TypeOK
  ScheduledOnlyAfterHandshake
  
  SettledMeansSynced
CHECK_DEADLOCK FALSE
PROPERTIES
  StreamIsContiguous
