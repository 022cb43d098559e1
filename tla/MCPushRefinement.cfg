\* One connection, one chat and the welcome screen. MaxSpurious is above any
\* sequence number the instance reaches, so it forbids nothing.
CONSTANTS
  s1 = s1
  c1 = c1
  NoContext = NoContext
  NoRequest = NoRequest
  Sids <- OneSid
  Contexts <- OneContext
  LogFroms <- FromZero
  MaxUpdates = 1
  MaxResets = 1
  MaxRequests = 2
  MaxSpurious = 100
  me = s1
SPECIFICATION FairSpec
PROPERTIES
  ImplementsPushService
  
  
CHECK_DEADLOCK FALSE
