\* Three runs of the server, one forced reconnect, two broken connections or requests.
SPECIFICATION FairSpec
CONSTANTS
  MaxFetches = 3
  MaxRuns = 3
  MaxForces = 1
  MaxBreaks = 2
INVARIANTS
  TypeOK
  SomebodyTries
PROPERTIES
  RestartIsNoticed
  ReconnectsUnlessStuck
CHECK_DEADLOCK FALSE
