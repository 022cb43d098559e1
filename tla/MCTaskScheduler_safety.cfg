\* A planned task and a recurring one; two runs and two acts of the user.
SPECIFICATION Spec
CONSTANTS
  p = p
  q = q
  r1 = r1
  r2 = r2
  NoTask = NoTask
  NoRun = NoRun
  Tasks = {p, q}
  Planned = {p}
  Cron = {q}
  LastTime = 2
  Runs <- TwoRuns
  UserStates = {"idle", "disabled"}
  StopKinds = {"delete", "remove"}
  MaxActs = 2
SYMMETRY RunSymmetry
INVARIANTS
  TypeOK
  
  NoTimeIsLost
  DoneWasLaunched
PROPERTIES
  DeletedStaysDeleted
CHECK_DEADLOCK FALSE
