SPECIFICATION FairSpec
CONSTANTS
  c1 = c1
  c2 = c2
  c3 = c3
  u = u
  v = v
  w = w
  x = x
  n = n
  NoMsg = NoMsg
  Chats = {c1, c2, c3}
  Messages = {u, n, w, x}
  ToQueue = {}
  Nudges = {n}
  To <- MCTo
  MaxTasks = 2
  Workers = 3
  ResetLimit = 0
  PauseLimit = 0
  MayFail = TRUE
  SerialSenders = TRUE
INVARIANTS
  AtMostMaxTasks
PROPERTIES
  EveryRunEnds
CHECK_DEADLOCK FALSE
