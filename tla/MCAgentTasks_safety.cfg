SPECIFICATION Spec
CONSTANTS
  c1 = c1
  c2 = c2
  c3 = c3
  u = u
  v = v
  w = w
  x = x
  n = n
  NoMsg = NoMsg
  Chats = {c1, c2}
  Messages = {u, v, w, n}
  ToQueue = {v}
  Nudges = {n}
  To <- MCTo
  MaxTasks = 2
  Workers = 3
  ResetLimit = 1
  PauseLimit = 1
  MayFail = TRUE
  SerialSenders = TRUE
INVARIANTS
  TypeOK
  OneChainPerChat
  
CHECK_DEADLOCK FALSE
