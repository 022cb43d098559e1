SPECIFICATION Spec
CONSTANTS
  c1 = c1
  c2 = c2
  c3 = c3
  u = u
  v = v
  w = w
  x = x
  n = n
  NoMsg = NoMsg
  Chats = {c1, c2}
  Messages = {u, w}
  ToQueue = {}
  Nudges = {}
  To <- MCTo
  MaxTasks = 1
  Workers = 2
  ResetLimit = 1
  PauseLimit = 0
  MayFail = FALSE
  SerialSenders = TRUE
INVARIANTS
  PermitsComeBack
CHECK_DEADLOCK FALSE
