\* Room for two notifications and two toasts; a and b may be raised again, b is urgent.
SPECIFICATION Spec
CONSTANTS
  a = a
  b = b
  c = c
  l = l
  Ids = {a, b, c}
  Repeats = {a, b}
  Urgent = {b}
  Grouped = {a, l}
  Local = {l}
  Limit = 2
  MaxToasts = 2
  MaxRaises = 3
  MaxActs = 2
INVARIANTS
  TypeOK
  NothingElseIsMissed
  
  ToastsAreTimed
CHECK_DEADLOCK FALSE
