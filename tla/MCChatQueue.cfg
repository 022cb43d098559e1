\* Two messages, two operations at a time, two clicks or failed requests.
SPECIFICATION Spec
CONSTANTS
  MaxItems = 2
  MaxOps = 2
  MaxActs = 2
  MaxSenders = 1
INVARIANTS
  TypeOK
  
  QueueIsInOrder
  
CHECK_DEADLOCK FALSE
