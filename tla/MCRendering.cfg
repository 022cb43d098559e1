\* Four items of any type, two changes, one snapshot of the whole log.
SPECIFICATION Spec
CONSTANTS
  Types <- MCTypes
  MaxItems = 4
  MaxUpdates = 2
  MaxFulls = 1
INVARIANTS
  TypeOK
  EachItemOnce
  OpenGroupIsLast
  PageIsTheLog
  PageFollowsTheLog
CHECK_DEADLOCK FALSE
