CONSTANTS
  a = a
  b = b
  c = c
  Txns = {t1, t2}
  NoTxn = none
  Locks = {a, b, c}
  Position <- CreationOrder
  Requests <- OverlapRequests
  MaxAttempts = 2
  Third = t3
SPECIFICATION Spec
INVARIANTS
  DuplicatesFiltered
CHECK_DEADLOCK FALSE
