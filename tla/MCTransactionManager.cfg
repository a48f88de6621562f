CONSTANTS
  a = a
  b = b
  c = c
  Txns = {t1, t2, t3}
  NoTxn = none
  Locks = {a, b, c}
  Position <- CreationOrder
  Requests <- AllRequests
  MaxAttempts = 2
  Third = t3
SPECIFICATION AllSpec
SYMMETRY Symmetry
INVARIANTS
  TypeOK
  MutualExclusion
  LockTableExact
  UpdatesTogether
  SomeoneWins
CHECK_DEADLOCK FALSE
