CONSTANTS
  Waiters = {w1, w2}
  Signallers = {s1, s2}
  NoThread = none
  Interrupted = {w1}
  MaxSignals = 2
  MaxLockSignals = 3
  MaxSpurious = 1
SPECIFICATION AllSpec
INVARIANTS
  TypesOK
  NoLostWakeup
  WakeupsKept
PROPERTIES
  Implemented
  EventsImplemented
  Served
CHECK_DEADLOCK FALSE
