CONSTANTS
  Matrices <- SmallMatrices
  NoPosition = none
  NumJobs = 1
  NumWorkers = 3
  MaxRuns = 2
  Writers = {w1}
  RingReaders = {r1, r2}
  RingSlots = 3
  RingPuts = 7
  MeshReaders = {r1, r2, r3}
  MeshSlots = 5
  MeshPuts = 4
  NumMessages = 3
  Wanted = 2
  MaxSessions = 2
  Fillers = {f1, f2}
  PushSize = 4
  BatchSize = 4
SPECIFICATION AllSpec
INVARIANTS
  AllocationsSound
  
PROPERTIES
  BroadcastImplemented
  WorkEnds
CHECK_DEADLOCK FALSE
