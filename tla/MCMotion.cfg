CONSTANTS
  Elements = {"e1", "e2"}
  Drops = {"e1", "d1", "d2"}
  Added <- AllOrders
  Points = {"p1", "p2", "p3"}
  Covers <- CoversOf
  Accepted <- AcceptedPairs
  Reverts = {"e2"}
  DragOptions <- GhostsOrScrolls
  MaxPresses = 2
  Lists = {"l1", "l2"}
  Items = {"a", "b", "c", "d"}
  First <- FirstOrder
  ListOptions <- ThreeLists
  MaxDrags = 3
  NewSequences <- Sequences_
  SliderOptions <- StepsOrFree
  MaxSets = 4
  QueueOptions <- ShortOrLong
  MaxLate = 3
  StyleOptions <- ToggledOrStarted
SPECIFICATION AllSpec
INVARIANTS
  DragsSound
  OrderSound
  EffectsSound
PROPERTIES
  MovesSound
CHECK_DEADLOCK FALSE
