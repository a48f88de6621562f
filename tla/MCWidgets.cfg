CONSTANTS
  Owners = {"a", "b"}
  TipOptions <- TypesAndPlaces
  Width = 12
  Height = 7
  OffsetX = 2
  OffsetY = 2
  MouseHeight = 5
  Padding = 3
  MaxOpacity = 2
  MaxTimers = 2
  MinYear = 2004
  MaxYear = 2005
  Today <- LeapDay
  Firsts <- ThreeDays
  FirstDays = {0, 1}
  NavParams <- PlainOthersOrSome
  MaxOpens = 2
  PopupParams <- EachOrCached
  FirstDay <- December
  DayCount = 120
  Formats <- FiveFormats
  Now <- JuneMorning
SPECIFICATION AllSpec
INVARIANTS
  WidgetsSound
  DatesAreRead
PROPERTIES
  WidgetsMove
  TipsEnd
CHECK_DEADLOCK FALSE
