CONSTANTS
  Texts = {"", "new"}
  LoadsText = FALSE
  MaxRequests = 1
SPECIFICATION FairSpec
PROPERTIES
  SavingEnds
CHECK_DEADLOCK FALSE
