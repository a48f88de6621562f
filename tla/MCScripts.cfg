CONSTANTS
  Count = 3
  MaxParts = 2
  MaxLate = 2
  Elements = {"child", "root"}
  NoElement = "none"
  ParentOf <- ChildOfRoot
  Custom = {"a:b", "c:d"}
  Standard = {"click"}
  Handlers = {"h", "k"}
  Pages <- CustomsOrClick
  MaxUID = 2
  MaxEvents = 2
  MaxDepth = 2
SPECIFICATION AllSpec
INVARIANTS
  TestsSound
  RegistrySound
PROPERTIES
  ScriptsMove
  ScriptsEnd
CHECK_DEADLOCK FALSE
