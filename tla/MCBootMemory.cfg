SPECIFICATION Spec
CONSTANTS
  PageSize = 4
  memory_map <- MCMap
  Areas <- MCAreas
  MaxTables = 3
INVARIANTS
  FramesOnce
  FramesUnused
  AreasMapped
