SPECIFICATION MCSpec
CONSTANTS
  Parts = {"graphics"}
  BUFFER_HEIGHT = 3
  BUFFER_WIDTH = 5
  BootText <- MCBootText
  Strings <- MCStrings
  MaxLog = 7
  Characters <- MCCharacters
  CursorLimit = 3
  MaxLine = 4
  Pieces = {"a", "b", "f", "x", "y", "z", ".", "..", "?"}
  Lines <- MCLines
  Tree <- MCTree
  Cluster = 2
  MaxTree = 5
  MaxPath = 3
  Names = {"app", "main", "lib", "in", "zip", "sys", "a", "b", "c", "d", "x", "script"}
  Disks <- MCDisks
  Paths <- MCPaths
  MaxDepth = 4
  bytes_per_pixel = 4
  UsizeMod = 64
  Coordinates <- MCCoordinates
  width = 2
  height = 3
  stride = 12
INVARIANT
  FillsScreen
