SPECIFICATION MCSpec
CONSTANTS
  heap_start = 3
  heap_size = 9
  Layouts <- MCLayouts
  HEAP_START = 8
  HEAP_SIZE = 11
  BLOCK_SIZES <- MCBlockSizes
  MinHole = 2
  BlockLayouts <- MCBlockLayouts
  Null = Null
  Data = Data
INVARIANTS
  CountsLiveBlocks
  ListsSound
  Conserved
PROPERTIES
  ImplementsHeap
  BlockImplementsHeap
