SPECIFICATION Spec
CONSTANTS
  SectorSize = 4
  DiskSectors = 3
  CountMod = 2
  LbaMod = 16
  NoOp = NoOp
  None = None
  MaxOps = 1
INVARIANTS
  ReadFillsBuffer
