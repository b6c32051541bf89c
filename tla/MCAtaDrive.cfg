SPECIFICATION Spec
CONSTANTS
  SectorSize = 4
  DiskSectors = 3
  CountMod = 8
  LbaMod = 16
  NoOp = NoOp
  None = None
  MaxOps = 2
INVARIANTS
  SectorCountExact
  TransfersComplete
PROPERTIES
  ImplementsByteDisk
