SPECIFICATION KSpec
CONSTANTS
  TaskId = {key, other}
  NoTask = NoTask
  KeyTask = key
  TaskQueueCap = 4
  ScancodeQueueCap = 2
  MaxKeys = 6
INVARIANTS
  NoStrandedScancode
  HandlerNeverFreesWaker
PROPERTIES
  ImplementsChannel
