SPECIFICATION KSpec
CONSTANTS
  TaskId = {key}
  NoTask = NoTask
  KeyTask = key
  TaskQueueCap = 3
  ScancodeQueueCap = 3
  MaxKeys = 5
INVARIANTS
  WakeFindsRoom
