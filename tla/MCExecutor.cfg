SPECIFICATION Spec
CONSTANTS
  TaskId = {t1, t2, t3}
  NoTask = NoTask
  TaskQueueCap = 4
INVARIANTS
  HaltedOnlyWhenIdle
  WakerCacheFollowsTasks
  InterruptsDisabledOnlyToSleep
PROPERTIES
  CompletedNeverPolled
  WokenIsPolled
