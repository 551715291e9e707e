SPECIFICATION Spec
CONSTANTS
  None = None
  MaxU32 = 2
  Caller = {a, b}
  Task = {t1, t2}
  MaxReconnectAttempts = 1
  QueueCapacity = 2
  MaxBatchEvents = 0
  MaxEvents = 0
INVARIANTS
  NoLeakedTask
  SlotOwnsItsTask
PROPERTIES
  CallsReturn
  LastDropEndsTasks
  EndsForCause
CHECK_DEADLOCK FALSE
