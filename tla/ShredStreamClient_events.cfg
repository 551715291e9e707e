SPECIFICATION Safety
CONSTANTS
  None = None
  MaxU32 = 2
  Caller = {a}
  Task = {t1, t2}
  MaxReconnectAttempts = 1
  QueueCapacity = 2
  MaxBatchEvents = 2
  MaxEvents = 4
INVARIANTS
  EventsAccountedFor
CHECK_DEADLOCK FALSE
