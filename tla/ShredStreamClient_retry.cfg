SPECIFICATION Spec
CONSTANTS
  None = None
  MaxU32 = 2
  Caller = {a}
  Task = {t1}
  MaxReconnectAttempts = 1
  QueueCapacity = 2
  MaxBatchEvents = 0
  MaxEvents = 0
PROPERTIES
  ReceiveErrorIsRetried
CHECK_DEADLOCK FALSE
