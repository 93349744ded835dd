SPECIFICATION Spec
CONSTANTS
  w1 = w1
  h1 = h1
  Workers = {w1}
  Handlers = {h1}
  MaxBatches = 2
  Batch = {1, 2}
  NoBatch = 0
  MaxAttempts = 2
  QueueSize = 1
  MaxTimeouts = 1
  Scenario = {"10kItemsPerSecond", "1kSPSWithAttrs", "TraceNoBackend", "SendingQueuesFull", "SendingQueuesNotFull", "Long", "MemoryLimiterHit"}
INVARIANTS PassMeansDelivered RefusedThenDelivered AgentGoneUnlessWatched
PROPERTIES TestEnds
CHECK_DEADLOCK FALSE
