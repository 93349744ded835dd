SPECIFICATION Spec
CONSTANTS
  w1 = w1
  w2 = w2
  Workers = {w1, w2}
  Handlers = {w1, w2}
  MaxBatches = 2
  Batch = {1, 2}
  NoBatch = 0
  MaxAttempts = 2
  Outcomes = {"ok", "retry", "permanent"}
INVARIANTS TypeOK BooksBalance CountedIsRecorded RetriedLogsReceived
PROPERTIES QuietAfterStop StopEnds
CHECK_DEADLOCK FALSE
