SPECIFICATION PersistentSpec
CONSTANTS
  Resource = {r1, r2}
  Level = {1, 3}
  Thresholds <- OneThreshold
  Weights <- NoWeights
  CompositeThreshold = 1
  MultiMetric = FALSE
  Dynamic = TRUE
  DynamicLevel = {1, 4}
  AnomalyDetection = FALSE
  HistorySize = 3
  MinDataPoints = 3
  ChangePercent = 100
  Retention = 2
  Debug = FALSE
  Listed = {}
  CanBeZombie = {}
  Absent = Absent
  Failures = {"crash", "torn_write", "failed_save", "shared_file"}
  Inherited <- SavedTable
  OtherTables <- OverTables
  NoFile = NoFile
  Torn = Torn
INVARIANTS NeverRejuvenated
