SPECIFICATION Spec
CONSTANTS
  Resource = {r1}
  Level = {1, 3}
  Thresholds <- OneThreshold
  Weights <- NoWeights
  CompositeThreshold = 1
  MultiMetric = FALSE
  Dynamic = FALSE
  DynamicLevel = {}
  AnomalyDetection = TRUE
  HistorySize = 3
  MinDataPoints = 3
  ChangePercent = 100
  Retention = 2
  Debug = FALSE
  Listed = {}
  CanBeZombie = {}
  Absent = Absent
PROPERTIES PolicyImplemented
