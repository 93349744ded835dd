SPECIFICATION ScrapedSpec
CONSTANTS
  Resource = {r1, r2}
  Level = {0, 2}
  Thresholds <- CpuAndZero
  Weights <- ThreeWeights
  CompositeThreshold = 2
  MultiMetric = TRUE
  Dynamic = TRUE
  DynamicLevel = {1, 3}
  AnomalyDetection = FALSE
  HistorySize = 3
  MinDataPoints = 3
  ChangePercent = 100
  Retention = 2
  Debug = FALSE
  Listed = {r2}
  CanBeZombie = {r2}
  Absent = Absent
INVARIANTS HotterStaysOver
PROPERTIES PolicyImplemented EventuallyDropped EventuallyForgotten
