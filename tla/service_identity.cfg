SPECIFICATION PartsSpec
CONSTANTS
  Subject = {"identity"}
  Key = {k1}
  Writer = {w1, w2}
  SweepInterval = 1
  MaxAge = 2
  MaxLag = 1
  Record = {r1, r2, r3}
  MaxElapsedTime = 2
  MaxInterval = 1
  MaxCallTime = 1
  File = {"f1", "f2", "f3", "f4"}
  Ext <- MCExt
  Forms = {"root", "dot", "absolute"}
  Pool = 2
  Run <- MCRun
  HeadLines = 2
  Config <- MCConfig
  Aggregation <- MCAggregation
  Unit = 2
  Attribute = {"x", "y", "z"}
  Processing <- MCProcessing
  Report <- MCReport
  KeyOrder <- MCKeyOrder
  Fits = 2
  Text <- MCText
  IncludeList <- MCIncludeList
  MaxReports = 2
  Thresholds = {"cpu", "mem"}
  Weighted = {"io"}
  MultiMetric = TRUE
  Resources <- MCResources
  Metric = {"cpu", "mem"}
  Level = {0, 1, 2}
INVARIANTS ServicesSeparate
CHECK_DEADLOCK FALSE
