SPECIFICATION Spec
CONSTANTS
  MaxResources = 5
  CheckEvery = 2
  Debug = FALSE
INVARIANTS TypeOK PassedResourcesAccepted HandedOverOnce ErrorMeansNotAccepted StageLeavesOnlyOnExpiry ExcludedLeaveTogether
