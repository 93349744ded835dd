SPECIFICATION Spec
CONSTANTS
  Worker = {w1, w2}
  Base <- CpuOnly
  MinLimit <- CpuFrom5
  MaxLimit <- Unlimited
  Smoothing = 50
  Peak = 20
  WeightOnly = TRUE
  NoWorker = NoWorker
INVARIANTS DriftBounded
PROPERTIES UpdatesSpaced
