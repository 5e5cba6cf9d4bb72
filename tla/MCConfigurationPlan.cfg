SPECIFICATION Spec
CONSTANTS
  Texts <- MCTexts
  Sources <- RateSweep
  AskedWorkers = {2}
  MaxWorkers = 3
  StreamsPerWorker = 2
  MaxConcurrency = 16
  MaxStages = 3
INVARIANT PlanExact
