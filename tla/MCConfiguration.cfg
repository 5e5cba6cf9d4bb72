SPECIFICATION Spec
CONSTANTS
  Texts <- MCTexts
  Sources <- MCSources
  AskedWorkers <- MCAsked
  MaxWorkers = 3
  StreamsPerWorker = 2
  MaxConcurrency = 8
  MaxStages = 3
INVARIANTS
  AdmittedRuns
  PlanExactWhenUniform
  StopsOnlyWhenCongested
