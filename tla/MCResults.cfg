SPECIFICATION Spec
CONSTANTS
  NumWorkers = 2
  Evaluations <- MCEvaluations
  ReportLimits = {2, 3}
  MaxSamples = 1
  MaxTime = 3
INVARIANTS
  TypeOK
  EachItemOnce
  EvalComplete
  OwnWindow
  ExactWindow
  AgreesWithAnalyze
