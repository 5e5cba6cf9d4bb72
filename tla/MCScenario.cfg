CONSTANTS
  Workers = {w0, w1}
  Leader = w0
  Default = "a"
  Plans <- MCPlans
SPECIFICATION FairSpec
INVARIANTS
  TypeOK
  AlignedUnlessAborted
  StampsComplete
  WarmupNotMeasured
PROPERTY Terminates
