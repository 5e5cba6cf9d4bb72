CONSTANTS
  Streams = {s1, s2, s3}
  Plans <- MCPlans
  MaxTurns = 2
  ErrorLimit = 2
  MaxPending = 1
SPECIFICATION FairSpec
INVARIANTS
  ConcurrencyCap
  Quiescent
PROPERTIES
  ExactWhenFresh
  Terminates
