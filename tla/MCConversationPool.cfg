CONSTANTS
  Streams = {s1, s2}
  NConvs = 3
  CompactAt = 1
  Plans <- MCPlans
  MaxTurns = 2
  ErrorLimit = 2
  MaxPending = 1
SPECIFICATION FairSpec
INVARIANTS
  TypeOK
  Exclusive
  ReadyWhenNeeded
  LeastRecentlyUsed
PROPERTIES
  ExactRequests
  Terminates
