CONSTANTS
  Workers = {w0, w1, w2}
  Leader = w0
  NBarriers = 2
  Retries = 1
  MaxLosses = 1
SPECIFICATION FairSpec
INVARIANTS
  TypeOK
  Agreement
  NobodyAhead
PROPERTY AllPass
