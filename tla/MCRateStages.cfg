CONSTANTS
  NWorkers = 2
  Plans <- MCPlans
  Slots = {c1, c2, c3}
  MaxTurns = 2
  ErrorLimit = 2
  MaxPending = 2
SPECIFICATION FairSpec
INVARIANTS
  InFlightCapped
  ExactDispatch
PROPERTY CancelStops
