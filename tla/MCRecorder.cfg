CONSTANTS
  Writers = {r1, r2, r3, r4}
  Closers = {c1, c2}
  Capacity = 1
SPECIFICATION FairRecorderSpec
INVARIANTS
  NoSendOnClosed
PROPERTIES
  AllReturn
  LogSpec
