SPECIFICATION FairSpec
CONSTANTS
  f1 = f1
  f2 = f2
  l1 = l1
  l2 = l2
  Submitters = {s1, s2}
  Cancellers = {c1}
  Fingerprints = {f1, f2}
  Labels = {l1, l2}
  Labellings <- MCLabellings
  None = None
  Foreign = Foreign
  MaxFaults = 1
INVARIANTS
  TypeOK
  OneSpecification
  OneSource
  ServiceOfRun
  NoStaleRerun
PROPERTIES
  EveryClientAnswered
