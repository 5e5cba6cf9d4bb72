SPECIFICATION FairSpec
CONSTANTS
  f1 = f1
  f2 = f2
  l1 = l1
  l2 = l2
  Submitters = {s1, s2}
  Cancellers = {c1}
  Fingerprints = {f1}
  Labels = {l1}
  Labellings <- OneLabelling
  None = None
  Foreign = Foreign
  MaxFaults = 0
PROPERTIES
  OwnershipRespected
