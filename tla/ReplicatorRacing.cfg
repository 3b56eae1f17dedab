SPECIFICATION FairSpec
CONSTANTS
  a = a
  b = b
  NTables = 1
  NReplicas = 1
  Row <- TwoRows
  RingCap = 1024
  Snapshot = 0
  RingHasSnapshot = FALSE
  Ops = {"I", "D"}
  Faults = {}
  MaxEvents = 3
  MaxLag = 9
  MaxStarts = 1
PROPERTY EventuallyConsistent
