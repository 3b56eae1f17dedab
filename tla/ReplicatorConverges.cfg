SPECIFICATION FairSpec
CONSTANTS
  a = a
  b = b
  NTables = 1
  NReplicas = 2
  Row <- TwoRows
  RingCap = 1024
  Snapshot = 1
  RingHasSnapshot = FALSE
  Ops = {"I", "D"}
  Faults = {}
  MaxEvents = 4
  MaxLag = 1
  MaxStarts = 2
INVARIANTS NothingRepeated CaughtUpInSync
PROPERTIES RowIdsMatch EventuallyConsistent
