SPECIFICATION Spec
CONSTANTS
  a = a
  b = b
  NTables = 2
  NReplicas = 1
  Row <- OneRow
  RingCap = 1
  Snapshot = 0
  RingHasSnapshot = FALSE
  Ops = {"I", "D", "U"}
  Faults = {"err", "os", "kill", "disk"}
  MaxEvents = 2
  MaxLag = 9
  MaxStarts = 2
CHECK_DEADLOCK FALSE
INVARIANTS TypeOK NoEventLost
PROPERTY ImplementsTail
