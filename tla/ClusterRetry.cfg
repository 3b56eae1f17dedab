SPECIFICATION Spec
CONSTANTS
  A = A
  B = B
  C = C
  r1 = r1
  r2 = r2
  Langs <- Python
  Endpoints <- TwoEndpoints
  Primaries <- SecondNode
  Readers <- NoReaders
  MaxDials = 4
  MaxConnects = 2
  MaxTurns = 0
  MaxFans = 0
  Keys <- NoKeys
  Hashes <- NoHashes
  Fails = TRUE
\* All connects are made.
CHECK_DEADLOCK FALSE
INVARIANT WritesGoToPrimary
