SPECIFICATION Spec
CONSTANTS
  A = A
  B = B
  C = C
  r1 = r1
  r2 = r2
  Langs <- Both
  Endpoints <- TwoEndpoints
  Primaries <- AnyPrimary
  Readers <- TwoReaders
  MaxDials = 6
  MaxConnects = 2
  MaxTurns = 4
  MaxFans = 1
  Keys <- SomeKeys
  Hashes <- SomeHashes
  Fails = TRUE
\* All connects, reads and writes are made.
CHECK_DEADLOCK FALSE
CONSTRAINT ReadsOrWrites
INVARIANTS TypeOK PrimaryIsWanted EveryShardInPlace NothingLeaks RoundRobin WriteToAllIsHonest
