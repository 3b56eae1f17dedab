SPECIFICATION FairSpec
CONSTANTS
  Kinds <- CommandsThenTensors
  Subscribed <- FirstOnly
  MaxBatch = 2
  MaxCalls = 3
  MaxConns = 2
  MaxEvents = 2
  MaxChunk = 4
  Auth = TRUE
  Refusable = "single"
  Timeouts = FALSE
  Breaks = TRUE
\* The application may stop calling: the system may come to rest.
CHECK_DEADLOCK FALSE
INVARIANT EventsExact
PROPERTIES ImplementsRpc EveryCallEnds
