SPECIFICATION FairSpec
CONSTANTS
  Kinds <- Batches1
  Subscribed <- FirstOnly
  MaxBatch = 1
  MaxCalls = 1
  MaxConns = 1
  MaxEvents = 1
  MaxChunk = 2
  Auth = FALSE
  Refusable = "none"
  Timeouts = FALSE
  Breaks = FALSE
\* The application may stop calling: the system may come to rest.
CHECK_DEADLOCK FALSE
PROPERTY EventsAreDrained
