SPECIFICATION Spec
CONSTANTS
  Kinds <- Batches1
  Subscribed <- FirstOnly
  MaxBatch = 2
  MaxCalls = 2
  MaxConns = 1
  MaxEvents = 0
  MaxChunk = 2
  Auth = FALSE
  Refusable = "any"
  Timeouts = FALSE
  Breaks = FALSE
\* The application may stop calling: the system may come to rest.
CHECK_DEADLOCK FALSE
INVARIANT OwnAnswers
