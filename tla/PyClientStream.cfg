SPECIFICATION Spec
CONSTANTS
  Kinds <- Commands1
  Subscribed <- FirstOnly
  MaxBatch = 2
  MaxCalls = 2
  MaxConns = 1
  MaxEvents = 2
  MaxChunk = 4
  Auth = FALSE
  Refusable = "any"
  Timeouts = TRUE
  Breaks = FALSE
\* The application may stop calling: the system may come to rest.
CHECK_DEADLOCK FALSE
INVARIANTS TypeOK EventsExact AnswersExact
