SPECIFICATION FairSpec
CONSTANTS
  Transports <- AllThree
  Auths <- WithAndWithout
  MaxRequests = 2
  BatchSizes <- SendAndBatch
  MaxConns = 2
  MaxEvents = 2
  Breaks = TRUE
  CarefulReconnect = TRUE
\* The application may stop calling: the system may come to rest.
CHECK_DEADLOCK FALSE
INVARIANTS TypeOK WaitersAreDue EventsInOrder LeftoversAreNamed
PROPERTIES ImplementsRpc EveryCallSettles EveryConnectSettles
