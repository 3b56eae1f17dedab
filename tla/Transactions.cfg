SPECIFICATION FairSpec
CONSTANTS
  t1 = t1
  t2 = t2
  w1 = w1
  Langs <- Both
  Tasks <- TwoTasks
  Writers <- OneWriter
  MaxWrites <- TwoNoneOne
  MaxUnread = 1
  Breaks = TRUE
\* Every transaction is over and the writer need not write.
CHECK_DEADLOCK FALSE
INVARIANTS TypeOK AllOrNothing NothingLeftOpen JoinedShareFate
PROPERTY EveryTransactionEnds
