SPECIFICATION FairSpec
CONSTANTS
  acc1 = acc1
  acc2 = acc2
  plain = plain
  oper = oper
  Events <- MCEvents
  Operational <- MCOperational
  Workers <- MCWorkers
  Consumes <- MCConsumes
  AllowNoop = {}
  Scope <- MCScope
  Limit = 1
  MaxAttempts = 2
  Operators <- MCOperators
  MaxTime = 3
CHECK_DEADLOCK FALSE
INVARIANTS TypeOK ConsumedOnce
PROPERTIES BackoffRespected ImplementsContract EventuallySettled
