CONSTANTS
  Readers = {p1}
  PoolSize = 4
  Exist = 2
  OnceGet = 3
  MaxMsgs = 8
  MaxTime = 6
SPECIFICATION ChatSpec
INVARIANTS
  ListAndPool
  AnswersInOrder
  ReadsOn
CHECK_DEADLOCK FALSE
