CONSTANTS
  Timeout = 2
  MaxKeys = 4
SPECIFICATION KeySpec
INVARIANTS
  AnswersInOrder
  PendingInMode
PROPERTIES
  EveryKeyAnswered
