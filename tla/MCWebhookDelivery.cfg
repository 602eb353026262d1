CONSTANTS
  Dispatchers = {"task", "loop"}
  MaxAttempts = 5
  AttemptTime = 30
  Backoff <- MCBackoff
  Skew = 300
  Slack = 95
  HoldTimes = {95, 96}
  MaxSweeps = 1
SPECIFICATION Spec
INVARIANTS
  TypeOK
  TimestampFresh
  DeliveredIsTrue
  DuplicateNeedsCause
  AttemptsCounted
PROPERTIES
  AnswerIsFinal
  DispatchEnds
CHECK_DEADLOCK FALSE
