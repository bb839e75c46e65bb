SPECIFICATION LiveSpec
CONSTANTS
  Requests = {"expire", "refill", "login", "login2"}
  Rows <- MCRows
  Script <- MCScript
  Serializable = {"refill"}
  MaxConns = 2
  MaxAttempts = 2
  Failures = {"deadline", "domain"}
  NoOne = NoOne
INVARIANTS AnswerTruthful NothingLeaks
PROPERTIES EveryRequestEnds
CHECK_DEADLOCK FALSE
