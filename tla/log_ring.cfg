SPECIFICATION Spec
CONSTANTS
  LogLines = 3
  MaxLines = 8
  MaxPolls = 2
INVARIANT AnswerIsTheLog
CHECK_DEADLOCK FALSE
