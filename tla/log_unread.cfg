SPECIFICATION Spec
CONSTANTS
  LogLines = 3
  MaxLines = 2
  MaxPolls = 1
PROPERTY AnswersShown
CHECK_DEADLOCK FALSE
