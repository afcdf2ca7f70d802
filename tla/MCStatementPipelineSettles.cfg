SPECIFICATION FairSpec
CONSTANTS
  q1 = q1
  q2 = q2
  q3 = q3
  None = None
  Statement <- OneStatement
  RowCounts <- MCRowCounts
  Limit = 1
  Unlimited = Unlimited
  Capture = TRUE
  NSinks = 2
  FailClosed = FALSE

PROPERTIES
  EveryStatementSettles
CHECK_DEADLOCK FALSE
