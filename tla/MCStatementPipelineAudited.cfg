SPECIFICATION Spec
CONSTANTS
  q1 = q1
  q2 = q2
  q3 = q3
  None = None
  Statement <- OneStatement
  RowCounts <- MCRowCounts
  Limit = 1
  Unlimited = Unlimited
  Capture = TRUE
  NSinks = 1
  FailClosed = TRUE

INVARIANTS
  EffectIsAudited
CHECK_DEADLOCK FALSE
