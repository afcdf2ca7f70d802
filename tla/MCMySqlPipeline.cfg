SPECIFICATION Spec
CONSTANTS
  q1 = q1
  q2 = q2
  None = None
  Statement <- TwoStatements
  RowCounts <- MCRowCounts
  Limit = 1
  Unlimited = Unlimited
  Capture = TRUE
  FailClosed = FALSE
  MaxWrites = 1
SYMMETRY MCSymmetry
INVARIANTS
  TypeOK
  OverLimitNeverDurable
  VerdictIsTrue
  ImageIsOfTheStatement
CHECK_DEADLOCK FALSE
