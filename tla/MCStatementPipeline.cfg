SPECIFICATION Spec
CONSTANTS
  q1 = q1
  q2 = q2
  q3 = q3
  None = None
  Statement <- ThreeStatements
  RowCounts <- MCRowCounts
  Limit = 1
  Unlimited = Unlimited
  Capture = TRUE
  NSinks = 2
  FailClosed = TRUE
SYMMETRY MCSymmetry
INVARIANTS
  TypeOK
  AnsweredIsAudited
  OverLimitNeverDurable
  ArtifactBeforeEffect
  AuditTellsTheOutcome
  ClientIsToldTheOutcome
PROPERTIES
  KeepsItsPromise
CHECK_DEADLOCK FALSE
