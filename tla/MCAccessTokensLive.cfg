SPECIFICATION FairSpec
CONSTANTS
  d1 = d1
  d2 = d2
  r1 = r1
  r2 = r2
  i1 = i1
  i2 = i2
  None = None
  Delivery <- MCDelivery
  Redeemer <- NoRedeemer
  Issue <- TwoIssues
  RequiredSignals <- LabelsOnly
  TokenTtl = 1
  Retention = 0
  MaxTime = 1
PROPERTIES
  ApprovedIsPublished
CHECK_DEADLOCK FALSE
