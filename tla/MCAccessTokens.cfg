SPECIFICATION Spec
CONSTANTS
  d1 = d1
  d2 = d2
  r1 = r1
  r2 = r2
  i1 = i1
  i2 = i2
  None = None
  Delivery <- MCDelivery
  Redeemer <- MCRedeemer
  Issue <- OneIssue
  RequiredSignals <- BothSignals
  TokenTtl = 1
  Retention = 0
  MaxTime = 3
SYMMETRY MCSymmetry
INVARIANTS
  TypeOK
  AtMostOneSession
  SpentBeforeExpiry
  SecondTokenOnlyByRace
  PublishedIsStored
  AnswerIsTruthful
  SpentWithoutSession
  EachSignalHeld
PROPERTIES
  ImplementsOneTimeToken
CHECK_DEADLOCK FALSE
