SPECIFICATION FairSpec
CONSTANTS
  s1 = s1
  s2 = s2
  c1 = c1
  c2 = c2
  t1 = t1
  t2 = t2
  None = None
  Session <- OneSession
  Connection <- MCConnection
  Target <- MCTarget
  SessionTtl = 2
  Retention = 0
  MaxTime = 3
INVARIANTS
  TypeOK
  EndedCannotConnect
  LiveIsListed
  OnlyLostStaysListed
PROPERTIES
  QuietConnectionEnds
  EndIsFinal
CHECK_DEADLOCK FALSE
