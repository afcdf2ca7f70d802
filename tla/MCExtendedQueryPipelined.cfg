SPECIFICATION Spec
CONSTANTS
  Name = {n1, n2}
  Portal = {p1}
  select1 = select1
  select2 = select2
  returning = returning
  blocked = blocked
  Text <- MCText
  Selects <- MCSelects
  WithRows <- MCWithRows
  Blocked <- MCBlocked
  Pipelines = TRUE
  None = None
  Refused = Refused
SYMMETRY MCSymmetry
CHECK_DEADLOCK FALSE
INVARIANTS
  UnsupportedFailsClosed
