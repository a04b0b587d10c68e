SPECIFICATION FairSpec
CONSTANTS
  p1 = p1
  p2 = p2
  a = a
  Pools = {p1, p2}
  Ids = {a}
  MaxOpened = 2
  MaxAsks = 1
INVARIANTS FreeOwesNothing
PROPERTIES CallsEnd
CHECK_DEADLOCK FALSE
