SPECIFICATION Spec
CONSTANTS
  c1 = c1
  c2 = c2
  c3 = c3
  i1 = i1
  i2 = i2
  Requests <- ThreeCalls
  Readers = {}
  Operators = {ui}
  Local = {ui}
  MaxAge = 2
  WaitCap = 1
  Stale = 0
  Retention = 1
  MaxNow = 0
  Ids = {i1}
  IdOf <- FirstId
  MaxHeld = 2
  GuardCap = 2
  FailClosed = FALSE
  IsWrap = TRUE
  StorageFails = FALSE
  MaxDenied = 0
INVARIANTS AnsweredNeverForwarded CancelFollowsCall HeldWithinCap
CHECK_DEADLOCK FALSE
SYMMETRY CallSymmetry
