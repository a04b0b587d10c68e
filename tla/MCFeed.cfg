SPECIFICATION FairFeedSpec
CONSTANTS
  r1 = r1
  r2 = r2
  t1 = t1
  t2 = t2
  Requests <- TwoRequests
  Readers = {}
  Operators = {ui}
  Local = {ui}
  MaxAge = 2
  WaitCap = 1
  Stale = 0
  Retention = 0
  MaxNow = 0
  Ticks = {t1, t2}
  PageLimit = 1
  MaxFaults = 1
INVARIANTS NoChangeSkipped
PROPERTIES CardsCatchUp
