SPECIFICATION FairSpec
CONSTANTS
  c1 = c1
  c2 = c2
  Calls = {c1, c2}
  Foreign = Foreign
  ForceFactor = 3
  FirstContents = {"record", "garbage", "future"}
INVARIANTS NoSilentLoss
PROPERTIES WaitersGetThrough
CHECK_DEADLOCK FALSE
