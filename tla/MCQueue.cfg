SPECIFICATION ListedSpec
CONSTANTS
  r1 = r1
  r2 = r2
  Requests <- TwoRequests
  Readers = {ui}
  Operators = {ui, cli}
  Local = {ui}
  MaxAge = 2
  WaitCap = 1
  Stale = 0
  Retention = 1
  MaxNow = 2
INVARIANTS ApprovedInTime LostOnlyIfDead
PROPERTIES DecisionStands OrphansLeave
CHECK_DEADLOCK FALSE
