SPECIFICATION FairSpec
CONSTANTS
  c1 = c1
  c2 = c2
  c3 = c3
  i1 = i1
  i2 = i2
  Requests <- OneCall
  Readers = {ui}
  Operators = {ui}
  Local = {ui}
  MaxAge = 2
  WaitCap = 1
  Stale = 0
  Retention = 0
  MaxNow = 1
  Ids = {i1}
  IdOf <- FirstId
  MaxHeld = 1
  GuardCap = 2
  FailClosed = TRUE
  IsWrap = FALSE
  StorageFails = TRUE
  MaxDenied = 1
INVARIANTS AnswerMatchesRecord SilenceHasCause
PROPERTIES NothingSentAfterLeaving OneOutcomePerCall HeldCallEnds EndedSessionLeavesNothing
CHECK_DEADLOCK FALSE
