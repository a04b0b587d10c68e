SPECIFICATION FairBridgeSpec
CONSTANTS
  c1 = c1
  c2 = c2
  u1 = u1
  s1 = s1
  Calls = {c1, c2}
  Uses = {u1}
  UseOf <- OneUse
  Sessions = {s1}
  SessionOf <- OneSession
  MaxJoins = 1
  MaxTracked = 1
  Attempts <- TwoAttempts
INVARIANTS ClientHearsOnce CancelNamesLiveAttempt
PROPERTIES NoRetryAfterCancel ClientIsAnswered
CHECK_DEADLOCK FALSE
