SPECIFICATION FairSpec
CONSTANTS
  a1 = a1
  a2 = a2
  b1 = b1
  old = old
  s1 = s1
  s2 = s2
  s3 = s3
  p1 = p1
  p2 = p2
  Records = {a1, a2, b1, old}
  Stamp <- Stamps
  Cutoffs = {2}
  Processes = {p1, p2}
  PreChain <- OneOld
  BatchMax = 2
  Sinks = {s1, s2, s3}
  HostOf <- Hosts
  SinkOf <- SinkOfRecord
INVARIANTS ChainVerifies SettledIsTrue LinkedInCallOrder
PROPERTIES HistoryOnlyGrows EverythingSettles
CHECK_DEADLOCK FALSE
