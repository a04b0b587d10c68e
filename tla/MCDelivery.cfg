SPECIFICATION FairSpec
CONSTANTS
  c1 = c1
  c2 = c2
  c3 = c3
  u1 = u1
  s1 = s1
  s2 = s2
  Calls = {c1, c2, c3}
  Uses = {u1}
  UseOf <- OneUse
  Sessions = {s1, s2}
  SessionOf <- TwoSessions
  MaxJoins = 1
  MaxTracked = 1
INVARIANTS RunsOnce
PROPERTIES ResultStands ResendsEnd
CHECK_DEADLOCK FALSE
