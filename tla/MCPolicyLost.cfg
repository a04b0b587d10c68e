SPECIFICATION FileSpec
CONSTANTS
  e1 = e1
  e2 = e2
  Edits = {e1, e2}
  HandMade = {{e1}}
  MaxByHand = 0
  WritesLast = FALSE
INVARIANTS NoLostEdit
CHECK_DEADLOCK FALSE
