SPECIFICATION FairSpec
CONSTANTS
  e1 = e1
  e2 = e2
  Edits = {e1, e2}
  HandMade = {{e1}}
  MaxByHand = 1
  WritesLast = FALSE
INVARIANTS EditsStand SeesTheEdit
PROPERTIES NeverBackwards EditTakesHold
