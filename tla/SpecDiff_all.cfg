SPECIFICATION Spec
CONSTANTS
  Ids = {1, 2, 3}
  Keys = {1, 2, 3, 4}
  Empty = 1
  Methods <- FewMethods
  MaxAdded = 6
INVARIANTS DiffIsRight CountsAreRight
PROPERTIES ComparingEnds
\* A comparison that is over makes no more steps.
CHECK_DEADLOCK FALSE
