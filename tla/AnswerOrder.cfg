SPECIFICATION Spec
CONSTANTS
  i1 = i1
  i2 = i2
  o1 = o1
  o2 = o2
  None = None
  Instances <- TwoInstances
  Objects <- TwoObjects
  MaxRequests = 2
  MaxResults = 3
  MaxMoves = 2
INVARIANTS
  TypeOK
  LastAnswerIsNewest
  NoneLeftOut
PROPERTIES
  NobodyForgotten
CHECK_DEADLOCK FALSE
