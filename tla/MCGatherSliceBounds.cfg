CONSTANTS
  K <- MCK
  MaxInits <- MCTwoInits
  Size <- MCSize
  SimSize <- MCSimSize
  MaxGathers <- MCTwoGathers
  Garbage = Garbage
SPECIFICATION Spec
CHECK_DEADLOCK FALSE
INVARIANT
  GroupRanksInBounds
