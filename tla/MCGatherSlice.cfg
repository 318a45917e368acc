CONSTANTS
  K <- MCSevenRanks
  MaxInits <- MCOneInit
  Size <- MCSize
  SimSize <- MCSimSize
  MaxGathers <- MCTwoGathers
  Garbage = Garbage
SPECIFICATION Spec
CHECK_DEADLOCK FALSE
INVARIANTS
  TypeOK
  ExactlyOneMaster
  ImageExact
