CONSTANTS
  s1 = s1
  s2 = s2
  Dim <- MCDim
  Species <- MCSpecies
  MaxMargin <- MCMaxMargin
SPECIFICATION Spec
INVARIANTS
  TypeOK
