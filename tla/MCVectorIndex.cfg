CONSTANTS
  Dim <- MCDim
  MaxExtent <- MCMaxExtent
SPECIFICATION Spec
INVARIANTS
  LinearizeMatchesAlpaka
  LinearizeDense
  DotMatchesReference
