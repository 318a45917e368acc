CONSTANTS
  b1 = b1
  b2 = b2
  Blocks <- MCBlocks
  N <- MCN
  MaxFrames <- MCMaxFrames
SPECIFICATION Spec
SYMMETRY MCSymmetry
INVARIANTS
  TypeOK
  NoBarrierDivergence
  NoEnergyCountedTwice
  EnergyComplete
