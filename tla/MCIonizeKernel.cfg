CONSTANTS
  N <- MCN
  MaxIonFrames <- MCMaxIonFrames
  MaxNewElectrons <- MCMaxNewElectrons
SPECIFICATION Spec
INVARIANTS
  TypeOK
  NoBarrierDivergence
  ElectronSlotsExclusive
  ElectronWritesInBounds
  AllRequestedCreated
  ElectronFramesPacked
