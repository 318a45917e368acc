CONSTANTS
  r0 = r0
  r1 = r1
  NoFile = NoFile
  Ranks <- MCRanks
  Root = r0
  Freq <- MCFreq
  MaxStep <- MCMaxStep
  MaxCrashes <- MCMaxCrashes
SPECIFICATION Spec
INVARIANTS
  LinesExact
  FileInOrder
