CONSTANTS
  q1 = q1
  q2 = q2
  e1 = e1
  e2 = e2
  e3 = e3
  h1 = h1
  h2 = h2
  Queues <- MCQueues
  EventSlots <- MCEventSlots
  Handles <- MCHandles
  MaxTasks <- MCMaxTasks
  MaxTxDepth <- MCMaxTxDepth
SPECIFICATION Spec
SYMMETRY MCSymmetry
INVARIANTS
  TypeOK
  DependencyRespected
  NoPhantomCompletion
  StreamInOrder
PROPERTIES
  FinishedMonotonic
