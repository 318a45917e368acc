CONSTANTS
  Steps <- MCSteps
  LaserOn = TRUE
SPECIFICATION Spec
INVARIANTS
  ConflictsOrdered
