SPECIFICATION Spec
CONSTANTS
  NumSpecs = 2
  MaxRuns = 1
  RevisionOf <- SecondDiffers
  Faults <- NoFaults
INVARIANTS
  CollectedIsSupported
CHECK_DEADLOCK FALSE
