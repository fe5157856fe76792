SPECIFICATION Spec
CONSTANTS
  MaxAttempts = 3
  MaxFrames = 2
  p1 = p1
  p2 = p2
  Paths = {p1, p2}
  PathOf <- SharedPaths
  HasReason <- Reasons
  Faults <- AllFaults
INVARIANTS
  SavedMeansInDataset
  SavedSummaryIsRecoverable
  RetryKeepsDecision
PROPERTIES
  KeepsTheLedger
CHECK_DEADLOCK FALSE
