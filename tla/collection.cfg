SPECIFICATION FairSpec
CONSTANTS
  NumSpecs = 2
  MaxRuns = 3
  RevisionOf <- SecondDiffers
  Faults <- AllFaults
INVARIANTS
  SuccessIsBacked
  FramesAreOwn
  SummaryIsTrue
PROPERTIES
  BatchEnds
CHECK_DEADLOCK FALSE
