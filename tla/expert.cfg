SPECIFICATION InsertionSpec
CONSTANTS
  MaxGoals = 4
  MaxDisturbances = 2
  Faults <- AllFaults
INVARIANTS
  OneGoalAtATime
  DisarmedIsQuiet
  FramesWereAccepted
PROPERTIES
  InsertionEnds
CHECK_DEADLOCK FALSE
