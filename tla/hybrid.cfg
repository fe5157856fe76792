SPECIFICATION FairSpec
CONSTANTS
  MaxGoals = 3
  Faults <- AllFaults
INVARIANTS
  NoContention
  CompleteMeansDemonstrated
  NoLostStatus
PROPERTIES
  ControlKept
  StartedEnds
CHECK_DEADLOCK FALSE
