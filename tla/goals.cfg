SPECIFICATION FairSpec
CONSTANTS
  MaxRequests = 3
  Faults <- AllFaults
INVARIANTS
  SettledIsQuiet
  OneGoalAtATime
  FramesWereAccepted
  NoOrphanGoal
  EveryAnswerIsExpected
PROPERTIES
  ReviewSettles
  DeadmanHalts
CHECK_DEADLOCK FALSE
