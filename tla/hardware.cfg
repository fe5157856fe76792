SPECIFICATION Spec
CONSTANTS
  NumJoints = 2
  Allowed = {1, 2}
  Outside = {3}
  MaxSteps = 2
INVARIANTS
  RefusedWritesChangeNothing
  HoldsUntilCommanded
  GoodUseNeverFails
CHECK_DEADLOCK FALSE
