SPECIFICATION NodeSpec
CONSTANTS
  PollPeriod = 1
  WrenchTimeout = 1
  FeedbackTimeout = 1
  VerifyTimeout = 2
  RequestInterval = 1
  MaxAge = 1
  MinStationary = 2
  Horizon = 6
  MaxSamples = 4
INVARIANTS
  MotionIsSupervised
  ContactStops
  ReadyMeansSustained
PROPERTIES
  AsksForEver
CHECK_DEADLOCK FALSE
