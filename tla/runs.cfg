SPECIFICATION FairSpec
CONSTANTS
  NEpisodes = 3
  DomainPool = 2
INVARIANTS
  SuccessLeavesNothing
  LostRecorderIsReported
  StrangersWereReported
PROPERTIES
  EveryEpisodeEnds
CHECK_DEADLOCK FALSE
