SPECIFICATION BenchmarkSpec
CONSTANTS
  EpisodeCount = 4
  FailureCategories <- MCCategories
  MaxRuns = 2
INVARIANTS
  ArtifactIsOneRun
  FinishedEpisodesAreKept
CHECK_DEADLOCK FALSE
