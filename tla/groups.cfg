SPECIFICATION GroupsSpec
CONSTANTS
  s1 = s1
  s2 = s2
  p1 = p1
  p2 = p2
  None = None
  Indices <- FourEpisodes
  Scenarios = {s1, s2}
  Starts = {p1, p2}
INVARIANTS
  GroupsAreComponents
CHECK_DEADLOCK FALSE
