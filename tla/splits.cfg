SPECIFICATION SplitsSpec
CONSTANTS
  g1 = g1
  g2 = g2
  g3 = g3
  g4 = g4
  Files <- SixFiles
  IdOf <- SixIds
  KindOf <- SixKinds
  Groups = {g1, g2, g3, g4}
SYMMETRY GroupSymmetry
INVARIANTS
  SplitsPartition
PROPERTIES
  SuccessMeansCurrent
CHECK_DEADLOCK FALSE
