SPECIFICATION Spec
CONSTANTS
  Server = {s1, s2, s3, s4}
  Device = {d1}
SYMMETRY ServerSymmetry
INVARIANTS
  TypeOK
  StoresFit
  NothingLeftBehind
  RestartTakesOver
PROPERTY
  FaultsOnlyHalfMade
CHECK_DEADLOCK FALSE
