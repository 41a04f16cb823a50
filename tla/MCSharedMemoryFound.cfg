SPECIFICATION Spec
CONSTANTS
  Server = {s1, s2}
  Device = {d1}
INVARIANT
  RunningServerIsFound
CHECK_DEADLOCK FALSE
