SPECIFICATION Spec
CONSTANTS
  Area = {1, 2}
  MaxFaces = 2
  sample_rate = 2
  LastFrame = 11
INVARIANTS
  PublishedPoints
  FittedToLargest
  QuietIteration
CHECK_DEADLOCK FALSE
