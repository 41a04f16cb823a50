SPECIFICATION Spec
CONSTANTS
  Area = {1}
  MaxFaces = 1
  sample_rate = 1
  LastFrame = 8
INVARIANT
  CapturedThenShown
CHECK_DEADLOCK FALSE
