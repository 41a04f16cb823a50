SPECIFICATION WriterSpec
CONSTANTS
  Field = {num, p0}
  LastFrame = 10
INVARIANT
  SavedBeforeStored
CHECK_DEADLOCK FALSE
