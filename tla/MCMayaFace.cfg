SPECIFICATION MayaSpec
CONSTANTS
  DATA_POINTS = 3
  Amount <- Halves
  LastFrame = 4
  MaxQueue = 2
  MaxRounds = 2
  Face = {Anna, Bert}
INVARIANT
  NeutralIsAFace
