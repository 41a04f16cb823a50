SPECIFICATION FairSpec
CONSTANTS
  Field = {num, pts}
  LastFrame = 5
  Device = {d1}
  PoolSize = 2
  NoDevice = NoDevice
INVARIANTS
  SegmentHoldsAPair
  CopyIsRegular
  BuffersAccounted
  
PROPERTIES
  WriterIsARegister
  OutputNeverGoesBack
  LastPairShown
  ShutdownHonoured
