SPECIFICATION ServerSpec
CONSTANTS
  Moving = {"command line"}
  Object = {t1, t2}
  Client = {c1}
  Nobody = Nobody
  Delay = {1, 2}
  MaxDelay = 2
  LongNap = 3
  Track = 3
  MaxSliderPos = {1, 2}
  js = 2
  BarQueue = 1
  MaxQueue = 2
  Use <- Documented
  MaxUses = 2
INVARIANT
  DescribedLineRuns
