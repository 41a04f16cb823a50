SPECIFICATION ServerSpec
CONSTANTS
  Moving = {"timer", "scroll bar", "menu bar", "command line"}
  Object = {t1, t2}
  Client = {c1}
  Nobody = Nobody
  Delay = {1, 2}
  MaxDelay = 2
  LongNap = 3
  Track = 2
  MaxSliderPos = {1, 2}
  js = 2
  BarQueue = 1
  MaxQueue = 2
  Use <- Documented
  MaxUses = 3
SYMMETRY TimerSymmetry
INVARIANTS
  NapInTime
  NeverForgotten
  StoppedIsQuiet
  UsageObeyed
  SliderInRange
  
PROPERTY
  OpensUnselected
