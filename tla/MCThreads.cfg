SPECIFICATION ThreadsSpec
CONSTANTS
  Thread = {t1, t2, t3}
  NoThread = NoThread
  MaxDepth = 2
  MaxCalls = 4
  Job = {j1, j2, j3}
  Worker = {w1, w2, w3}
  MainThread = MainThread
  Object = {o1}
  Client = {c1, c2}
  Nobody = Nobody
  Widget = {d1, d2}
  Pool = {p1, p2}
  MaxPosts = 2
  MaxFailures = 1
  Win = Win
  Popup = {Settings}
  MaxEvents = 2
INVARIANTS
  NobodySleepsOn
  SlotHasATaker
  RestartRuns
  OneThreadForTheQueue
  InOrder
  WindowHearsWhileBuilt
PROPERTIES
  NoneAfterDestruction
  IsRecursiveLock
  AcceptedRuns
  StopEnds
  EventsAreTaken
  ServerEnds
