CONSTANTS
  Schedules = {s1}
  NoSchedule = none
  Workers = {w1, w2}
  Callers = {}
  Catchers = {k1}
  Handlers = {h1}
  QueueSize = 2
  MaxRetries = 1
  MaxTargets = 1
  MaxMissed = 1
  ConcValues = {0}
  MaxVer = 0
  MaxSems = 2
  MaxFires = 1
SPECIFICATION FairSpec
INVARIANT StopDrains
PROPERTY FiresProgress
CHECK_DEADLOCK FALSE
