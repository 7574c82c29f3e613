CONSTANTS
  Schedules = {s1, s2}
  NoSchedule = none
  Workers = {w1}
  Callers = {c1}
  Catchers = {}
  Handlers = {h1}
  QueueSize = 1
  MaxRetries = 0
  MaxTargets = 0
  MaxMissed = 0
  ConcValues = {1}
  MaxVer = 1
  MaxSems = 3
  MaxFires = 2
SPECIFICATION Spec
SYMMETRY ScheduleSymmetry
INVARIANTS SemaphoreExact SchedulesIsolated LastWriteCounts
CHECK_DEADLOCK FALSE
