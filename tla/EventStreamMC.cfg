CONSTANTS
  Producers = {p1}
  Clients = {c1}
  PublishBuf = 1
  SubscriberBuf = 1
  MaxRecords = 1
  MaxAge = 0
  MaxPerSweep = 2
  MaxEvents = 3
  MaxSubs = 2
  MaxClock = 1
  ReplayLimit = 1
SPECIFICATION StreamSpec
INVARIANTS StreamInOrder SkipsAreExplained

