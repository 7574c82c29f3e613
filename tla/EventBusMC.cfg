CONSTANTS
  Producers = {p1}
  PublishBuf = 2
  SubscriberBuf = 1
  MaxRecords = 2
  MaxAge = 1
  MaxPerSweep = 2
  MaxEvents = 3
  MaxSubs = 1
  MaxClock = 2
SPECIFICATION FairSpec
INVARIANTS SubscriberGapFree LogSound
PROPERTIES BusIsJournal BusProgresses
