CONSTANTS
  Due = {2, 3, 5}
  MaxCatchUp = 2
  QueueSize = 1
  MaxClock = 5
  MaxCrashes = 2
SPECIFICATION FairSpec
INVARIANT NoSilentLoss
PROPERTIES MissedFiresExact CursorStopsRepeats DueIsDispatched
CHECK_DEADLOCK FALSE
