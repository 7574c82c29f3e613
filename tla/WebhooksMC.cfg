CONSTANTS
  Handlers = {h1, h2}
  MaxWorkers = 2
  SubscriberBuf = 1
  QueueSize = 1
  Attempts = 2
  MaxEvents = 2
  MaxOps = 2
  NoHook = NoHook
SPECIFICATION Spec
SYMMETRY HandlerSymmetry
INVARIANTS NoSilentLoss TakenOnceInOrder OneWorkerInCharge RecordAndWorkerAgree NothingRunsAfterStop
CHECK_DEADLOCK FALSE
