CONSTANTS
  MaxFaults = 3
  MaxEvents = 3
  ReplayLimit = 1
  FallbackAfter = 2
  PollPage = 1
  Polls = {1}
  VMs = {a, b}
  NoVM = noVM
  StatsFallbackAfter = 2
  Fetches = {1, 2}
  Tabs = {vnc, serial}
  NoTab = noTab
  Runs = {1, 2}
  Keys = {k1, k2}
  NoKey = noKey
  Calls = {1, 2}
SPECIFICATION Spec
INVARIANTS BehindGate CursorWasShown StatsOfShownVM ConsoleIsOfItsTab
PROPERTIES HooksAreFeeds LivePagesRecover AuthRecovers
CHECK_DEADLOCK FALSE
