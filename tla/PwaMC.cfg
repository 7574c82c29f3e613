CONSTANTS
  Windows = {w1, w2}
  MaxBuild = 3
  MaxClicks = 8
SPECIFICATION PwaSpec
INVARIANTS ShellAvailable ReloadsAccepted OfferIsReal
CHECK_DEADLOCK FALSE
