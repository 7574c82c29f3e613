CONSTANTS
  PageNames <- AllPages
  Items = {1, 2}
  PerPages = {1, 2}
  DefaultPerPage = 1
  Slots = {1, 2}
  MaxEvents = 2
SPECIFICATION FairSpec
INVARIANT SelectionVisible
PROPERTY Converges
CHECK_DEADLOCK FALSE
