CONSTANTS
  IDs = {v1, v2}
  Names = {n1, n2}
  Addrs = {a1, a2}
  Requests = {r1, r2}
  NoID = noID
  NoName = noName
  NoIP = noIP
  MaxVMs = 2
  MaxCreates = 2
  MaxOps = 2
  MaxCrashes = 0
SPECIFICATION Spec
SYMMETRY VMSymmetry
INVARIANT OnlyOrphansReaped
CHECK_DEADLOCK FALSE
