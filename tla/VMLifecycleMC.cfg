CONSTANTS
  IDs = {v1, v2, v3}
  Names = {n1, n2}
  Addrs = {a1, a2}
  Requests = {r1, r2}
  NoID = noID
  NoName = noName
  NoIP = noIP
  MaxVMs = 2
  MaxCreates = 1
  MaxOps = 3
  MaxCrashes = 1
SPECIFICATION Spec
SYMMETRY VMSymmetry
INVARIANTS RecordBacked ResourcesOwned QuotaOvershootBounded
CHECK_DEADLOCK FALSE
