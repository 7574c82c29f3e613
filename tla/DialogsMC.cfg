CONSTANTS
  Kinds <- AllDialogs
  Objects = {a, b}
  NoObject = none
  Slots = {1, 2}
  MaxSteps = 6
SPECIFICATION Spec
INVARIANTS UntouchedNotSent TypedIsSent OneSubmission NothingLeftBehind
CHECK_DEADLOCK FALSE
