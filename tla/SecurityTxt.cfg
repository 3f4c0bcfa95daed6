SPECIFICATION TxtSpec
CONSTANTS
  runA = runA
  runB = runB
  Runs = {runA, runB}
  Zones = {1, 2, 3}
  Account <- MCAccount
  Pending = {3}
  Texts = {"a"}
  Dates = {1, 3, 5}
  MaxAhead = 4
  WarnWithin = 2
  MaxNow = 1
  MaxEdits = 1
SYMMETRY MCSymmetry
CHECK_DEADLOCK FALSE
INVARIANTS DocumentAsReported HeardInTime
