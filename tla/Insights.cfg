SPECIFICATION Spec
CONSTANTS
  a = a
  b = b
  c = c
  d = d
  e = e
  Ids = {a, b, c, d, e}
  First <- MCFirst
  IdArgs <- MCIdArgs
  PerPage = 2
  MaxPages = 2
  MaxRuns = 2
  MaxChanges = 2
INVARIANTS ArrivalsHideNothing ReportIsTruth QuietRunFinishes
CHECK_DEADLOCK FALSE
