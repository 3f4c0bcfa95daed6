SPECIFICATION Spec
CONSTANTS
  Pems = {pem1, pem2}
  Appliers = {ci, admin}
  Others = {tenant}
  MaxEdits = 1
  MaxRuns = 2
  MaxPuts = 2
  Absent = Absent
  Gone = Gone
  None = None
SYMMETRY Symmetry
INVARIANTS TruststoreIsOurs NotLockedOut Applied
CHECK_DEADLOCK FALSE
