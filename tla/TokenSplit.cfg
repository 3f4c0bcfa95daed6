SPECIFICATION Spec
CONSTANTS
  Accounts = {"a", "b"}
  Zones = {"z1", "z2"}
  Buckets = {1}
  Labels = {"x", "y", "b d"}
  BadLabels = {"b d"}
  Starts <- MCStarts
  MaxEdits = 1
  MaxUps <- MCUps
  MaxFailures = 1
  MaxIds = 7
CHECK_DEADLOCK FALSE
INVARIANTS StoredAlive ReadIsOwn Settled ReachesItsZones
