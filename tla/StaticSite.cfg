SPECIFICATION FairSpec
CONSTANTS
  Dirs = {d1, d2, d3}
  LocalDir = LocalDir
  NoDir = NoDir
  Reqs = {r1}
  Grace = 2
  OpenBound = 1
  ShutdownDelay = 1
  ShutdownMax = 1
  MaxTag = 1
  MaxStarts = 2
INVARIANTS ServedOnDisk NoContentUnavailable NoLostReload NoOrphanCopy
PROPERTIES ImplementsSiteService TermExits
