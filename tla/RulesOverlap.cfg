SPECIFICATION ZSpec
CONSTANTS
  Hosts <- MCHosts
  RateNames <- MCRateNames
  Slug <- MCSlug
  Estate <- MCNoEstate
  Sources <- MCSources
  MaxContribs = 2
  Shape <- MCShape
  Resource <- MCResource
  FitHosts = 2
  Blocks <- MCBlocks
  Values <- MCValues
  Nil = Nil
  MaxBlocks = 0
CHECK_DEADLOCK FALSE
INVARIANT AlwaysPartition
