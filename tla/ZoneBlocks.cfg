SPECIFICATION ZSpec
CONSTANTS
  Hosts <- MCHosts
  RateNames <- MCRateNames
  Slug <- MCSlug
  Estate <- MCEstate
  Sources <- MCSources
  MaxContribs = 3
  Shape <- MCShape
  Resource <- MCResource
  FitHosts = 2
  Blocks <- MCBlocks
  Values <- MCValues
  Nil = Nil
  MaxBlocks = 3
CHECK_DEADLOCK FALSE
INVARIANTS Partition LoadCatchesTheRest RefusedBeforeWriting

