SPECIFICATION SSpec
CONSTANTS
  Names <- MCNames
  HostSet <- MCHostsOut
  Groups <- MCGroups
  Listed <- MCListed
  Clusters <- MCClusters
  Business <- MCBusiness
  Registries <- MCRegistries
  MaxClaims = 4
  NameOf <- MCNameOf
  FitHosts = 3
  CompanyOf <- MCCompanies
  Deployed <- MCDeployed
  DeployedHosts <- MCDeployedHosts
  Starts <- MCStarts
  Founded <- MCFounded
  MaxEdits = 1
  MaxUps = 3
  MaxAtOnce = 2
INVARIANTS MostSpecificRule RightTunnel WafCoversWhatIsServed
INVARIANTS NeverDenied NeverHalfDone PresetsStayInside ClashIsLeftover AppliedMatches
PROPERTY ProtectedFirst
CHECK_DEADLOCK FALSE
