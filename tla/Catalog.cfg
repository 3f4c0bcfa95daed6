SPECIFICATION Spec
CONSTANTS
  Arrival <- MCArrival
  Shapes <- MCShapes
  Clusters = {"c1", "c2"}
  Names = {"p1", "g"}
  Projects = {"p1", "p2"}
  Hosts <- MCHosts
  Wildcards = {"*.x"}
  Slug <- MCSlug
  GroupRows <- MCGroupRows
  EndpointRows <- MCEndpointRows
  PlatformConsumers <- MCPlatformConsumers
  Labelled = {"p1", "p2", "install"}
  WildcardNamespaces = {"install"}
  ReservedExposure = "shared"
  MaxGroups = 2
  MaxEndpoints = 2
INVARIANTS CatalogIsWhole NameIsOwn MovesTogether
