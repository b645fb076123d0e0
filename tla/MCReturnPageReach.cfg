CONSTANTS
  PageSize = 4096
  GlobalPointers <- FittingPointers
  FreeRegions <- Regions
  Displacements <- GpReach
SPECIFICATION Spec
INVARIANT EveryAccessRedirected
