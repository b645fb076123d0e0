CONSTANTS
  PageSize = 4096
  GlobalPointers <- AllPointers
  FreeRegions <- Regions
  Displacements <- GpReach
SPECIFICATION Spec
INVARIANT ReturnSequenceInReservedPages
