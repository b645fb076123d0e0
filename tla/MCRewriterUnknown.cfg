CONSTANTS
  MaxItems = 2
  Margin = 4
  Known <- Instances
  Sections <- MCSections
SPECIFICATION Spec
INVARIANT AllEcallsRewritten
