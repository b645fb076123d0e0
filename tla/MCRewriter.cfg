CONSTANTS
  MaxItems = 4
  Margin = 4
  Known <- Instances
  Sections <- MCSections
SPECIFICATION FairSpec
INVARIANT OnlyEcallBytesPatched
INVARIANT ExactlyEcallsPatched
INVARIANT InsideMapping
INVARIANT TypeOK
PROPERTY SweepEnds
