CONSTANTS
  HALF = 128
  IMM = 8
  Destinations <- AllDestinations
  InitialRegisters <- SomeRegisters
  BitOr <- OrBits
  BitAnd <- AndBits
  Answers = {0, 12}
SPECIFICATION Spec
INVARIANT JumpsToHook
INVARIANT NothingLost
INVARIANT CallPassedOn
INVARIANT TypeOK
