CONSTANTS
  Debug = TRUE
  DlsymCalls = FALSE
  NMaps = 3
SPECIFICATION FairSpec
INVARIANT TypeOK
INVARIANT NoCallAstray
INVARIANT MainRunsPrepared
PROPERTY StartEnds
