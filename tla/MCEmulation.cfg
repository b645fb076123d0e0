CONSTANTS
  t1 = t1
  t2 = t2
  Threads <- TwoThreads
  Data <- Memory
  ReadOnly <- Constants
  Instructions <- Programs
  MaxPc = 2
  rsi <- Rsi
  InitialContexts <- Contexts
  InitialMemories <- Memories
  OwnHandler = TRUE
SPECIFICATION FairSpec
INVARIANT TypeOK
PROPERTY Transparent
PROPERTY AccessesComplete
