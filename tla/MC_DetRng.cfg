CONSTANTS
  Seed <- MCSeed
  Xor <- MCXor
  ZeroSeed = 0
  WorldSeed = 1
  None = None
  ReadErrors = TRUE
  MaxIssued = 1
  MaxOrdinal = 2
  MaxLives = 2
SPECIFICATION Spec
INVARIANTS
  TypeOK
  StreamNamed
  EntitySeedsFresh
CHECK_DEADLOCK FALSE
PROPERTY ContinuesTheStream
