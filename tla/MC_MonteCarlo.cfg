SPECIFICATION Spec
CONSTANTS
  N = 3
  BASE = 1
  Loose = 4
  Villager = TRUE
  Haunts <- MCHaunts
  Roofed = TRUE
  Shapes <- MCShapes
  Scanned = {1, 2}
  MaxFormed = 2
INVARIANTS TypeOK GroundIsWhole SimAndPackAgree ScoreReachesTheEvent
PROPERTY TrapsCountedOnce
