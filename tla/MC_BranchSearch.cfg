CONSTANTS
  Replicas = 3
  Generations = 3
  KeepTop = 2
  Children = 1
  Concurrency = 2
  Ranks <- MCRanks
  NewObjective = FALSE
  None = None
  MaxResumes = 1
  MaxFailures = 3
SPECIFICATION Spec
INVARIANTS
  TypeOK
  LineageFaithful
  ReseedsSurvive
  BeamIsWhole
PROPERTIES
  CarriesTheBeam
CHECK_DEADLOCK FALSE
