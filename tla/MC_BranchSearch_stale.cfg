CONSTANTS
  Replicas = 2
  Generations = 3
  KeepTop = 2
  Children = 1
  Concurrency = 1
  Ranks <- MCTies
  NewObjective = FALSE
  None = None
  MaxResumes = 2
  MaxFailures = 2
SPECIFICATION Spec
INVARIANT LineageFaithful
CHECK_DEADLOCK FALSE
