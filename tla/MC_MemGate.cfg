CONSTANTS
  Launcher = {search, run, script}
  Patient = {search, run}
  None = None
  Total = 3
  Reserve = 1
  Cap = 2
  Patience = 1
  MaxRetries = 1
SPECIFICATION Spec
INVARIANTS
  TypeOK
  GrantsFitTheHost
PROPERTY EveryoneIsAnswered
