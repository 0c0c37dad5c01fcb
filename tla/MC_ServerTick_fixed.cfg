SPECIFICATION Spec
CONSTANTS
  Levels <- MCLevels
  LevelOf <- MCLevelOf
  Priority <- MCPriority
  Steps <- MCSteps
  Commands <- MCCommands
  Chunks = {1, 2, 3}
  Resave = 9
  EagerCap = 1
  Unreadable = {}
  Asks = {2}
  AutosaveTicks = 2
  MaxValue = 9
  MaxRounds = 2
  MaxPolls = 2
  Starts = {1, 2}
  MaxTicks = 3
  MaxCommands = 2
INVARIANT InterleavingIsFixed
CHECK_DEADLOCK FALSE
