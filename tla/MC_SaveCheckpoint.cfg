CONSTANTS
  SaveBarrier = TRUE
  WritesMayFail = TRUE
  MayRunOut = TRUE
  ServerMayDie = TRUE
  Attempts = 3
SPECIFICATION SaveSpec
INVARIANTS
  SaveTypeOK
  CheckpointIsOneMoment
PROPERTIES
  SidecarIsLast
  CheckpointEnds
CHECK_DEADLOCK FALSE
