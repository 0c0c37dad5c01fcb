SPECIFICATION Spec
CONSTANTS
  Detectors <- VLDetectors
  Op <- VLOp
  Requires <- VLRequires
  Threshold <- VLThreshold
  FromBaseline <- VLBaseline
  Counts <- MCCounts
  DumpAt <- MCDumpAt
  MaxInt = 9
  Summons = 1
  Blocks = 1
  Segment = 2
  None = None
  Missing = Missing
  Nodes = 2
  MaxSteps = 2
INVARIANT LateLoadIsHarmless
CHECK_DEADLOCK FALSE
