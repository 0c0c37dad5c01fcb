SPECIFICATION Spec
CONSTANTS
  Detectors <- MCDetectors
  Op <- MCOp
  Requires <- MCRequires
  Threshold <- MCThreshold
  FromBaseline <- MCBaseline
  Counts <- MCCounts
  DumpAt <- MCDumpAt
  MaxInt = 9
  Summons = 1
  Blocks = 1
  Segment = 2
  None = None
  Missing = Missing
  Nodes = 2
  MaxSteps = 2
INVARIANTS TypeOK HitsAreTrue SegmentStartsRight LostToFaultsOnly
PROPERTIES TicksAreWatched NodeEnds
CHECK_DEADLOCK FALSE
