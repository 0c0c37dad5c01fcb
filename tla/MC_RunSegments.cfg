CONSTANTS
  Replica = {a, b}
  Detector = {pillar}
  Ticks = 3
  Interval = 2
  Schedule <- MCSchedule
  StopOnHit = "any"
  Keep = FALSE
  None = None
SPECIFICATION Spec
INVARIANTS
  TypeOK
  InStep
  ReportIsComplete
PROPERTY RunEnds
