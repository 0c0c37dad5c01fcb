CONSTANTS
  Thread = {server, worker}
  Task = {a, b, c, d}
  None = None
SPECIFICATION Spec
INVARIANTS
  TypeOK
  TrampolineHolds
PROPERTY RunsInSubmissionOrder
