SPECIFICATION Spec
CONSTANTS
  Procs = {p1, p2}
  RunIds = {r1, r2, r3}
  MaxEdits = 2
  MaxAlerts = 5
  None = None
INVARIANTS OnlyOwnRunRuns CompletedIsOneRevision ReadinessStands
PROPERTIES RunOnce
CHECK_DEADLOCK FALSE
SYMMETRY Interchangeable
