CONSTANTS
  Tasks = {t1, t2}
  Workers = {w1, w2}
  Assignments = {a1, a2}
  Callers = {c1, c2}
  SeedStates = {"queued"}
  TaskMoves <- MCTaskMoves
  AdminMoves <- MCAdminMoves
SYMMETRY Symmetry
SPECIFICATION Spec
INVARIANTS TypeOK OneActivePerTask TaskHeld SnapshotSound
PROPERTIES LiveLeaseKept ResultFenced LifecycleSpec
CHECK_DEADLOCK FALSE
