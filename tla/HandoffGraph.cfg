\* One executor whose result comes back for rework takes it up again.
CONSTANTS
  Tasks = {t1}
  Workers = {w1}
  Assignments = {a1, a2}
  Callers = {c1}
  Reviewers = {r1}
  Handoffs = {h1}
  SeedStates = {"queued"}
  TaskMoves <- MCTaskMoves
  AdminMoves <- MCAdminMoves
SPECIFICATION HandoffSpec
PROPERTY LifecycleSpec
CHECK_DEADLOCK FALSE
