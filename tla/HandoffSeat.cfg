\* A busy holder hands over to an executor that two racing calls made available.
CONSTANTS
  Tasks = {t1}
  Workers = {w1, w2}
  Assignments = {a1}
  Callers = {c1, c2}
  Reviewers = {r1}
  Handoffs = {h1}
  SeedStates = {"queued"}
  TaskMoves <- MCTaskMoves
  AdminMoves <- MCAdminMoves
SPECIFICATION HandoffSpec
INVARIANT AcceptSeated
CHECK_DEADLOCK FALSE
