CONSTANTS
  Tasks = {t1}
  Workers = {w1, w2}
  Assignments = {a1, a2}
  Callers = {c1, c2}
  Reviewers = {r1}
  Handoffs = {h1, h2}
  SeedStates = {"queued"}
  TaskMoves <- MCTaskMoves
  AdminMoves <- MCAdminMoves
SYMMETRY Symmetry
CONSTRAINT ReworkOnly
SPECIFICATION MCSpec
INVARIANTS HandoffTypeOK OneActivePerTask OnePendingHandoff HandedOverOnce
PROPERTIES HandoffFinal ResultFenced RunningTaskKept
CHECK_DEADLOCK FALSE
