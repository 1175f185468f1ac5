CONSTANTS
  Tasks = {t1}
  Workers = {w1}
  Assignments = {a1, a2}
  Callers = {c1, c2}
  Reviewers = {r1, r2}
  SeedStates = {"queued"}
  TaskMoves <- MCTaskMoves
  AdminMoves <- MCAdminMoves
SYMMETRY Symmetry
SPECIFICATION ReviewSpec
INVARIANTS ReviewTypeOK VerdictOnLatest ReviewExclusive
PROPERTIES VerdictFinal ControlPlaneSpec
CHECK_DEADLOCK FALSE
