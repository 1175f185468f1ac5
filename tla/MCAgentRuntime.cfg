SPECIFICATION AgentSpec

CONSTANTS
  t1 = t1
  w1 = w1
  a1 = a1
  a2 = a2
  h1 = h1
  h2 = h2
  s1 = s1
  p1 = p1
  p2 = p2
  k1 = k1
  None = None
  Tasks = {t1}
  Workers = {w1}
  Assignments = {a1, a2}
  Callers = {h1, h2, s1}
  Supervisors = {s1}
  Procs = {p1, p2}
  Keys = {k1}
  Me = w1
  Mine = t1
  SeedStates = {"queued"}
  TaskMoves <- MCTaskMoves
  AdminMoves <- MCAdminMoves
  MaxTries = 1
  MaxLaunches = 3

INVARIANT OneHolder
INVARIANT ReportedIsStored
INVARIANT ToldIsDone
SYMMETRY MCSymmetry
CHECK_DEADLOCK FALSE
