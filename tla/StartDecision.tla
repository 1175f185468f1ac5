--------------------------- MODULE StartDecision ---------------------------
(***************************************************************************)
(* What may be done with a project (executor/start_decision.py): the run   *)
(* loop and the planner both ask before they begin.  An audit says what is *)
(* found in the tables; the first ground that holds decides.               *)
(***************************************************************************)

Audit ==
  [active    : BOOLEAN,    \* a run of the project is active
   unsafe    : BOOLEAN,    \* the workspace is forbidden, no repository or not clean
   highRisk  : BOOLEAN,    \* the name of the project marks it
   enabled   : BOOLEAN,    \* the configuration lets it be executed
   covered   : BOOLEAN,    \* an approval covers all that is runnable
   runnable  : BOOLEAN,    \* a task is ready, unleased, and waits for nothing
   planning  : BOOLEAN,    \* a pending task needs planning
   bound     : BOOLEAN,    \* the workspace exists
   pending   : BOOLEAN,
   completed : BOOLEAN]

Decide(audit) ==
  IF audit.active THEN "ALREADY_RUNNING"
  ELSE IF audit.unsafe THEN "BLOCK_UNSAFE"
  ELSE IF audit.highRisk /\ audit.enabled /\ ~audit.covered THEN "REQUEST_APPROVAL"
  ELSE IF audit.runnable THEN "EXECUTE_READY_TASKS"
  ELSE IF audit.planning THEN "PLAN_EXISTING_TASKS"
  ELSE IF audit.enabled /\ ~audit.bound THEN "BIND_WORKSPACE"
  ELSE IF audit.pending THEN "WAIT_DEPENDENCIES"
  ELSE IF audit.completed THEN "PROJECT_COMPLETED"
  ELSE "GENERATE_TASKS"
=============================================================================
