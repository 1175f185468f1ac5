--------------------------- MODULE TaskLifecycle ---------------------------
(***************************************************************************)
(* The development task as the V2 state machine promises it                *)
(* (backend/app/supervisor/state_machine.py): fourteen states, a           *)
(* transition graph, three terminal states, and a state_version that every *)
(* change of state increments.  This is the abstract specification: it     *)
(* knows nothing of workers, leases or calls in flight.  ControlPlane is   *)
(* shown to implement it.                                                  *)
(***************************************************************************)
EXTENDS TaskStates

CONSTANT
  Tasks,       \* rows of development_tasks
  SeedStates   \* the states a task may be created in

VARIABLE task  \* task[t] is the row's status and state_version

Init == task \in [Tasks -> [status : SeedStates, version : {1}]]

Move(t, s) ==
  /\ <<task[t].status, s>> \in TRANSITION_GRAPH
  /\ task' = [task EXCEPT ![t] = Moved(task[t], s)]

Next == \E t \in Tasks, s \in ALL_STATES : Move(t, s)

Spec == Init /\ [][Next]_task
=============================================================================
