----------------------------- MODULE TaskStates -----------------------------
(***************************************************************************)
(* The static tables of backend/app/supervisor/state_machine.py: the       *)
(* fourteen states of a development task, the terminal ones, the           *)
(* transition graph and the roles that may write a state.                  *)
(***************************************************************************)
EXTENDS Naturals

ALL_STATES == {"draft", "planned", "approved", "queued", "claimed", "running",
               "result_submitted", "reviewing", "verified", "rework",
               "blocked", "need_user", "failed", "cancelled"}

TERMINAL_STATES == {"verified", "failed", "cancelled"}

(* Edges of the graph.  The entries of the terminal states are left out:   *)
(* transition() refuses a terminal source before it looks at the graph, so *)
(* the FAILED row of the table can never be used.                          *)
TRANSITION_GRAPH ==
  {"draft"}            \X {"planned", "cancelled"} \cup
  {"planned"}          \X {"approved", "draft", "cancelled"} \cup
  {"approved"}         \X {"queued", "cancelled"} \cup
  {"queued"}           \X {"claimed", "cancelled"} \cup
  {"claimed"}          \X {"running", "queued", "cancelled"} \cup
  {"running"}          \X {"result_submitted", "failed", "cancelled", "blocked"} \cup
  {"result_submitted"} \X {"reviewing", "cancelled"} \cup
  {"reviewing"}        \X {"verified", "rework", "blocked", "need_user", "cancelled"} \cup
  {"rework"}           \X {"queued", "cancelled"} \cup
  {"blocked"}          \X {"queued", "cancelled"} \cup
  {"need_user"}        \X {"approved", "cancelled", "rework"}

(* Who may write which state through transition().                         *)
ACTOR_WRITEABLE_STATES ==
  {"system"}     \X {"failed", "cancelled", "blocked"} \cup
  {"supervisor"} \X {"planned", "approved", "queued", "claimed", "running", "reviewing"} \cup
  {"worker"}     \X {"result_submitted"} \cup
  {"reviewer"}   \X {"verified", "rework", "blocked", "need_user"} \cup
  {"user"}       \X {"approved", "cancelled", "need_user"}

(* A row of development_tasks: status and state_version.                   *)
TaskRow == [status : ALL_STATES, version : Nat \ {0}]

(* A row after its state is set to s: every write of a state increments    *)
(* the version.                                                            *)
MovedUnversioned(row, s) == [row EXCEPT !.status = s]
Moved(row, s) == [status |-> s, version |-> row.version + 1]
=============================================================================
