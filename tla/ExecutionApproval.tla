------------------------- MODULE ExecutionApproval -------------------------
(***************************************************************************)
(* The one-time approvals a project needs before its tasks are executed    *)
(* (executor/execution_approval_service.py).  The endpoints run on one     *)
(* event loop, so a request, an approval and a rejection are each one      *)
(* step; the consumption of an approval is done by a loop thread, in two   *)
(* steps, and is found in RunLoop.                                         *)
(***************************************************************************)
EXTENDS Naturals, FiniteSets, FiniteSetsExt

CONSTANTS
  Tasks,         \* ids of development_tasks, in scheduling order
  Projects,
  ProjectOf,     \* the project of a task
  HighRisk,      \* projects whose name or workspace marks them as high risk
  Scopes,        \* bound: the task lists that are asked for
  MaxApprovals   \* bound: approvals requested in a behaviour

ASSUME TasksAssumption ==   \* 0 is no task
  Tasks \subseteq Nat \ {0} /\ IsFiniteSet(Tasks)
ASSUME ProjectOfAssumption == ProjectOf \in [Tasks -> Projects]
ASSUME HighRiskAssumption == HighRisk \subseteq Projects
ASSUME ScopesAssumption == Scopes \subseteq SUBSET Tasks
ASSUME MaxApprovalsAssumption == MaxApprovals \in Nat

VARIABLE approval  \* approval[a]: the row of execution_approvals, a in the order of created_at

ApprovalIds == 1 .. MaxApprovals

(* consumed_by_run_id and consumed_by_task_id are 0 until the row is consumed. *)
NoApproval ==
  [status |-> "none", scope |-> {}, lapsed |-> FALSE, run |-> 0, task |-> 0]

Requested(a) == approval[a].status # "none"

ProjectTasks(p) == {t \in Tasks : ProjectOf[t] = p}

Request(p, scope) ==
  \E a \in ApprovalIds :
    /\ \A b \in ApprovalIds : Requested(b) <=> b < a
    /\ approval' = [approval EXCEPT ![a] =
         [status |-> "pending", project |-> p, scope |-> scope,
          lapsed |-> FALSE, run |-> 0, task |-> 0]]

(* The token names one pending row; only the row's own expiry is looked at. *)
Approve(a) ==
  /\ approval[a].status = "pending" /\ ~approval[a].lapsed
  /\ approval' = [approval EXCEPT ![a].status = "approved"]

Reject(a) ==
  /\ approval[a].status = "pending"
  /\ approval' = [approval EXCEPT ![a].status = "rejected"]

(* The clock passes expired_at.  Nothing rewrites the row: the sweep that
   would set 'expired' has no caller. *)
Lapse(a) ==
  /\ approval[a].status \in {"pending", "approved"} /\ ~approval[a].lapsed
  /\ approval' = [approval EXCEPT ![a].lapsed = TRUE]

ValidApprovals(p) ==
  {a \in ApprovalIds :
     /\ approval[a].status = "approved" /\ ~approval[a].lapsed
     /\ approval[a].project = p}

Newest(S) == Max(S)

(* What consume_approval() makes of its SELECT: the newest valid row, unless
   the row lists tasks and the claimed one is not among them. *)
Consumable(p, t) ==
  {a \in ValidApprovals(p) :
     /\ a = Newest(ValidApprovals(p))
     /\ approval[a].scope = {} \/ t \in approval[a].scope}

(* The conditional UPDATE: no effect on a row that is not 'approved' any more. *)
Consumed(a, r, t) ==
  [approval EXCEPT ![a].status = "consumed", ![a].run = r, ![a].task = t]

(* The gate of a high-risk project: the newest valid approval covers all
   the tasks that would run. *)
CoveredBy(p, S) ==
  /\ ValidApprovals(p) # {}
  /\ S \subseteq approval[Newest(ValidApprovals(p))].scope

=============================================================================
