---------------------------- MODULE ControlPlane ----------------------------
(***************************************************************************)
(* The core of the V2 control plane (backend/app/supervisor): executors    *)
(* claim queued tasks under a lease, renew the lease, submit a result, or  *)
(* lose the lease to recovery, while operators move tasks and workers from *)
(* one status to another.                                                  *)
(*                                                                         *)
(* Every service call opens its own SQLite connection, reads what it needs *)
(* outside any transaction, returns early when a check fails, and then     *)
(* runs one BEGIN IMMEDIATE transaction that re-checks part of what was    *)
(* read.  A call is therefore two actions: Begin... takes the reads,       *)
(* Commit... is the transaction, and any number of other calls commit in   *)
(* between.  Abandon is every way a call ends without a trace: an error    *)
(* return, a rollback, an IntegrityError, the death of the process.        *)
(*                                                                         *)
(* The clock is abstracted to one bit of each assignment: lapsed says that *)
(* lease_expires_at is in the past.                                        *)
(***************************************************************************)
EXTENDS TaskStates

CONSTANTS
  Tasks,         \* rows of development_tasks
  Workers,       \* agents of worker_type 'executor'
  Assignments,   \* the rows task_assignments may come to hold (a bound)
  Callers,       \* connections that may have a call in flight (a bound)
  SeedStates,    \* the states tasks are created in
  TaskMoves,     \* the <<actor, target>> pairs transition() is called with
  AdminMoves     \* the <<from, to>> status changes operators ask for

VARIABLES
  task,          \* task[t]: the row of t, status and state_version
  asg,           \* asg[a]: the row of a in task_assignments
  worker,        \* worker[w]: agent_workers.status, or "absent"
  call           \* call[c]: the request in flight on c with what it has read

vars == <<task, asg, worker, call>>
-----------------------------------------------------------------------------
WORKER_STATUSES == {"registered", "available", "busy", "offline", "disabled"}

ACTIVE_ASSIGNMENT_STATUSES == {"assigned", "acknowledged", "running", "retrying"}

(* Statuses outside the partial index idx_task_assignments_active.         *)
CLOSED_ASSIGNMENT_STATUSES == {"completed", "failed", "cancelled", "timeout"}

(* CLAIMED is written by the claim service alone: no caller of             *)
(* transition() in the repository targets it.                              *)
ASSUME TaskMovesAssumption ==
  TaskMoves \subseteq {m \in ACTOR_WRITEABLE_STATES : m[2] # "claimed"}

ASSUME SeedAssumption == SeedStates \subseteq ALL_STATES \ {"claimed", "running"}

ASSUME AdminMovesAssumption == AdminMoves \subseteq WORKER_STATUSES \X WORKER_STATUSES

Unused == [status |-> "unused"]

AssignmentRow == [status : ACTIVE_ASSIGNMENT_STATUSES \cup CLOSED_ASSIGNMENT_STATUSES,
                  task : Tasks, worker : Workers, lapsed : BOOLEAN]

Idle == [op |-> "idle"]

(* A request in flight.  "seen" is the task row as the call read it.       *)
Requests ==
  [op : {"claim"}, task : Tasks, worker : Workers, seen : TaskRow] \cup
  [op : {"recover", "submit"}, asg : Assignments, task : Tasks, seen : TaskRow] \cup
  [op : {"transition"}, task : Tasks, target : ALL_STATES, seen : TaskRow] \cup
  [op : {"heartbeat"}, asg : Assignments] \cup
  [op : {"set_status"}, worker : Workers, target : WORKER_STATUSES] \cup
  [op : {"register"}, worker : Workers]

Active(a) == asg[a].status \in ACTIVE_ASSIGNMENT_STATUSES

HeldBy(t) == {a \in Assignments : Active(a) /\ asg[a].task = t}

HoldingsOf(w) == {a \in Assignments : Active(a) /\ asg[a].worker = w}

Seats == {"available", "busy"}

(* The unique index idx_agent_workers_active_executor on (worker_type,     *)
(* status) lets one executor be available and one be busy.  A transaction  *)
(* that would put w beside another executor of status s fails.             *)
SeatFree(w, s) == s \in Seats => \A v \in Workers \ {w} : worker[v] # s

(* The look at the workers that register_worker() and set_worker_status()  *)
(* take before their transaction.                                          *)
NoOtherExecutor(w) == \A v \in Workers \ {w} : worker[v] \notin Seats

(* The WHERE state_version = ? of every update of development_tasks.       *)
SameVersionUnchecked(k) == TRUE
SameVersion(k) == task[k.task].version = k.seen.version

Begin(c, request) ==
  /\ call[c] = Idle
  /\ call' = [call EXCEPT ![c] = request]
  /\ UNCHANGED <<task, asg, worker>>

Finish(c) == call' = [call EXCEPT ![c] = Idle]
-----------------------------------------------------------------------------
Init ==
  /\ task \in [Tasks -> [status : SeedStates, version : {1}]]
  /\ asg = [a \in Assignments |-> Unused]
  /\ worker = [w \in Workers |-> "absent"]
  /\ call = [c \in Callers |-> Idle]

MayClaim(w) == worker[w] = "available"

Queued(t) == task[t].status = "queued"

(* claim_task(): and no assignment of the task is active under a lease     *)
(* that still runs.                                                        *)
BeginClaim(c, t, w) ==
  /\ MayClaim(w)
  /\ Queued(t)
  /\ \A a \in HeldBy(t) : asg[a].lapsed
  /\ Begin(c, [op |-> "claim", task |-> t, worker |-> w, seen |-> task[t]])

(* The active assignments of t the claim transaction retires first.        *)
LapsedOfUnfiltered(t) == HeldBy(t)
LapsedOf(t) == {a \in HeldBy(t) : asg[a].lapsed}

(* idx_task_assignments_active lets the new row in: an assignment renewed  *)
(* by a heartbeat since the check is not retired and still fills the index *)
IndexAdmitsAnother(t) == TRUE
IndexAdmits(t) == HeldBy(t) = LapsedOf(t)

(* The claim transaction: retire the lapsed assignments of the task, move  *)
(* the task under its version, insert the assignment, seat the worker.     *)
CommitClaim(c) ==
  LET k == call[c] IN
  /\ k.op = "claim"
  /\ SameVersion(k)
  /\ worker[k.worker] = "available"
  /\ IndexAdmits(k.task)
  /\ SeatFree(k.worker, "busy")
  /\ \E new \in Assignments :
       /\ asg[new] = Unused
       /\ asg' = [a \in Assignments |->
                    IF a = new
                    THEN [status |-> "assigned", task |-> k.task,
                          worker |-> k.worker, lapsed |-> FALSE]
                    ELSE IF a \in LapsedOf(k.task)
                         THEN [asg[a] EXCEPT !.status = "timeout"]
                         ELSE asg[a]]
  /\ task' = [task EXCEPT ![k.task] = Moved(task[k.task], "claimed")]
  /\ worker' = [worker EXCEPT ![k.worker] = "busy"]
  /\ Finish(c)

MayBeat(w) == worker[w] \notin {"offline", "disabled"}

(* An active assignment under a lease that still runs.                     *)
Renewable(a) == Active(a) /\ ~asg[a].lapsed

(* heartbeat(), sent by the worker of assignment a.                        *)
BeginHeartbeat(c, a) ==
  /\ Renewable(a)
  /\ MayBeat(asg[a].worker)
  /\ Begin(c, [op |-> "heartbeat", asg |-> a])

(* The transaction compares the lease with a clock read before it began,   *)
(* so the lease may have lapsed while it waited for the write lock: only   *)
(* the status is compared with the present.                                *)
CommitHeartbeat(c) ==
  LET k == call[c] IN
  /\ k.op = "heartbeat"
  /\ Active(k.asg)
  /\ asg' = [asg EXCEPT ![k.asg].lapsed = FALSE]
  /\ Finish(c)
  /\ UNCHANGED <<task, worker>>

(* What the sweep finds; it recovers one after the other.                  *)
Expired == {a \in Assignments : Active(a) /\ asg[a].lapsed}

(* recover_assignment(): of an expired one, the task claimed or running.   *)
BeginRecover(c, a) ==
  /\ a \in Expired
  /\ task[asg[a].task].status \in {"claimed", "running"}
  /\ Begin(c, [op |-> "recover", asg |-> a, task |-> asg[a].task,
               seen |-> task[asg[a].task]])

(* _safe_release_worker(): only leases that still run keep w busy.         *)
WorkerAfterRecovery(w, a) ==
  IF worker[w] = "busy" /\ \A b \in HoldingsOf(w) \ {a} : asg[b].lapsed
  THEN "available" ELSE worker[w]

(* The claim is released; a task that was being executed is blocked.       *)
StateAfterRecoveryOfClaimOnly(s) == IF s = "claimed" THEN "queued" ELSE s
StateAfterRecovery(s) == IF s = "claimed" THEN "queued" ELSE "blocked"

(* The re-check of the assignment in the recovery transaction.             *)
StillLapsedUnchecked(a) == TRUE
StillLapsed(a) == Active(a) /\ asg[a].lapsed

CommitRecover(c) ==
  LET k == call[c]
      w == asg[k.asg].worker
      s == WorkerAfterRecovery(w, k.asg)
  IN
  /\ k.op = "recover"
  /\ StillLapsed(k.asg)
  /\ SameVersion(k)
  /\ s # worker[w] => SeatFree(w, s)
  /\ asg' = [asg EXCEPT ![k.asg].status = "timeout"]
  /\ task' = [task EXCEPT ![k.task] = Moved(@, StateAfterRecovery(k.seen.status))]
  /\ worker' = [worker EXCEPT ![w] = s]
  /\ Finish(c)

(* submit_result(): a running assignment under a lease that still runs, of *)
(* a running task.                                                         *)
BeginSubmit(c, a) ==
  /\ asg[a].status = "running"
  /\ ~asg[a].lapsed
  /\ task[asg[a].task].status = "running"
  /\ Begin(c, [op |-> "submit", asg |-> a, task |-> asg[a].task,
               seen |-> task[asg[a].task]])

(* The re-check of the task in the submission transaction.                 *)
TaskAsReadUnchecked(k) == TRUE
TaskAsRead(k) == task[k.task].status = "running" /\ SameVersion(k)

(* The re-check of the assignment and its lease.                           *)
StillLeasedUnchecked(a) == TRUE
StillLeased(a) == asg[a].status = "running" /\ ~asg[a].lapsed

(* The worker is made available whatever its status was, unless it holds   *)
(* another active assignment.                                              *)
WorkerIdleAfterSubmit(w, a) ==
  IF HoldingsOf(w) \ {a} = {} THEN "idle" ELSE worker[w]
WorkerAfterSubmit(w, a) ==
  IF HoldingsOf(w) \ {a} = {} THEN "available" ELSE worker[w]

CommitSubmit(c) ==
  LET k == call[c]
      w == asg[k.asg].worker
      s == WorkerAfterSubmit(w, k.asg)
  IN
  /\ k.op = "submit"
  /\ TaskAsRead(k)
  /\ StillLeased(k.asg)
  /\ s # worker[w] => SeatFree(w, s)
  /\ asg' = [asg EXCEPT ![k.asg].status = "completed"]
  /\ task' = [task EXCEPT ![k.task] = Moved(@, "result_submitted")]
  /\ worker' = [worker EXCEPT ![w] = s]
  /\ Finish(c)

(* can_transition(), for a pair of an actor and a target.                  *)
CanMove(t, move) ==
  /\ <<task[t].status, move[2]>> \in TRANSITION_GRAPH
  /\ move \in ACTOR_WRITEABLE_STATES

(* transition(): neither it nor its transaction looks at assignments.      *)
BeginTransition(c, t, move) ==
  /\ CanMove(t, move)
  /\ Begin(c, [op |-> "transition", task |-> t, target |-> move[2],
               seen |-> task[t]])

CommitTransition(c) ==
  LET k == call[c] IN
  /\ k.op = "transition"
  /\ SameVersion(k)
  /\ task' = [task EXCEPT ![k.task] = Moved(@, k.target)]
  /\ Finish(c)
  /\ UNCHANGED <<asg, worker>>

(* The service layer has no operation that moves an assignment from        *)
(* assigned to running: the operator's script does it by SQL, once the     *)
(* task is running.                                                        *)
StartAssignment(a) ==
  /\ asg[a].status = "assigned"
  /\ task[asg[a].task].status = "running"
  /\ asg' = [asg EXCEPT ![a].status = "running"]
  /\ UNCHANGED <<task, worker, call>>

BeginSetStatus(c, w, s) ==
  /\ <<worker[w], s>> \in AdminMoves
  /\ s \in Seats => NoOtherExecutor(w)
  /\ Begin(c, [op |-> "set_status", worker |-> w, target |-> s])

(* The update names no earlier status; only the unique index can stop it.  *)
CommitSetStatus(c) ==
  LET k == call[c] IN
  /\ k.op = "set_status"
  /\ SeatFree(k.worker, k.target)
  /\ worker' = [worker EXCEPT ![k.worker] = k.target]
  /\ Finish(c)
  /\ UNCHANGED <<task, asg>>

BeginRegister(c, w) ==
  /\ worker[w] = "absent"
  /\ NoOtherExecutor(w)
  /\ Begin(c, [op |-> "register", worker |-> w])

CommitRegister(c) ==
  LET k == call[c] IN
  /\ k.op = "register"
  /\ worker[k.worker] = "absent"
  /\ worker' = [worker EXCEPT ![k.worker] = "registered"]
  /\ Finish(c)
  /\ UNCHANGED <<task, asg>>

(* Time passes the expiry of a lease that some check still looks at.       *)
LeaseLapses(a) ==
  /\ asg[a].status \in ACTIVE_ASSIGNMENT_STATUSES \cup {"completed"}
  /\ ~asg[a].lapsed
  /\ asg' = [asg EXCEPT ![a].lapsed = TRUE]
  /\ UNCHANGED <<task, worker, call>>

Abandon(c) ==
  /\ call[c] # Idle
  /\ Finish(c)
  /\ UNCHANGED <<task, asg, worker>>

BeginCall(c) ==
  \/ \E t \in Tasks, w \in Workers : BeginClaim(c, t, w)
  \/ \E a \in Assignments :
       BeginHeartbeat(c, a) \/ BeginRecover(c, a) \/ BeginSubmit(c, a)
  \/ \E t \in Tasks, move \in TaskMoves : BeginTransition(c, t, move)
  \/ \E w \in Workers, s \in WORKER_STATUSES : BeginSetStatus(c, w, s)
  \/ \E w \in Workers : BeginRegister(c, w)

(* The transactions that store no result.                                  *)
CommitPlain(c) ==
  \/ CommitClaim(c)
  \/ CommitHeartbeat(c)
  \/ CommitRecover(c)
  \/ CommitTransition(c)
  \/ CommitSetStatus(c)
  \/ CommitRegister(c)

CallStep(c) == BeginCall(c) \/ CommitPlain(c) \/ Abandon(c)

Surroundings == \E a \in Assignments : StartAssignment(a) \/ LeaseLapses(a)

Next ==
  \/ \E c \in Callers : CallStep(c) \/ CommitSubmit(c)
  \/ Surroundings

Spec == Init /\ [][Next]_vars
-----------------------------------------------------------------------------
TypeOK ==
  /\ task \in [Tasks -> TaskRow]
  /\ asg \in [Assignments -> {Unused} \cup AssignmentRow]
  /\ worker \in [Workers -> WORKER_STATUSES \cup {"absent"}]
  /\ call \in [Callers -> {Idle} \cup Requests]

(* A task has at most one active assignment, whatever claims, renewals and *)
(* recoveries are in flight (task_claim_service.py, step 0 of the claim    *)
(* transaction, and the partial unique index of migration 014).            *)
OneActivePerTask == \A a, b \in Assignments :
  Active(a) /\ Active(b) /\ asg[a].task = asg[b].task => a = b

(* A claimed or running task is never orphaned: an active assignment holds *)
(* it, so that a lapsed lease can always be traced and recovered.          *)
TaskHeld == \A t \in Tasks :
  task[t].status \in {"claimed", "running"} => HeldBy(t) # {}

(* The calls whose transaction relies on a task row read earlier.          *)
SnapshotOps == {"claim", "recover", "submit", "transition"}

(* The optimistic lock is sound: a call that still finds the version it    *)
(* read finds the state it read.  Claim, recovery and transition compare   *)
(* nothing but the version in their update.                                *)
SnapshotSound == \A c \in Callers :
  call[c].op \in SnapshotOps =>
    LET row == task[call[c].task]
        seen == call[c].seen
    IN seen.version <= row.version /\ (seen.version = row.version => seen = row)

(* A lease that still runs is never timed out, by recovery or by another   *)
(* worker's claim.                                                         *)
LiveLeaseKept == [][\A a \in Assignments :
  Active(a) /\ asg'[a].status = "timeout" => asg[a].lapsed]_vars

(* A result is taken only from the one holder of a running task, and that  *)
(* very step moves the task on: no worker that lost the task can deliver.  *)
ResultFenced == [][\A a \in Assignments :
  asg[a].status # "completed" /\ asg'[a].status = "completed" =>
    /\ HeldBy(asg[a].task) = {a}
    /\ task[asg[a].task].status = "running"
    /\ task'[asg[a].task].status = "result_submitted"]_vars

(* Seen from outside, tasks move along the transition graph, one version   *)
(* at a time, whichever service moves them.                                *)
Lifecycle == INSTANCE TaskLifecycle
LifecycleSpec == Lifecycle!Spec

(* "Only update if lease is not already expired (re-check in transaction)" *)
(* (worker_heartbeat_service.py).                                          *)
LapsedStaysLapsed == [][\A a \in Assignments :
  Active(a) /\ asg[a].lapsed /\ asg'[a] # Unused => asg'[a].lapsed]_vars
=============================================================================
