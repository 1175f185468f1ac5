# Verification of the AI Dev Factory control plane

TLA+ modules, TLC configurations and TLAPS proofs for the programs under
`src/backend/app`. This document has the inventory of the system, the plan of
the development, and what is modelled, checked and proved so far.

## 1. The system

The backend holds two generations of the same idea, a factory that takes
development tasks from a queue, has agents execute them, and reviews what comes
back. Both keep their state in one SQLite database.

### V2 control plane (`supervisor/`)

A set of stateless services. Every call opens its own connection, reads what it
needs outside any transaction, returns early when a check fails, and then runs
one `BEGIN IMMEDIATE` transaction that re-checks part of what it read. Agents,
reviewers and operators call concurrently, through `api/v2_worker_api.py` or
in-process.

| component | state | operations | what makes it correct |
|---|---|---|---|
| state machine (`state_machine.py`) | `development_tasks.status`, `state_version` | `transition` | tasks follow the graph, one version per change; a stale caller changes nothing |
| claim (`task_claim_service.py`) | `task_assignments`, task, worker | `claim_task` | at most one active assignment per task; a live lease is not taken |
| heartbeat (`worker_heartbeat_service.py`) | lease expiry | `heartbeat` | only a lease that still runs is renewed |
| recovery (`lease_recovery_service.py`) | assignment, task, worker | `recover_assignment`, sweep | only lapsed leases are recovered; a task in flight keeps a holder to recover it from |
| submission (`task_result_submission_service.py`) | `task_results`, assignment, task, worker | `submit_result` | only the present holder of a running task delivers |
| review (`task_review_service.py`) | `review_decisions`, task | `begin_review`, `submit_decision` | one result under review, the latest; a verdict is final and verified rests on it |
| handoff (`task_handoff_service.py`) | `task_handoffs`, assignments, workers, task | request, accept, reject, cancel, expire | one pending handoff per assignment, one outcome per handoff, no work lost to a stale recovery |
| registry (`worker_registry.py`) | `agent_workers` | `register_worker`, `set_worker_status` | the number of seated executors is limited |
| orchestration (`orchestration_service.py`) | `supervisor_cycles` | `run_one_cycle` | a cycle acts once per key, also across a crash |
| events (`task_event_service.py`) | `task_events` | append, triggers | append-only |

The services interact through the shared tables only. The hard behaviours are
the interleavings of calls between their checks and their transactions, leases
that lapse meanwhile, the partial unique indexes that stop what the checks
cannot (`idx_task_assignments_active`, `idx_agent_workers_active_executor`), and
sequences through rework and handoff that visit the same task several times.

### V1 executor (`executor/`)

One `LoopController` serves every project. Its endpoints (`api/executor.py`) run
on the event loop; each run it starts has a thread, and "run one task" has
another. They meet in the database, in two events and in three fields of the
controller.

| component | state | operations | what makes it correct |
|---|---|---|---|
| run loop (`loop_controller.py`, `run_store.py`) | `executor_runs`, events, fields of the controller | start, pause, resume, stop, the loop | one loop per project; a budget holds; a stop arrives; a loop ends |
| worker and finalizer (`task_worker.py`, `cleanup.py`) | `task_leases`, `development_tasks.status` | claim, consume approval, execute, finalize | a lease is given back on every path |
| approvals (`execution_approval_service.py`, `start_decision.py`) | `execution_approvals` | request, approve, reject, consume; the decision to start | a task of a project runs under an approval that is consumed once and covers it |
| group claim and locks (`parallel_scheduler.py`, `resource_lock_manager.py`, migration 005) | `executor_resource_locks`, `task_leases`, `executions` | claim a group, renew, take over, release, expire | two workers never have one file |
| pool (`worker_pool.py`) | threads, contexts | spawn, run, finalize | a task is executed once |
| merge queue and worktrees (`merge_coordinator.py`, `worktree_manager.py`) | queue, branches, HEAD | enqueue, merge, test, undo | only tested work lands, and stays |
| recovery (`parallel_recovery_manager.py`) | the tables | `recover_on_startup` | what was in progress before a restart is not given twice |

### Planner (`planner/`)

Previews of plans are generated by a model or entered by hand, checked, confirmed
with a token and approved; an approval writes tasks ready, which the run loop then
takes. It must write only what the preview showed, once, and nothing that the
risk policy forbids.

### Agent runtime (`agent_runtime/`)

The client of the V2 worker API: a process with a lock file that registers,
claims under a fixed key, sends heartbeats from a thread, submits, and repeats
requests that are not answered. No two processes may hold one lease, and what is
reported as submitted must be stored.

### The rest

`api/`, `schemas/`, `models/` are forms and routes, `ai/` and the model adapters
call language models, the frontend and the scripts are user interface.
`PROJECT.json` lists every part with its status.

## 2. Modules

```
V2   TaskStates                 tables of the state machine
       |- TaskLifecycle         abstract specification: the task alone
       |- ControlPlane          claim, heartbeat, recovery, submission, transition, registry
            |- ReviewFlow       + results and reviews; implements ControlPlane
            |    |- HandoffFlow + handoffs
            |- AgentRuntime     + the processes that call it, and the supervisor;
                                  implements ControlPlane

V1   ExecutionApproval          the one-time approvals
     StartDecision              what may be done with a project
       |- RunLoop               controller, loops, workers, finalizer (with ExecutionApproval)
       |- Planning              previews, confirmation, approval

     Mishaps                    the bound on what goes wrong
     ExclusiveLocks             abstract specification: locks with one owner
       ResourceLocks            the lock table, leases, group claim, recovery
       MergeQueue               queue, branches, HEAD
         |- ParallelExecution   both, with the pool and the finalizer; implements ExclusiveLocks

MC*: instances for TLC.   *_proofs: theorems.
```

### The V2 modules

**A call is two actions.** `BeginX(c, ...)` is everything before the transaction:
its guard is the conjunction of the checks, and it stores in `call[c]` what the
transaction will use, the task row as it was read (`seen`) included. `CommitX(c)`
is the transaction with its own re-checks, the `WHERE` clauses of its updates and
the unique indexes as guards. Any number of other calls commit in between.
`Abandon(c)` is every way a call ends without a trace: an error return, a
rollback, an `IntegrityError`, the death of the process. So the failure of a
re-check needs no action of its own: the call stays in flight until `Abandon`.

| variable | code |
|---|---|
| `task[t]` | `development_tasks.status`, `state_version` |
| `asg[a]` | a row of `task_assignments`; `Unused` before its insert |
| `asg[a].lapsed` | `lease_expires_at` is in the past |
| `worker[w]` | `agent_workers.status`, or `absent` |
| `call[c]` | a connection with its request in flight |
| `result[a]`, `review[a]` | the row of `task_results` for the assignment (`UNIQUE(assignment_id)`) and of `review_decisions` for that result (`UNIQUE(result_id)`) |
| `latest[t]` | history: the assignment that delivered last |
| `handoff[h]` | a row of `task_handoffs` |
| `lock`, `proc[p]` | the lock file of a runtime directory; a process, the request it waits for and the claim it was given |
| `claimed[k]`, `cycle[k]`, `sup[s]` | the claim made under key k; the row of `supervisor_cycles`; a `run_one_cycle()` in progress |

Abstractions, and why they are sound:

- *Time* is the bit `lapsed`, set by `LeaseLapses` at any moment. Claim and
  recovery also compare with a clock read earlier, but a late clock only makes
  them see fewer lapsed leases, a refusal. The heartbeat is the exception: with
  its early clock it renews a lease that has lapsed since, so `CommitHeartbeat`
  does not look at `lapsed`.
- *Idempotency keys*: for the services alone a replay of a stored key is a
  stutter, since it answers from the stored row. What the answer does to the one
  that asked is in `AgentRuntime`: a repeated claim is answered without the lease
  token (`WithholdToken`), a repeated submission with the stored result.
- *Capabilities, project scope, packets, artifacts* only refuse calls,
  and a call may always not be made. That a caller holds the lease token of the
  assignment it names is part of naming it; in `AgentRuntime` a process is given
  the token or not.
- *Operators*: `TaskMoves` and `AdminMoves` are the pairs that `transition()` and
  `set_worker_status()` are called with. CLAIMED is not among them
  (`TaskMovesAssumption`): no caller of `transition()` targets it, and a transition
  to CLAIMED would create a claimed task with no assignment. With reviews, the
  states that a submission or the review service writes are not among them either
  (`ReviewMovesAssumption`): the repository calls `transition()` for RUNNING only.
  No task is created with a result (`ReviewSeedAssumption`).
- `NobodyAssumption`, `NoneAssumption`, `LostAssumption` and `0 \notin Tasks` keep the
  model's marks for "nothing" apart from the names of real things.
- `StartAssignment` is the SQL of `tools/v2_sandbox_rehearsal.py`: no service
  moves an assignment from assigned to running.
- `reject_handoff` needs a candidate, `to_worker_id`, that nothing sets before an
  accept; it refuses every caller and is no step.
- Reviewers are a set of their own and are never offline.
- `ReviewFlow` implements `ControlPlane` (`ControlPlaneSpec`) with `begin_review` and `decide`
  in flight read as transitions in flight (`PlainRequest`), and their edges added
  to `TaskMoves`.
- The transport of `AgentRuntime` may lose an answer, or serve a request after
  the client has given it up; `Abandon` is also its server error. A runtime
  claims with version 1, its default, and submits with the claim's plus one, so a
  task in a later round is not for it.
  The supervisor's BEGIN_REVIEW, which needs a reviewer, is a WAIT there.
- The V1 endpoints that write `development_tasks.status` without a version
  (`api/tasks.py`) are outside: V2 tasks are assumed to be moved by V2 services.

### The V1 modules

**A thread is a program counter.** In `RunLoop` each worker w (a run's loop, or
`Solo` for "run one task") has `pc[w]`, the place where it next touches something
shared; every read and every transaction between two such places is one action.
Endpoints run one at a time on the event loop, except `stop()`, whose read, write
and signal a thread may come between (`BeginStop`, `WriteStopping`, `SignalStop`).

| variable | code |
|---|---|
| `run[r]` | a row of `executor_runs`: status, tasks taken, failures |
| `seen[r]` | the copy of the row on which the loop decides its budget |
| `ctl` | `_current_run_id`, the stop and pause events, whether the run believes its approval consumed and for which tasks, the tasks whose failure is counted |
| `lease[t]` | the row of `task_leases` |
| `approval[a]` | a row of `execution_approvals` |
| `locks`, `hand[e]` | active rows of `executor_resource_locks`; the lock ids and tokens execution e was handed |
| `queue`, `merge`, `head`, `refs`, `branch` | `MergeCoordinator`, its item in hand with the commits it noted, the branch HEAD is on, the commit of each branch, the work on a task branch; a commit is its history along first parents, which is what `HEAD~1` and a reset go back along |
| `preview`, `tokens`, `at[h]` | `planning_previews`, the token store, what a request of the planner has read |
| `spent`, `mishaps`, `changes`, `launches` | counts of what the bounds allow |
| `done`, `tardy`, `blame`, `queued`, `merged`, `landed`, `said`, `approvals` | histories for the properties |

Abstractions:

- *Statuses*: the loop's transient `claiming`, `executing`, `testing`,
  `repairing` are one active status; `scanning` is kept.
- *What an execution does* in the workspace is reduced to the ways it may end
  (`Execute`); the acceptance criteria, tests and repairs decide which. The checks
  of the workspace before a start are taken to pass.
- *Clocks*: a lease or lock lapses at any moment. `Zone` is local time against
  UTC, the one a claim writes `expires_at` in, the other the scheduler compares it with: east of it a
  lapsed lease still looks held, west of it a held one looks free. Two minutes
  without a heartbeat and five of a lock are one event in two steps (`Silence`, `Lapse`),
  because the second cannot come before the first except after a takeover.
- *Store writes* of a run's status fail only by the unique index; the finalizer's
  steps, the merge's commands and recovery's transactions may fail, as mishaps.
- *Callers*: nothing in the application calls the group claim, the pool, the merge
  queue or `recover_on_startup()` yet; `ParallelExecution` lets them be called
  in any order the interfaces allow, recovery first after a restart.
- *Regression tests and the undo* are one step; HEAD may move before it
  (`HeadMoves`), not within. A git command that fails or is killed by its time limit
  is a mishap: of a merge it leaves the commit made or not made, of a reset the branch
  moved or not moved, and `_safe_undo_merge()` then tries `HEAD~1` and `ORIG_HEAD` from
  wherever that is (`FallBacks`). A merge of a branch with nothing new makes no commit
  (`Joined`).
- *Queueing*: `enqueue()` looks at nothing. To queue an item that was queued before is
  possible at any time and counts as a mishap, to bound the queue.
- *An execution* has its worktree created (`CreateWorktree`) and its thread started (`Spawn`) in two
  steps, and one that completes may have left no commit.
- *Planning*: the title and description of a task are the keyword lists they match and
  may be edited to any of `Texts` between any two steps; a plan and the risk it declares
  do not change once stored and are constants. An edit is noticed through `updated_at`
  alone, as the code does. A generation reads any tasks, those a request names or the
  first twelve. The withdrawal of older previews and the insert of the new one may each
  fail unnoticed. `reject()` and the expiry in a check look at the status first and
  write it later, without a `WHERE` on it. An empty stored hash, which would not be
  compared, is never stored by `_persist_preview()` and is left out. Acknowledgment of
  medium risk is an input.
- *Risk levels* are compared by spelling where the code does (`SpeltBelow`).

## 3. What is checked

| run | instance | properties |
|---|---|---|
| `control_plane` | 2 tasks, 2 executors, 2 assignments, 2 connections (945,018 states) | `OneActivePerTask`, `TaskHeld`, `SnapshotSound`, `LiveLeaseKept`, `ResultFenced`, `LifecycleSpec` |
| `review_flow` | 1 task, 1 executor, 2 assignments, 2 connections, 2 reviewers (196,458) | `VerdictOnLatest`, `ReviewExclusive`, `VerdictFinal`, `ControlPlaneSpec` |
| `handoff_flow` | 1 task, 2 executors, 2 assignments, 2 connections, 2 handoffs (1,200,905) | `OneActivePerTask`, `OnePendingHandoff`, `HandedOverOnce`, `HandoffFinal`, `ResultFenced`, `RunningTaskKept` |
| `agent_runtime` | 1 task, 1 worker in 2 processes, 2 connections, 1 supervisor (1,234,141) | `OneHolder`, `ReportedIsStored`, `ToldIsDone` |
| `run_loop` | 2 projects, 3 tasks, 2 runs, 1 approval, 1 disturbance (1,683,246) | `OneLoopPerProject`, `BudgetHeld`, `LeaseOnlyWhileWorked`, `ExecutionIsApproved` |
| `run_loop_ends` | 1 project, 2 tasks, 1 run, 1 task run alone (110,342) | `StopEndsLoop`, `LoopEnds` |
| `parallel_execution` | 4 tasks over 2 files, 2 executions, 1 mishap (770,828) | `WorkersApart`, `ExecutedOnce`, `UndoneAlone`, `OnlyTestedLands`, `ImplementsLocks`, `MergeEnds` |
| `planning` | 2 tasks, 2 previews, 2 requests, 2 changes (1,591,223) | `PlannedAsItWas`, `WrittenOnce` |

`control_plane`, `review_flow`, `handoff_flow`, `run_loop` and
`parallel_execution` have a type invariant besides. What they show:

- `OneActivePerTask`: no two agents hold one task, whatever claims and renewals race.
- `TaskHeld`: a claimed or running task always has an assignment to recover it by.
- `SnapshotSound`: comparing `state_version` alone is enough, since a version
  stands for one state.
- `LiveLeaseKept`, `RunningTaskKept`: neither a sweep begun earlier nor another
  claim times out a lease that runs, and a recovery of the old holder does not
  block the task of the new one.
- `ResultFenced`: a result comes from the single holder, of a running task.
- `VerdictOnLatest`, `ReviewExclusive`, `VerdictFinal`: a verdict is about the
  last round, by one reviewer, for ever.
- `OnePendingHandoff`, `HandedOverOnce`, `HandoffFinal`: requests, accepts,
  cancellations and expiries that race have one outcome, and the retired holder
  never comes back.
- `LifecycleSpec`: `ControlPlane` implements `TaskLifecycle`, in which a task is a
  state and a version and nothing else; `ControlPlaneSpec`: to the control plane the
  reviews are transitions, so that `ReviewFlow` implements it.
- `OneHolder`: although every process of a worker claims under the same key, and
  a refused start removes the lock file of the one that runs, a lease goes to one.
- `ReportedIsStored`, `ToldIsDone`: a late, lost or repeated answer never makes a
  submission or a cycle look done that is not. The second has an exception in the
  code: a row left `started` by a crash is answered as a success.
- `OneLoopPerProject`: the index of migration 004, over paused and stopping runs
  too, and the rows that threads keep active, exclude a second loop.
- `BudgetHeld`: the copy the budget is decided on is never behind, and although a
  failure is counted in two places the failures that really happened stay within
  the limit.
- `LeaseOnlyWhileWorked`: a refused approval and every end of an execution give
  the lease back.
- `ExecutionIsApproved`: an approval bound to tasks stays bound to them for the
  whole run, also when it is consumed by the first and another is approved later.
  It is stated for loops that do not overlap: the controller's fields belong to
  one run at a time.
- `StopEndsLoop`, `LoopEnds`: a stop wakes a loop from a pause; without one the
  loop ends, because the budget bounds what retries by hand may feed it.
- `WorkersApart`, `ImplementsLocks`: the table, its sweep, tokens, renewals of
  lapsed rows and takeovers behave as locks with one owner, and two workers have
  no file in common in any spelling.
- `ExecutedOnce`: rests on `UNIQUE(task_id)` of `task_leases`, whose rows are kept.
- `UndoneAlone`: while no git command fails and HEAD stays on master during merges,
  the undo of a failed merge takes that merge and no other, also when it made no commit
  or the item had been merged before. What happens when the reset fails is the run
  `landed_undone`.
- `OnlyTestedLands`: short of the same faults, a restart in the middle and a worktree cut
  during a merge, nothing untested stays on master.
- `MergeEnds`: the queue is given back on every failing path.
- `PlannedAsItWas`: what slips through the snapshot can only have happened between the
  check of an approval and its transaction. It does not say that nothing slips
  through there: the transaction looks at the status and readiness of a task, not at
  its text.
- `WrittenOnce`: two requests with tokens of one preview, or of two that share a task,
  may both have passed their checks; the transaction's own look at each task lets
  one of them write it.

### Bounds

V2. Two connections suffice for any race of two calls, and a call that is overtaken
by several others is covered because the others may run one after another on the
second connection. Two assignments give a task a first holder and a second, which
is what a stale call of the first needs; every cycle of the lifecycle goes
through CLAIMED or an accept and uses an assignment, so the version needs no
bound of its own. Two tasks let an executor be between two tasks. `MCHandoffFlow`
starts with the executors registered and follows only reviews
that end in rework (`ReworkOnly`, a constraint), because only those lead to
a handoff; `review_flow` follows the others. `HandoffFlow` is not run with
cancellation of tasks, for size. `MaxLaunches` = 3 is a process, a start that is
refused and removes its lock file, and a third; `MaxTries` = 1 is one retry.

V1. `MaxRuns` = 2 runs meet in one project or in two. `MaxTasksPerRun` and
`MaxFailures` are small so that they are reached. `MaxDisturbances` = 1 and
`MaxMishaps` = 1 let one thing go wrong at any point (a lapsed lease, a failed
step, a restart); the properties that speak of what a restart leaves need one.
`run_loop` runs with a clock behind UTC, where a held lease looks free, and
`run_loop_ends` with equal clocks. `MaxSolo` is zero in the first, for size, and one in the
second. Two executions are the two threads of the pool. `MaxChanges` = 2 is two
edits, completions, runs, lapses or restarts between any steps of the requests;
`MaxTokens` = 1 is one token at a time, handed out again once it is used, so that two
approvals may be in flight. `NoThirdPlan` (a constraint) begins no plan beyond
`MaxPreviews`, since it could not be stored. `FirstOfTwins` (a constraint) leaves out the
behaviours of `parallel_execution` that are mirror images of others, with the two files
exchanged. Symmetry is
taken over the sets whose members the specification and the properties do not
tell apart, in no run with a temporal property that needs fairness.

`CHECK_DEADLOCK` is off in every run: rows are finite, and a
system whose tasks are terminal has nothing left to do.

### Fairness

`RunLoop.FairSpec` asks weak fairness of each thread, which the operating system
runs, and of a stop that has begun, since its handler does not wait for anything.
It asks nothing of users: nobody has to resume, retry or approve. `MergeStep` is
weakly fair in `ParallelExecution`, because `process_next()` is one call of one
thread, and nothing else there is.

The V2 control plane claims no liveness. No production code calls
`sweep_expired_assignments()` or `expire_handoffs()`, no
loop retries a refused call, and an agent may die at any point. Fairness of any
action would be an assumption the code does not justify.

### Disagreements found

| run | counterexample |
|---|---|
| `lapsed_lease` | `heartbeat()` reads the clock before `BEGIN IMMEDIATE`, so a lease that lapses while it waits for the lock is revived, against the comment at `worker_heartbeat_service.py:539` |
| `handoff_seat` | `accept_handoff()` seats the new worker before the old one leaves; with the index of migration 013 the accept of a handoff from a busy holder fails, against `tests/test_v2_task_handoff.py:292`, whose schema lacks the index. The registry refuses to seat the second executor, so the state is reached through a stale `set_worker_status()` |
| `handoff_graph` | an accept in rework writes rework to running, an edge outside `TRANSITION_GRAPH`, against `state_machine.py:302` |
| `landed_undone` | `_safe_undo_merge()` resets to `HEAD~1` when the reset to the noted commit fails (`merge_coordinator.py:249`); when the merge made no commit, that takes away the merge of an earlier task, tested and answered `merged`, against `merge_coordinator.py:22-25` and `:245` |

Seen while modelling, in the models but without a run of their own:

- `set_worker_status()` checks outside its transaction and the index admits one
  available executor beside one busy, against `worker_registry.py:5`: two executors are
  seated in the course of the counterexample of `handoff_seat`.
- A task that names something forbidden is written ready when it also names
  something of medium risk, because `planning_risk_policy.py:142` compares the spelling of
  levels; `planning_risk_policy.py:11` and `tests/test_v16_approval_matrix.py:585-586` say
  that BLOCKED is never written. The theorem `ForbiddenLetThrough` says exactly when.
- A generated preview can never be approved and no selection smaller than its plan,
  since the stored hash and the compared one differ in their fields and in the
  tasks they cover (theorem `PlansApprovedWhole`). `api/planner.py:3-7` and
  `planning_approval_service.py:212`, `:448`, `:461` provide for both;
  `tests/test_planning_approval.py:487` and `:522-538` pass because they insert the row
  with the hash of the selection.
- A title or description edited after `approve()` has rated its tasks is written ready
  unrated: the transaction (`planning_approval_service.py:573-599`) reads status
  and readiness only.
- A preview that is rejected, expired or withdrawn after the check of an approval is
  approved all the same, and a `reject()` or an expiry that looked before writes its
  status over `approved`.
- When the log of a failed regression cannot be written, the merge is not undone and its
  untested work stays on master (`merge_coordinator.py:220`).
- A cycle whose row a crash left `started` is told as done to the next caller
  (`ToldIsDone` excepts it).
- `repo_path` and the approval memory are fields of the one controller: a start of
  another project sends a running loop to that project's workspace
  (`api/executor.py:247`). `start()` also clears the stop event of the other loop.
- `stop()` may overwrite a status the loop has just made terminal; the row then
  says `stopping` for ever and holds the project's place in the index.
- A spent budget leaves the run `paused` with its thread ended; `resume()` sets
  `scanning` and nobody scans.
- `preview_approval()` marks a preview expired, although its doc
  (`planning_approval_service.py:193`) says it changes no data.
- `retry_task` and "run one task" need no approval, also in a high-risk project.
- `_fallback_finalize()` records a failed worker as completed
  (`worker_pool.py:130`, `:146`).
- The age of an approval's confirmation token (`CONFIRMATION_TOKEN_TTL_SECONDS`,
  `execution_approval_service.py:35`) is never checked, only the row's own expiry.

Seen, and not in any model: `get_all_worker_statuses()` waits for its own lock once
the pool has an entry (`worker_pool.py:199`); `force_release_orphaned()` releases
every active lock; `_consume_approval_if_needed()`, `TaskScheduler.claim_task()` and
`RecoveryManager.attempt_recovery()` have no callers.

## 4. What is proved

For every choice of the constants that satisfies the named assumptions of the
modules. Every invariant, action property and refinement that a passing run checks
is a theorem; the runs check them on small instances, and the inductive
invariants were checked there before they were proved.

| module | theorem | statement |
|---|---|---|
| `ControlPlane_proofs` | `TypeInvariant` | `Spec => []TypeOK` |
| | `Inductive` | `Spec => []IInv` |
| | `NoDoubleAssignment` | `Spec => []OneActivePerTask` |
| | `NoOrphanTask` | `Spec => []TaskHeld` |
| | `OptimisticLockSound` | `Spec => []SnapshotSound` |
| | `ImplementsLifecycle` | `Spec => LifecycleSpec` |
| | `LiveLeasesKept` | `Spec => LiveLeaseKept` |
| | `ResultsFenced` | `Spec => ResultFenced` |
| `ReviewFlow_proofs` | `ReviewIsControlPlane` | `ReviewSpec => ControlPlaneSpec` |
| | `ReviewTyped` | `ReviewSpec => []ReviewTypeOK` |
| | `VerdictsOnLatest` | `ReviewSpec => []VerdictOnLatest` |
| | `ReviewsExclusive` | `ReviewSpec => []ReviewExclusive` |
| | `VerdictsFinal` | `ReviewSpec => VerdictFinal` |
| `HandoffFlow_proofs` | `HandoffTyped` | `HandoffSpec => []HandoffTypeOK` |
| | `OneOffer` | `HandoffSpec => []OnePendingHandoff` |
| | `TakenOverOnce` | `HandoffSpec => []HandedOverOnce` |
| | `HandoffsFinal` | `HandoffSpec => HandoffFinal` |
| | `HandoffKeepsOneActive` | `HandoffSpec => []OneActivePerTask` |
| | `HandoffKeepsVerdicts` | `HandoffSpec => []VerdictOnLatest` |
| | `HandoffKeepsFence` | `HandoffSpec => ResultFenced` |
| | `HandedOverTaskKept` | `HandoffSpec => RunningTaskKept` |
| `AgentRuntime_proofs` | `ClientsHeld` | `AgentSpec => []AgentInv` |
| | `LeaseHasOneHolder` | `AgentSpec => []OneHolder` |
| | `ReportsAreStored` | `AgentSpec => []ReportedIsStored` |
| | `CyclesToldAreDone` | `AgentSpec => []ToldIsDone` |
| | `ClientsAreCallers` | `AgentSpec => Spec` |
| | `ClientsKeepOneActive` | `AgentSpec => []OneActivePerTask /\ ResultFenced` |
| `RunLoop_proofs` | `RunsHeld` | `Spec => []RunInv` |
| | `NoTwoLoops` | `Spec => []OneLoopPerProject` |
| | `RunTyped` | `Spec => []RunTypeOK` |
| | `LeasesAreWorked` | `Spec => []LeaseOnlyWhileWorked` |
| | `BudgetIsHeld` | `Spec => []BudgetHeld` |
| | `ExecutionsApproved` | `Spec => []ExecutionIsApproved` |
| `ParallelExecution_proofs` | `LocksHeld` | `Spec => []LockInv` |
| | `MergesHeld` | `Spec => []MergeInv` |
| | `WorkersStayApart` | `Spec => []WorkersApart` |
| | `TasksExecutedOnce` | `Spec => []ExecutedOnce` |
| | `ParallelTyped` | `Spec => []ParallelTypeOK` |
| | `MergedStays` | `Spec => []UndoneAlone` |
| | `TestedLands` | `Spec => []OnlyTestedLands` |
| | `LocksImplemented` | `Spec => ImplementsLocks` |
| | `WorkersKeepFiles` | `Spec => []Locks!OneOwner /\ Locks!OwnedWhileWorking` |
| `ExclusiveLocks_proofs` | `LocksStayTyped` | `ASpec => []LocksTyped` |
| | `LocksExclusive` | `ASpec => []OneOwner` |
| | `OwnersKeep` | `ASpec => OwnedWhileWorking` |
| `Planning_proofs` | `RiskHeldBack` | `PlanSpec => []WritesAllowed` |
| | `ForbiddenLetThrough` | when `CanWriteReady` holds of a forbidden task |
| | `PlansHeld` | `PlanSpec => []PlanInv` |
| | `WrittenAsPlanned` | `PlanSpec => []PlannedAsItWas` |
| | `TasksWrittenOnce` | `PlanSpec => []WrittenOnce` |
| | `PlansApprovedWhole` | `PlanSpec => []ApprovedWhole` |

**ControlPlane** (from `TaskMovesAssumption`, `SeedAssumption`,
`AdminMovesAssumption`). None of the safety invariants is inductive alone, since a commit
relies on what its begin has seen. `CallsChecked` records that: a claim in flight
saw its task queued; a recovery or a submission names a used assignment, the task
of that assignment, and saw it claimed or running; a transition holds an edge of
the graph that does not end in CLAIMED. Other calls cannot undo this, because
`seen` is a copy and the task of an assignment never changes. `SnapshotSound`
turns the copy into a fact about the present: a commit that finds its version
finds the state it saw. With both, `IInv` is inductive: a claim writes to a
queued task and admits its assignment only if the index does
(`OneActivePerTask`); a recovery takes the task out of flight or leaves it in the
step that retires its holder, of which there is one (`TaskHeld`). `LifecycleSpec`
follows step by step: a commit's source state is the one seen, so its move is an
edge and its version the next. `ResultFenced` needs `OneActivePerTask` for "the
single holder". Of the assumptions, the exclusion of CLAIMED from `TaskMoves`
carries `TaskHeld`.

**ReviewFlow** (from those, `ReviewMovesAssumption`, `ReviewSeedAssumption`,
`NobodyAssumption`). `ControlPlane_proofs` is instantiated under the refinement mapping
(`CP`), so that its lemmas hold of the rows and calls here without a second proof;
every step is a step of it or a stutter. `ReviewInv` adds what the reviews need:
results belong to assignments that exist and reviews to results (`ResultsBound`);
what a review call has checked stays true while it is in flight, and no transition
writes a state that a review writes (`ReviewCallsChecked`); every result but the last of
its task has its verdict (`OlderDecided`); the last one is as far as the status says
(`LatestFollowed`). A stale decision then fails on the version or on the review row.

**HandoffFlow**. An accept is no step of `ControlPlane`: it changes the holder of a
running task, and in rework the state along an edge that is not in the graph
(`handoff_graph`). So `ReviewInv` is kept by an argument of its own for that action
(`AcceptEffect`, `AcceptPlain`, `AcceptReview`: one active row leaves as one enters,
and the last review of a task in rework is decided) and by the lemmas of
`ReviewFlow_proofs` for all others. `HandoffInv` adds that an offer names an assignment
that exists and what the handoff calls have checked. That an offer is decided once
follows from `RowSteps`: from pending, a row of `task_handoffs` moves once.

**AgentRuntime** (from those of `ControlPlane`, `ClientsAssumption`, `NoneAssumption`,
`LostAssumption`). `ClientStep` shows that a client does to the control plane only what
its callers may do, so `AgentSpec => Spec` and everything proved there holds under
retries, lost answers and crashes. `ProcInv` says which connection serves whom: the one
a process waits on serves its own request and no other process
(`RequestsServed`, `ConnectionsKept`), so that the answer of a claim, token included,
reaches one process; a token is only held of an assignment that exists
(`TokensUsed`), so that no later claim hands it out again. `CycleInv` follows a
cycle from its insert to what is told of it: a supervisor past the insert finds its
own plan in the row (`CyclesFollowed`), and a row that says success made its claim
(`CyclesDone`).

**RunLoop** (from `BoundsAssumption`, `TasksAssumption`, `ScopesAssumption`).
`OneLoopPerProject` speaks of threads, the
index of rows. `AliveIsActive` joins them: the row of a live thread is active,
because every step that writes a terminal status ends the thread, and a stop
writes an active one. `OneActiveRun` is what the index gives, and a start is only
decided where no row is active. That the controller and a stop in progress point
at rows that exist is needed for the writes of the endpoints.
`LeaseOnlyWhileWorked` is inductive once a step is known to leave the jobs of other
threads alone (`Bystanders`). `BudgetHeld` needs, at every step of a loop, how the
copy it decides on relates to the row (equal, where it decides) and the row to the failures
that happened (`BudgetInv`): a task in hand was begun under the limit, and
short of a failed step the row counts no fewer failures than there were.
`ExecutionIsApproved` follows an approval from the worker that selects it to the one
that consumes it and to the scope the controller remembers (`ApprovedInv`); the last
belongs to a run only while the one loop alive is the one the controller serves
(`LoneLoop`). That the scheduler's least task exists (`LeastIn`) is proved by well-founded
induction on finite sets, since `Min` is a choice.

**ParallelExecution** (from `MaxExecsAssumption`, `LockTasksAssumption`,
`NormalAssumption`, `DeclaresAssumption`, `ItemsAssumption`, `MaxMishapsAssumption`).
`WorkersApart` rests on `NeedsHeld`: a thread that was never silent has a live row for
every file of its task. Nobody else takes that row, because a file has one row
(`OneRow`), a takeover needs a lapsed one, a release the token, and recovery runs
without threads (`QuietBoot`). `ExecutedOnce` rests on `LeaseStays`. `UndoneAlone` needs that,
under a merge, the commit an undo goes back to still extends all that had landed
(`UnderTest`), whether or not the merge has put one on top of it; it is conditional on
no failed command and on HEAD staying on master, because `landed_undone` shows what a failed reset does.
`OnlyTestedLands` needs what branches are cut from and undos return to (`TestedOnly`).
`StepImplements` maps each step to one of `ExclusiveLocks` or a stutter: a group claim
is one grant of all its files, a renewal a hearing, an aging row a silence, a release,
sweep or recovery a withdrawal, a restart the end of everyone's work. `WorkersKeepFiles`
is the corollary by `ExclusiveLocks_proofs`.

**ExclusiveLocks**. The abstract locks are exclusive and owners keep what they
work on.

**Planning** (from `DeclaredAssumption`, `TextsAssumption`). An approval carries its
selection from the token through the check to the transaction; `RiskInv` says of each
stage that it holds tasks, and of the second that it writes only what the policy allows
by the text that the check has read (`WritesAllowed`); of a text edited later it says
nothing. `ForbiddenLetThrough` computes the policy for a forbidden task, string
comparisons included, as an equivalence. `PlanInv` adds that what `approve()` has found
(`Checked`: the whole selection, stamped, each task as planned) is still what the
snapshot says when its transaction comes, because no step rewrites a snapshot
(`PreviewsKept`), and that a task written ready stays ready (`ReadyKept`). A second approval
that shares a task therefore finds it ready and rolls back (`WrittenOnce`). That the
check compares a stamped hash of the selection with the stored one of the plan
gives `ApprovedWhole`, which is stated in `Planning_proofs`: no run checks it, since it
describes a disagreement and not a promise.

Only model-checked: the liveness properties `StopEndsLoop`, `LoopEnds` and
`MergeEnds`, which with `ENABLED` are beyond the prover. What the violation runs
state is false of the code, so there is nothing to prove.

## 5. Plan

1. Of `AcceptSeated` and `LapsedStaysLapsed`, which the code breaks, the weaker promise
   it does keep, as theorems; `UndoneAlone` is that of `LandedStays`.
2. `HandoffFlow`: every step but an accept in rework moves a task along the graph.
3. The supervisor's BEGIN_REVIEW, which composes `AgentRuntime` with `ReviewFlow`.
4. A composition of the V1 task endpoints with `ControlPlane`, to state what the
   unversioned writes break, and a run of `HandoffFlow` with cancellation, for an
   accept on a cancelled task.

## 6. Not modelled

- Subprocesses, file contents, language models, HTTP forms, the frontend and the
  formats of packets and prompts: I/O or data the properties do not tell apart.
  Of git, only what branches contain and where HEAD is.
- The append-only event log: written in the same transactions, read back only by
  replays.
- Installation and removal of the schema, and the tests the migrations carry.
- `RecoveryManager`, `force_release_orphaned()` and other code without callers,
  except where a module's interface would be incomplete without it.
- The probes and runners `agent_runtime/b7a`, `b7b`: scripts that drive a runtime.
- Command, path and toolchain checks (`command_runner.py`, `safety_guard.py`,
  `workspace_guard.py`, `toolchain_resolver.py`): pure functions that refuse work;
  in `RunLoop` they are among the ways an execution ends.
