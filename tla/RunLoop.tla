------------------------------ MODULE RunLoop ------------------------------
(***************************************************************************)
(* The automatic run loop (executor/loop_controller.py) with the store of  *)
(* its runs (run_store.py), the scheduler that picks a task, the worker    *)
(* that executes it (task_worker.py) and the finalizer that closes an      *)
(* execution (cleanup.py).                                                 *)
(*                                                                         *)
(* One LoopController serves every project.  Its endpoints run one at a    *)
(* time on the event loop; each started run has a thread of its own, and   *)
(* "run one task" has another.  The threads meet the endpoints and each    *)
(* other in the database, in two events and in three fields of the         *)
(* controller.  A server restart loses the threads and the controller and  *)
(* keeps the database.                                                     *)
(***************************************************************************)
EXTENDS ExecutionApproval, StartDecision, Functions

CONSTANTS
  Title,            \* the title of a task
  DependsOn,        \* the references in a task's dependencies, as normalized
  Zone,             \* local time against UTC: "equal", "behind" or "ahead"
  MaxRuns,          \* bound: runs created in a behaviour
  MaxTasksPerRun,   \* budget: tasks a run may take
  MaxFailures,      \* budget: failures after which a run pauses
  MaxSolo,          \* bound: tasks run outside the loop
  MaxDisturbances   \* bound: expired leases, failed finalization steps and
                    \*   restarts, together

(* A number, or a string of digits, refers to a task by its id, any other
   string to one by its title; what is neither refers to nothing. *)
Reference ==
  [by : {"id"}, id : Nat] \cup [by : {"title"}, title : Range(Title)] \cup [by : {"nothing"}]

ASSUME DependsOnAssumption ==
  \A t \in Tasks : \A ref \in DependsOn[t] : ref \in Reference
ASSUME ZoneAssumption == Zone \in {"equal", "behind", "ahead"}
ASSUME BoundsAssumption ==
  /\ MaxRuns \in Nat /\ MaxSolo \in Nat /\ MaxDisturbances \in Nat
  /\ MaxTasksPerRun \in Nat /\ MaxFailures \in Nat

VARIABLES
  run,       \* run[r]: the row of executor_runs, r in the order of creation
  pc,        \* pc[w]: where the thread of worker w is
  job,       \* job[w]: the task worker w has in hand, its outcome and its approval
  seen,      \* seen[r]: the copy of the row the loop decides the budget on
  task,      \* task[t]: development_tasks.status
  lease,     \* lease[t]: the row of task_leases
  ctl,       \* the fields and the two events of the LoopController
  stopping,  \* the run a stop() has looked at and not yet dealt with, and how far it is
  spent,     \* how often a task was run alone, a lease expired, a finalization step failed, the server restarted
  done       \* history: executions begun, executions failed, loops that overlapped,
             \*   executions begun in the workspace of another project

loopVars == <<run, pc, job, seen, task, lease, ctl, stopping, spent, done>>
lvars == <<approval, loopVars>>

Runs == 1 .. MaxRuns
Solo == 0                     \* worker_id 'worker-default': the run-one thread
Workers == {Solo} \cup Runs

(* Migration 004 put the paused and the stopping runs under the index. *)
ActiveWithoutPaused == {"starting", "scanning", "executing", "stopping"}
Active == {"starting", "scanning", "executing", "paused", "stopping"}
Terminal == {"completed", "blocked", "failed"}
TASK_STATUSES == {"pending", "completed", "blocked", "failed"}
OUTCOMES == {"completed", "blocked", "failed", "unclaimed"}

LoopSteps == {"boot", "top", "waiting", "leaving", "scan", "idle"}
WorkSteps == {"claim", "consume", "spend", "execute",
              "release", "mark", "stats", "account", "denied"}
Gone == "none"

NoScope == {0}                \* _approval_task_scope is None; 0 is no task
NoJob == [task |-> 0, outcome |-> "none", approval |-> 0]
NoLease == [holder |-> Solo, status |-> "free"]
NothingSeen == [total |-> 0, failed |-> 0]
NoRun == [status |-> "none", total |-> 0, failed |-> 0]
FreshController ==
  [run |-> 0, stop |-> FALSE, pause |-> FALSE,
   consumed |-> FALSE, scope |-> NoScope, counted |-> {}]
NotStopping == [run |-> 0, step |-> "none"]

Created(r) == run[r].status # "none"
Alive(r) == pc[r] # Gone
ActiveRuns(p) == {r \in Runs : run[r].status \in Active /\ run[r].project = p}

Disturbance(kind) ==
  /\ IF kind = "solo" THEN spent.solo < MaxSolo
     ELSE spent.expiries + spent.faults + spent.crashes < MaxDisturbances
  /\ spent' = [spent EXCEPT ![kind] = @ + 1]
-----------------------------------------------------------------------------
(***************************************************************************)
(* The run store.  The partial unique index refuses a second active run of *)
(* a project; the store reports the error and changes nothing.             *)
(***************************************************************************)

RefusedByIndex(r, s) == s \in Active /\ ActiveRuns(run[r].project) \ {r} # {}

WithStatus(r, s) ==
  IF RefusedByIndex(r, s) THEN run ELSE [run EXCEPT ![r].status = s]

SetStatus(r, s) == run' = WithStatus(r, s)
-----------------------------------------------------------------------------
(***************************************************************************)
(* The scheduler and the approval filter.                                  *)
(***************************************************************************)

HasActiveLease(t) == lease[t].status = "active"

(* A claim writes expires_at in local time; the scheduler and the retry
   endpoint compare it with UTC. *)
LooksLeased(t) ==
  CASE Zone = "equal"  -> HasActiveLease(t)
    [] Zone = "behind" -> FALSE
    [] Zone = "ahead"  -> lease[t].status \in {"active", "expired"}

(* A title is looked for in the task's own project, an id everywhere. *)
Referred(t, ref) ==
  CASE ref.by = "id"    -> {ref.id} \cap Tasks
    [] ref.by = "title" -> {d \in ProjectTasks(ProjectOf[t]) : Title[d] = ref.title}
    [] OTHER            -> {}

(* A reference that fits no task, or more than one title, is never met. *)
Met(t, ref) == \E d \in Tasks : Referred(t, ref) = {d} /\ task[d] = "completed"

Runnable(p) ==
  {t \in ProjectTasks(p) :
     /\ task[t] = "pending"
     /\ \A ref \in DependsOn[t] : Met(t, ref)
     /\ ~LooksLeased(t)}

(* The scope the controller remembers comes before the newest approval. *)
InScopeByApproval(p) ==
  IF ValidApprovals(p) = {} THEN Runnable(p)
  ELSE Runnable(p) \cap approval[Newest(ValidApprovals(p))].scope

InScope(p) ==
  IF ctl.scope # NoScope THEN Runnable(p) \cap ctl.scope ELSE InScopeByApproval(p)

(* An enabled project whose workspace is clean and safe: where it is not,
   nothing starts. *)
AuditOf(p) ==
  [active    |-> ActiveRuns(p) # {},
   unsafe    |-> FALSE,
   highRisk  |-> p \in HighRisk,
   enabled   |-> TRUE,
   covered   |-> CoveredBy(p, Runnable(p)),
   runnable  |-> Runnable(p) # {},
   planning  |-> FALSE,
   bound     |-> TRUE,
   pending   |-> \E t \in ProjectTasks(p) : task[t] = "pending",
   completed |-> \E t \in ProjectTasks(p) : task[t] = "completed"]

MayStart(p) == Decide(AuditOf(p)) = "EXECUTE_READY_TASKS"
-----------------------------------------------------------------------------
(***************************************************************************)
(* The endpoints.                                                          *)
(***************************************************************************)

EventLoopFree == stopping = NotStopping

Start(p) ==
  /\ EventLoopFree
  /\ MayStart(p)
  /\ \E r \in Runs :
       /\ \A q \in Runs : Created(q) <=> q < r
       /\ run' = [run EXCEPT ![r] =
            [status |-> "starting", project |-> p, total |-> 0, failed |-> 0]]
       /\ pc' = [pc EXCEPT ![r] = "boot"]
       /\ seen' = [seen EXCEPT ![r] = NothingSeen]
       /\ ctl' = [FreshController EXCEPT !.run = r, !.counted = ctl.counted]
  /\ done' = [done EXCEPT !.overlap = @ \/ \E q \in Runs : Alive(q)]
  /\ UNCHANGED <<approval, job, task, lease, stopping, spent>>

Pause ==
  /\ EventLoopFree
  /\ ctl.run # 0
  /\ run[ctl.run].status \notin Terminal \cup {"paused"}
  /\ ctl' = [ctl EXCEPT !.pause = TRUE]
  /\ UNCHANGED <<approval, run, pc, job, seen, task, lease, stopping, spent, done>>

Resume ==
  /\ EventLoopFree
  /\ ctl.run # 0
  /\ run[ctl.run].status = "paused"
  /\ SetStatus(ctl.run, "scanning")
  /\ ctl' = [ctl EXCEPT !.pause = FALSE]
  /\ UNCHANGED <<approval, pc, job, seen, task, lease, stopping, spent, done>>

(* stop(): the status is read, then the row is written, then the event is
   set, and the loop thread may move between any two of them. *)
BeginStop ==
  /\ EventLoopFree
  /\ ctl.run # 0
  /\ run[ctl.run].status \notin Terminal
  /\ stopping' = [run |-> ctl.run, step |-> "write"]
  /\ UNCHANGED <<approval, run, pc, job, seen, task, lease, ctl, spent, done>>

WriteStopping ==
  /\ stopping.step = "write"
  /\ SetStatus(stopping.run, "stopping")
  /\ stopping' = [stopping EXCEPT !.step = "signal"]
  /\ UNCHANGED <<approval, pc, job, seen, task, lease, ctl, spent, done>>

SignalStop ==
  /\ stopping.step = "signal"
  /\ ctl' = [ctl EXCEPT !.stop = TRUE]
  /\ stopping' = NotStopping
  /\ UNCHANGED <<approval, run, pc, job, seen, task, lease, spent, done>>

(* A failed or blocked task is made pending again; an unexpired lease of it
   is released before the check for an active run. *)
Retry(t) ==
  /\ EventLoopFree
  /\ task[t] \in {"failed", "blocked"}
  /\ lease' = IF LooksLeased(t) THEN [lease EXCEPT ![t] = NoLease] ELSE lease
  /\ task' = IF ActiveRuns(ProjectOf[t]) = {}
             THEN [task EXCEPT ![t] = "pending"] ELSE task
  /\ UNCHANGED <<approval, run, pc, job, seen, ctl, stopping, spent, done>>

RunOne(t) ==
  /\ EventLoopFree
  /\ ~Alive(Solo) /\ Disturbance("solo")
  /\ task[t] = "pending"
  /\ pc' = [pc EXCEPT ![Solo] = "claim"]
  /\ job' = [job EXCEPT ![Solo] = [NoJob EXCEPT !.task = t]]
  /\ UNCHANGED <<approval, run, seen, task, lease, ctl, stopping, done>>

Approvals ==
  /\ EventLoopFree
  /\ \/ \E p \in Projects : \E scope \in Scopes :
            scope \subseteq ProjectTasks(p) /\ Request(p, scope)
     \/ \E a \in ApprovalIds : Approve(a)
     \/ \E a \in ApprovalIds : Reject(a)
  /\ UNCHANGED loopVars
-----------------------------------------------------------------------------
(***************************************************************************)
(* The loop thread of run r.                                               *)
(***************************************************************************)

Goto(w, step) == pc' = [pc EXCEPT ![w] = step]

(* The thread of w ends. *)
End(w) ==
  /\ pc' = [pc EXCEPT ![w] = Gone]
  /\ job' = [job EXCEPT ![w] = NoJob]
  /\ seen' = IF w = Solo THEN seen ELSE [seen EXCEPT ![w] = NothingSeen]

Boot(r) ==
  /\ pc[r] = "boot"
  /\ SetStatus(r, "scanning")
  /\ Goto(r, "top")
  /\ UNCHANGED <<approval, job, seen, task, lease, ctl, stopping, spent, done>>

(* The two counters are compared on the copy; the third limit is the clock. *)
BudgetPassed(r) ==
  seen[r].total > MaxTasksPerRun \/ seen[r].failed > MaxFailures

BudgetSpent(r) ==
  seen[r].total >= MaxTasksPerRun \/ seen[r].failed >= MaxFailures

(* The top of the loop: leave on a stop, pause on a pause, end the thread
   and leave the run 'paused' when the budget is spent, else scan. *)
TopLeave(r) ==
  /\ pc[r] = "top" /\ ctl.stop
  /\ Goto(r, "leaving")
  /\ UNCHANGED <<approval, run, job, seen, task, lease, ctl, stopping, spent, done>>

TopPause(r) ==
  /\ pc[r] = "top" /\ ~ctl.stop /\ ctl.pause
  /\ SetStatus(r, "paused")
  /\ Goto(r, "waiting")
  /\ UNCHANGED <<approval, job, seen, task, lease, ctl, stopping, spent, done>>

TopBudget(r) ==
  /\ pc[r] = "top" /\ ~ctl.stop /\ ~ctl.pause
  /\ SetStatus(r, "paused")
  /\ End(r)
  /\ UNCHANGED <<approval, task, lease, ctl, stopping, spent, done>>

TopScanUnbudgeted(r) ==
  /\ pc[r] = "top" /\ ~ctl.stop /\ ~ctl.pause
  /\ SetStatus(r, "scanning")
  /\ Goto(r, "scan")
  /\ UNCHANGED <<approval, job, seen, task, lease, ctl, stopping, spent, done>>

TopScan(r) ==
  /\ pc[r] = "top" /\ ~ctl.stop /\ ~ctl.pause
  /\ ~BudgetSpent(r)
  /\ SetStatus(r, "scanning")
  /\ Goto(r, "scan")
  /\ UNCHANGED <<approval, job, seen, task, lease, ctl, stopping, spent, done>>

WaitForResume(r) ==
  /\ pc[r] = "waiting"
  /\ ~ctl.pause
  /\ SetStatus(r, "scanning")
  /\ Goto(r, "top")
  /\ UNCHANGED <<approval, job, seen, task, lease, ctl, stopping, spent, done>>

Wait(r) ==
  /\ pc[r] = "waiting"
  /\ \/ /\ ctl.stop
        /\ Goto(r, "leaving")
        /\ UNCHANGED run
     \/ /\ ~ctl.stop /\ ~ctl.pause
        /\ SetStatus(r, "scanning")
        /\ Goto(r, "top")
  /\ UNCHANGED <<approval, job, seen, task, lease, ctl, stopping, spent, done>>

(* The event is looked at again: a start() of another project may have
   cleared it, and then the thread ends without a word in the row. *)
Leave(r) ==
  /\ pc[r] = "leaving"
  /\ run' = IF ctl.stop THEN WithStatus(r, "completed") ELSE run
  /\ End(r)
  /\ UNCHANGED <<approval, task, lease, ctl, stopping, spent, done>>

(* The first runnable task within the approval is taken: the row says
   'claiming', then 'executing', and counts the task before it is claimed. *)
Scan(r) ==
  LET found == InScope(run[r].project) IN
  /\ pc[r] = "scan"
  /\ \/ /\ found = {}
        /\ Goto(r, "idle")
        /\ UNCHANGED <<run, job>>
     \/ /\ found # {}
        /\ job' = [job EXCEPT ![r] = [NoJob EXCEPT !.task = Min(found)]]
        /\ run' = [WithStatus(r, "executing") EXCEPT ![r].total = @ + 1]
        /\ Goto(r, "claim")
  /\ UNCHANGED <<approval, seen, task, lease, ctl, stopping, spent, done>>

ScanAgain(r) ==
  /\ pc[r] = "idle"
  /\ Goto(r, "top")
  /\ UNCHANGED <<approval, run, job, seen, task, lease, ctl, stopping, spent, done>>

HandleNoRunnable(r) ==
  LET ts == ProjectTasks(run[r].project) IN
  /\ pc[r] = "idle"
  /\ SetStatus(r, IF \A t \in ts : task[t] = "completed" THEN "completed" ELSE "blocked")
  /\ End(r)
  /\ UNCHANGED <<approval, task, lease, ctl, stopping, spent, done>>

(* A read of the database between two executions fails: the loop ends. *)
LoopFails(r) ==
  /\ pc[r] \in LoopSteps
  /\ Disturbance("faults")
  /\ SetStatus(r, "failed")
  /\ End(r)
  /\ UNCHANGED <<approval, task, lease, ctl, stopping, done>>
-----------------------------------------------------------------------------
(***************************************************************************)
(* The worker: claim, consume the approval, execute.                       *)
(***************************************************************************)

Claimable(t) == task[t] = "pending" /\ ~HasActiveLease(t)

(* The loop hands the approval service over unless it believes the run has
   consumed its approval; run-one never does. *)
NeedsApproval(w) == w # Solo /\ ~ctl.consumed

Begun(w, t) == done.begun \cup ({<<w, t>>} \ ({Solo} \X Tasks))

(* repo_path is a field of the controller, set by start() together with the
   run: a worker of the loop is made with what it says by then. *)
Astray(w) == w # Solo /\ run[ctl.run].project # run[w].project

Claim(w) ==
  LET t == job[w].task IN
  /\ pc[w] = "claim"
  /\ \/ /\ Claimable(t)
        /\ lease' = [lease EXCEPT ![t] = [holder |-> w, status |-> "active"]]
        /\ Goto(w, IF NeedsApproval(w) THEN "consume" ELSE "execute")
        /\ done' = [done EXCEPT !.astray = @ \/ Astray(w),
                                 !.begun = IF NeedsApproval(w) THEN @ ELSE Begun(w, t)]
        /\ UNCHANGED <<job, seen>>
     \/ /\ ~Claimable(t)
        /\ IF w = Solo THEN End(w)
           ELSE /\ job' = [job EXCEPT ![w].outcome = "unclaimed"]
                /\ Goto(w, "account")
                /\ UNCHANGED seen
        /\ UNCHANGED <<lease, done>>
  /\ UNCHANGED <<approval, run, task, ctl, stopping, spent>>

ConsumeSelect(r) ==
  LET c == Consumable(run[r].project, job[r].task) IN
  /\ pc[r] = "consume"
  /\ \/ /\ c = {}
        /\ Goto(r, "denied")
        /\ UNCHANGED job
     \/ \E a \in c :
        /\ job' = [job EXCEPT ![r].approval = a]
        /\ Goto(r, "spend")
  /\ UNCHANGED <<approval, run, seen, task, lease, ctl, stopping, spent, done>>

ConsumeUpdate(r) ==
  LET a == job[r].approval  t == job[r].task IN
  /\ pc[r] = "spend"
  /\ \/ /\ approval[a].status = "approved"
        /\ approval' = Consumed(a, r, t)
        /\ Goto(r, "execute")
        /\ done' = [done EXCEPT !.begun = Begun(r, t)]
     \/ /\ approval[a].status # "approved"
        /\ Goto(r, "denied")
        /\ UNCHANGED <<approval, done>>
  /\ UNCHANGED <<run, job, seen, task, lease, ctl, stopping, spent>>

(* Consumption failed: give the lease back and block the whole run. *)
DeniedKeepsLease(r) ==
  /\ pc[r] = "denied"
  /\ SetStatus(r, "blocked")
  /\ End(r)
  /\ UNCHANGED <<approval, task, lease, ctl, stopping, spent, done>>

Denied(r) ==
  /\ pc[r] = "denied"
  /\ lease' = [lease EXCEPT ![job[r].task] = NoLease]
  /\ SetStatus(r, "blocked")
  /\ End(r)
  /\ UNCHANGED <<approval, task, ctl, stopping, spent, done>>

(* How an execution may end.  An error is classed by its message, a missing
   toolchain or an unsafe change blocks the task; where no test command is
   found the acceptance criteria decide; failing tests are repaired and run
   again. *)
ErrorEnds == {"blocked", "failed"}
ToolchainEnds == {"blocked"}
UntestedEnds == {"completed", "blocked"}
RepairEnds == {"completed"} \cup ErrorEnds
TestedEnds == {"completed"} \cup RepairEnds

(* The files of the workspace decide whether there is a test command. *)
CommandFound == BOOLEAN

PreparationEnds == ErrorEnds \cup ToolchainEnds
VerificationEnds ==
  UNION {IF found THEN TestedEnds ELSE UntestedEnds : found \in CommandFound}

Execute(w) ==
  /\ pc[w] = "execute"
  /\ \E o \in PreparationEnds \cup VerificationEnds :
       job' = [job EXCEPT ![w].outcome = o]
  /\ Goto(w, "release")
  /\ UNCHANGED <<approval, run, seen, task, lease, ctl, stopping, spent, done>>
-----------------------------------------------------------------------------
(***************************************************************************)
(* finalize_execution(): each step is a transaction of its own, and one    *)
(* that fails is noted and passed over.  The lease goes before the status  *)
(* of the task is written.                                                 *)
(***************************************************************************)

Fails == Disturbance("faults")

(* Whoever holds it, the active lease of the task is released. *)
FinalizeRelease(w) ==
  LET t == job[w].task IN
  /\ pc[w] = "release"
  /\ \/ /\ lease' = [lease EXCEPT ![t] = NoLease]
        /\ UNCHANGED spent
     \/ Fails /\ UNCHANGED lease
  /\ Goto(w, "mark")
  /\ UNCHANGED <<approval, run, job, seen, task, ctl, stopping, done>>

FinalizeTask(w) ==
  LET t == job[w].task IN
  /\ pc[w] = "mark"
  /\ \/ /\ task' = [task EXCEPT ![t] = job[w].outcome]
        /\ UNCHANGED spent
     \/ Fails /\ UNCHANGED task
  /\ IF w = Solo THEN End(w) ELSE Goto(w, "stats") /\ UNCHANGED <<job, seen>>
  /\ UNCHANGED <<approval, run, lease, ctl, stopping, done>>

CountFailure(r) == [run EXCEPT ![r].failed = @ + 1]

FinalizeStats(r) ==
  LET failed == job[r].outcome = "failed" IN
  /\ pc[r] = "stats"
  /\ \/ /\ run' = IF failed THEN CountFailure(r) ELSE run
        /\ UNCHANGED spent
     \/ Fails /\ UNCHANGED run
  /\ done' = IF failed THEN [done EXCEPT !.failed[r] = @ + 1] ELSE done
  /\ Goto(r, "account")
  /\ UNCHANGED <<approval, job, seen, task, lease, ctl, stopping>>

(* What the worker answers to the loop: the message of an error is classed a
   second time, by other words, and may come out differently. *)
Answers(outcome) ==
  CASE outcome = "completed" -> {"completed"}
    [] outcome = "unclaimed" -> {"failed"}
    [] OTHER -> {"failed", "blocked"}

(* What the controller remembers of an execution.  Only a completed one
   reports the approval it consumed, with the scope of its row. *)
Remembered(r) ==
  LET t == job[r].task
      a == job[r].approval
  IN  [ctl EXCEPT
         !.counted = @ \cup {t},
         !.consumed = @ \/ (job[r].outcome = "completed" /\ a # 0),
         !.scope = IF job[r].outcome # "completed" \/ a = 0 THEN @
                   ELSE IF approval[a].scope # {} THEN approval[a].scope ELSE {t}]

(* Back in the loop.  A failure is counted once more, for a task the
   controller has not counted in any of its runs; then the copy of the row
   is renewed. *)
Account(r) ==
  LET t == job[r].task IN
  /\ pc[r] = "account"
  /\ \E answer \in Answers(job[r].outcome) :
       run' = IF answer = "failed" /\ t \notin ctl.counted THEN CountFailure(r) ELSE run
  /\ seen' = [seen EXCEPT ![r] = [total |-> run'[r].total, failed |-> run'[r].failed]]
  /\ ctl' = Remembered(r)
  /\ job' = [job EXCEPT ![r] = NoJob]
  /\ Goto(r, "top")
  /\ UNCHANGED <<approval, task, lease, stopping, spent, done>>
-----------------------------------------------------------------------------
(***************************************************************************)
(* Time and restarts.                                                      *)
(***************************************************************************)

LeaseExpires(t) ==
  /\ HasActiveLease(t)
  /\ Disturbance("expiries")
  /\ lease' = [lease EXCEPT ![t].status = "expired"]
  /\ UNCHANGED <<approval, run, pc, job, seen, task, ctl, stopping, done>>

ApprovalLapses ==
  /\ \E a \in ApprovalIds : Lapse(a)
  /\ UNCHANGED loopVars

Crash ==
  /\ Disturbance("crashes")
  /\ pc' = [w \in Workers |-> Gone]
  /\ job' = [w \in Workers |-> NoJob]
  /\ seen' = [r \in Runs |-> NothingSeen]
  /\ ctl' = FreshController
  /\ stopping' = NotStopping
  /\ UNCHANGED <<approval, run, task, lease, done>>
-----------------------------------------------------------------------------
Init ==
  /\ approval = [a \in ApprovalIds |-> NoApproval]
  /\ run = [r \in Runs |-> NoRun]
  /\ pc = [w \in Workers |-> Gone]
  /\ job = [w \in Workers |-> NoJob]
  /\ seen = [r \in Runs |-> NothingSeen]
  /\ task = [t \in Tasks |-> "pending"]
  /\ lease = [t \in Tasks |-> NoLease]
  /\ ctl = FreshController
  /\ stopping = NotStopping
  /\ spent = [solo |-> 0, expiries |-> 0, faults |-> 0, crashes |-> 0]
  /\ done = [begun |-> {}, failed |-> [r \in Runs |-> 0], overlap |-> FALSE,
              astray |-> FALSE]

WorkerStep(w) ==
  \/ Claim(w) \/ Execute(w) \/ FinalizeRelease(w) \/ FinalizeTask(w)

LoopStep(r) ==
  \/ Boot(r) \/ TopLeave(r) \/ TopPause(r) \/ TopBudget(r) \/ TopScan(r)
  \/ Wait(r) \/ Leave(r) \/ Scan(r) \/ HandleNoRunnable(r) \/ LoopFails(r)
  \/ ConsumeSelect(r) \/ ConsumeUpdate(r) \/ Denied(r)
  \/ FinalizeStats(r) \/ Account(r)

Thread(w) == WorkerStep(w) \/ (w # Solo /\ LoopStep(w))

Endpoints ==
  \/ \E p \in Projects : Start(p)
  \/ Pause \/ Resume \/ BeginStop \/ WriteStopping \/ SignalStop
  \/ \E t \in Tasks : Retry(t) \/ RunOne(t)
  \/ Approvals

Environment == (\E t \in Tasks : LeaseExpires(t)) \/ ApprovalLapses \/ Crash

Next == (\E w \in Workers : Thread(w)) \/ Endpoints \/ Environment

(* A thread that can run is run, and an endpoint that has begun is served to
   its end; nobody is obliged to call one. *)
Fairness ==
  /\ \A w \in Workers : WF_lvars(Thread(w))
  /\ WF_lvars(WriteStopping \/ SignalStop)

Spec == Init /\ [][Next]_lvars

FairSpec == Spec /\ Fairness
-----------------------------------------------------------------------------
(***************************************************************************)
(* What the runs promise.                                                  *)
(***************************************************************************)

RunRow ==
  [status : Active \cup Terminal, project : Projects,
   total : 0 .. MaxTasksPerRun, failed : 0 .. 2 * MaxTasksPerRun]

(* Every variable holds a value of its kind; no counter of a run passes
   what its budget allows. *)
RunTypeOK ==
  /\ \A r \in Runs : run[r] = NoRun \/ run[r] \in RunRow
  /\ pc \in [Workers -> LoopSteps \cup WorkSteps \cup {Gone}]
  /\ task \in [Tasks -> TASK_STATUSES]
  /\ lease \in [Tasks -> [holder : Workers, status : {"free", "active", "expired"}]]
  /\ job \in [Workers -> [task : Tasks \cup {0}, approval : ApprovalIds \cup {0},
                          outcome : OUTCOMES \cup {"none"}]]
  /\ ctl \in [run : Runs \cup {0}, stop : BOOLEAN, pause : BOOLEAN, consumed : BOOLEAN,
              scope : SUBSET (Tasks \cup {0}), counted : SUBSET Tasks]

(* Two loops never work on one project at a time: the thread of a run is
   only alive while the row of the run is active, whatever start, pause,
   resume, stop, a lapsed budget and a restart did before. *)
OneLoopPerProject ==
  \A q, r \in Runs :
    q # r /\ Alive(q) /\ Alive(r) => run[q].project # run[r].project

(* A run takes no more tasks than its budget and, as long as no step of a
   finalization failed, ends no more of them in failure: the copy of the row
   that the budget is decided on is never behind. *)
BudgetHeld ==
  \A r \in Runs : Created(r) =>
    /\ run[r].total <= MaxTasksPerRun
    /\ spent.faults = 0 => done.failed[r] <= MaxFailures

(* An active lease always has a worker on the task that will release it, on
   every path out of an execution; only a failed release or a restart may
   leave one behind. *)
LeaseOnlyWhileWorked ==
  spent.faults = 0 /\ spent.crashes = 0 =>
    \A t \in Tasks : HasActiveLease(t) =>
      \E w \in Workers :
        /\ job[w].task = t
        /\ pc[w] \in {"consume", "spend", "execute", "release", "denied"}

(* While loops do not overlap, a loop only executes a task in the workspace
   of its own project, and after its run has consumed an approval of the
   project that lists the task, or that lists none and was consumed for it. *)
ExecutionIsApproved ==
  ~done.overlap => ~done.astray /\
    \A r \in Runs, t \in Tasks : <<r, t>> \in done.begun =>
      \E a \in ApprovalIds :
        /\ approval[a].status = "consumed"
        /\ approval[a].run = r
        /\ approval[a].project = ProjectOf[t]
        /\ \/ t \in approval[a].scope
           \/ approval[a].scope = {} /\ approval[a].task = t

(* A stop reaches the loop it was meant for, also when the loop waits in a
   pause, unless a start of another project clears the event first. *)
StopEndsLoop ==
  \A r \in Runs : Alive(r) /\ ctl.run = r /\ ctl.stop ~> ~Alive(r) \/ ~ctl.stop

(* No loop runs for ever: it ends, or it waits in a pause.  Tasks may be
   retried without end, by hand and by other workers; the budget ends it. *)
LoopEnds ==
  \A r \in Runs : Alive(r) ~> ~Alive(r) \/ pc[r] = "waiting"
=============================================================================
