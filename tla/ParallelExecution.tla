-------------------------- MODULE ParallelExecution --------------------------
(***************************************************************************)
(* Parallel execution as a whole: the groups claimed in ResourceLocks, the *)
(* pool of two worker threads that executes them (executor/worker_pool.py),*)
(* the finalizer that closes an execution (cleanup.py) and the MergeQueue  *)
(* that lands its branch.                                                  *)
(***************************************************************************)
EXTENDS ResourceLocks, MergeQueue

ASSUME ItemsAssumption == Items = Execs

VARIABLES
  pool,     \* WorkerPool.workers: the executions that were given a thread
  said      \* said[e]: what the executor reported for e

pvars == <<lockVars, mergeVars, pool, said, mishaps>>
poolVars == <<pool, said>>

MAX_WORKERS == 2
TASK_STATUSES == {"completed", "blocked", "failed"}

OnlyLockTable == UNCHANGED <<lease, exec, task, runRow, hand, boot, tardy>>
-----------------------------------------------------------------------------
(***************************************************************************)
(* The pool.  Entries are never taken out of it, finished or not.          *)
(***************************************************************************)

(* create_worktree(): the task branch is cut from master as it is, whatever is
   being merged; its path is what spawn_worker() is called with. *)
CreateWorktree(e) ==
  /\ phase[e] = "claimed" /\ branch[e] = NoBranch
  /\ branch' = [branch EXCEPT ![e] = Work(refs["master"])]
  /\ blame' = [blame EXCEPT !.early = @ \/ At("test")]
  /\ UNCHANGED <<lockVars, poolVars, queue, queued, merge, head, refs, merged, landed, mishaps>>

Spawn(e) ==
  /\ phase[e] = "claimed" /\ branch[e] # NoBranch
  /\ Cardinality(pool) < MAX_WORKERS
  /\ pool' = pool \cup {e}
  /\ phase' = [phase EXCEPT ![e] = "working"]
  /\ UNCHANGED <<locks, said, mergeVars, mishaps>>
  /\ OnlyLockTable

(* execute_fn returns or raises.  A task that is completed may have left no
   commit on its branch. *)
FinishWork(e) ==
  /\ Working(e)
  /\ \E answer \in {"completed", "failed"} :
       /\ said' = [said EXCEPT ![e] = answer]
       /\ \/ UNCHANGED branch
          \/ /\ answer = "completed"
             /\ branch' = [branch EXCEPT ![e] = @ \cup {e}]
  /\ phase' = [phase EXCEPT ![e] = "locks"]
  /\ UNCHANGED <<locks, pool, queue, queued, merge, head, refs, merged, landed, blame, mishaps>>
  /\ OnlyLockTable
-----------------------------------------------------------------------------
(***************************************************************************)
(* finalize_execution() in the worker's thread: each step is a transaction *)
(* of its own, and one that fails is noted and passed over.                *)
(***************************************************************************)

Untouched == UNCHANGED <<exec, runRow, hand, boot, tardy,
                         pool, said, queue, queued, merge, head, refs, merged, landed>>

NoMishap == UNCHANGED <<mishaps, blame>>
PassedOver == Mishap /\ UNCHANGED blame

Goto(e, p) == phase' = [phase EXCEPT ![e] = p]

(* With lock_ids at hand they are released one by one, each under its token
   and its worker; without, whatever the execution holds. *)
FinalizeLocks(e) ==
  /\ phase[e] = "locks"
  /\ \/ /\ locks' = locks \ (IF hand[e] # {} THEN Held(e) ELSE RowsOf(e))
        /\ NoMishap
     \/ PassedOver /\ UNCHANGED locks
  /\ Goto(e, "lease")
  /\ Untouched /\ UNCHANGED <<lease, task, branch>>

FinalizeLease(e) ==
  /\ phase[e] = "lease"
  /\ \/ /\ lease' = [lease EXCEPT ![exec[e]] = "released"]
        /\ NoMishap
     \/ PassedOver /\ UNCHANGED lease
  /\ Goto(e, "tree")
  /\ Untouched /\ UNCHANGED <<locks, task, branch>>

(* remove_worktree(): the branch goes with the tree, merged or not. *)
RemoveTree(e) == branch' = [branch EXCEPT ![e] = NoBranch]

FinalizeTree(e) ==
  /\ phase[e] = "tree"
  /\ \/ RemoveTree(e) /\ NoMishap
     \/ PassedOver /\ UNCHANGED branch
  /\ Goto(e, "mark")
  /\ Untouched /\ UNCHANGED <<locks, lease, task>>

(* When execute_fn has not finalized the execution itself the runner does,
   and calls it completed whatever came back; only an exception ends it as
   'worker_lost', which blocks the task. *)
ExitStatuses(answer) ==
  IF answer = "completed" THEN {"completed"} ELSE {"failed", "completed", "worker_lost"}

RawStatus(status) == status

TaskStatus(status) == IF status = "worker_lost" THEN "blocked" ELSE status

FinalizeTask(e) ==
  /\ phase[e] = "mark"
  /\ \/ /\ \E status \in ExitStatuses(said[e]) :
             task' = [task EXCEPT ![exec[e]] = TaskStatus(status)]
        /\ NoMishap
     \/ PassedOver /\ UNCHANGED task
  /\ Goto(e, "over")
  /\ Untouched /\ UNCHANGED <<locks, lease, branch>>

Finalize(e) ==
  FinalizeLocks(e) \/ FinalizeLease(e) \/ FinalizeTree(e) \/ FinalizeTask(e)
-----------------------------------------------------------------------------
(* A tested execution is queued for its merge. *)
QueueMerge(e) ==
  /\ said[e] = "completed" /\ boot = Up
  /\ Enqueue(e)
  /\ UNCHANGED <<lockVars, poolVars>>

Merges ==
  /\ ProcessNext \/ MergeStep \/ HeadMoves
  /\ UNCHANGED <<lockVars, poolVars>>

(* A restart ends every thread and forgets
   the pool, the queue and what the executions were handed. *)
Restart ==
  /\ Mishap
  /\ ForgetQueue
  /\ phase' = [e \in Execs |-> IF phase[e] = "none" THEN "none" ELSE "over"]
  /\ hand' = [e \in Execs |-> {}]
  /\ boot' = 1
  /\ pool' = {}
  /\ UNCHANGED <<locks, lease, exec, task, runRow, tardy, said>>

Init ==
  /\ LockInit /\ MergeInit
  /\ pool = {} /\ mishaps = 0
  /\ said = [e \in Execs |-> "none"]

LockTable ==
  /\ LockStep \/ Clock \/ Recover
  /\ UNCHANGED <<mergeVars, poolVars>>

Next ==
  \/ LockTable
  \/ \E e \in Execs : CreateWorktree(e) \/ Spawn(e) \/ FinishWork(e) \/ Finalize(e) \/ QueueMerge(e)
  \/ Merges
  \/ Restart

(* A merge that has begun is carried on by the thread that called
   process_next(). *)
Spec == Init /\ [][Next]_pvars /\ WF_pvars(MergeStep /\ UNCHANGED <<lockVars, poolVars>>)
-----------------------------------------------------------------------------
ParallelTypeOK ==
  /\ locks \subseteq LockRow
  /\ lease \in [Tasks -> LEASE_STATUSES]
  /\ exec \in [Execs -> Tasks \cup {0}]
  /\ task \in [Tasks -> TASK_STATUSES \cup {"pending"}]
  /\ phase \in [Execs -> PHASES]
  /\ runRow \in {"active", "blocked"} /\ boot \in 0 .. 4
  /\ pool \subseteq Execs
  /\ head \in Local /\ refs \in [Local -> Commits] /\ landed \in Commits
  /\ merged \subseteq Execs

(* Two workers never work on tasks that need the same file, in whatever
   spelling, unless one of them fell silent and let its lock go. *)
WorkersApart ==
  \A e, f \in Execs :
    /\ e # f /\ Working(e) /\ Working(f)
    /\ Conflict(exec[e], exec[f])
    => {e, f} \cap tardy # {}

(* A task is given to an execution once: whatever lapses or is recovered,
   no command line is run a second time for it. *)
ExecutedOnce ==
  \A e, f \in Execs : e # f /\ exec[e] # 0 => exec[e] # exec[f]

(* The rows of the table, their transactions and tokens implement locks with
   one owner each. *)
OwnersIn(rows) == [r \in Resources |-> {row.exec : row \in {k \in rows : k.res = r}}]
LateIn(rows) ==
  {r \in Resources : \E row \in rows : row.res = r /\ (row.silent \/ row.lapsed)}
AtWork == {e \in Execs : Working(e)}

Locks == INSTANCE ExclusiveLocks WITH
  Owners <- Execs, owners <- OwnersIn(locks), working <- AtWork, late <- LateIn(locks)

ImplementsLocks == Locks!ASpec
=============================================================================
