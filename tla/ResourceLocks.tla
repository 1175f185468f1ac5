--------------------------- MODULE ResourceLocks ---------------------------
(***************************************************************************)
(* The resource locks of parallel executions                               *)
(* (migrations/005_executor_resource_locks.py, resource_lock_manager.py),  *)
(* the group claim that takes them (parallel_scheduler.py) and the         *)
(* recovery after a restart (parallel_recovery_manager.py).                *)
(*                                                                         *)
(* A group of one or two tasks is claimed in one BEGIN IMMEDIATE           *)
(* transaction, every other operation in one of its own: each is a step.   *)
(***************************************************************************)
EXTENDS Mishaps, Sequences, FiniteSets, FiniteSetsExt, Functions

CONSTANTS
  Tasks,       \* ids of development_tasks, in scheduling order
  Names,       \* spellings of the files a plan lists
  Resources,   \* normalized keys
  Normal,      \* normalize_resource_key: the resource a spelling stands for
  Declares,    \* the spellings task t lists in files_to_modify
  MaxExecs     \* bound: executions created in a behaviour

ASSUME LockTasksAssumption == Tasks \subseteq Nat \ {0}   \* 0 is no task
ASSUME NormalAssumption == Normal \in [Names -> Resources]
ASSUME DeclaresAssumption == Declares \in [Tasks -> SUBSET Names]
ASSUME MaxExecsAssumption == MaxExecs \in Nat

VARIABLES
  locks,      \* the active rows of executor_resource_locks
  lease,      \* lease[t]: the only row of task_leases for t
  exec,       \* exec[e]: the task of executions row e, or 0
  task,       \* task[t]: development_tasks.status
  runRow,     \* the row of executor_runs the executions belong to
  hand,       \* hand[e]: the lock_ids and lock_tokens that execution e was given
  phase,      \* phase[e]: where the thread of execution e is
  boot,       \* the step of recover_on_startup() that is next, or Up
  tardy       \* history: the executions that fell silent or let a lock lapse

lockVars == <<locks, lease, exec, task, runRow, hand, phase, boot, tardy>>

Execs == 1 .. MaxExecs
LEASE_STATUSES == {"none", "active", "lapsed", "released"}
PHASES == {"none", "claimed", "working", "locks", "lease", "tree", "mark", "over"}
Up == 0

Needs(t) == {Normal[n] : n \in Declares[t]}

Working(e) == phase[e] = "working"
Alive(e) == phase[e] \notin {"none", "claimed", "over"}
-----------------------------------------------------------------------------
(***************************************************************************)
(* Rows.  lock_id is named after the execution that inserted the row, and  *)
(* so is its first lock_token; a takeover replaces the token and the       *)
(* worker and leaves lock_id and expires_at as they were.                  *)
(***************************************************************************)

NewRow(r, e) ==
  [res |-> r, id |-> e, token |-> e, exec |-> e,
   silent |-> FALSE, lapsed |-> FALSE, aged |-> FALSE]

Key(row) == [res |-> row.res, id |-> row.id, token |-> row.token]

LockRow ==
  [res : Resources, id : Execs, token : 1 .. MaxExecs + MaxMishaps, exec : Execs,
   silent : BOOLEAN, lapsed : BOOLEAN, aged : BOOLEAN]

(* The rows an UPDATE on lock_id, lock_token and worker_id hits: *)
HeldById(e) == {row \in locks : \E k \in hand[e] : k.res = row.res /\ k.id = row.id}

Held(e) == {row \in locks : Key(row) \in hand[e] /\ row.exec = e}

RowsOf(e) == {row \in locks : row.exec = e}

Renewed(row) == [row EXCEPT !.silent = FALSE, !.lapsed = FALSE, !.aged = FALSE]

(* The sweep of lapsed rows that comes before the inserts. *)
Swept(rows, S) == {row \in rows : ~(row.res \in S /\ row.lapsed)}

AlwaysAcquirable(rows, S) == TRUE

Acquirable(rows, S) == \A row \in Swept(rows, S) : row.res \notin S

(* Two spellings of one file collide in the unique index: the task is in
   its own way. *)
SelfConflict(t) == ~IsInjective([n \in Declares[t] |-> Normal[n]])
-----------------------------------------------------------------------------
(***************************************************************************)
(* find_parallel_tasks() and claim_task_group().  Every task is pending    *)
(* and unleased at first, and what was found may be old when it is         *)
(* claimed: any group of tasks that do not conflict may be asked for.      *)
(***************************************************************************)

Conflict(t, u) == Needs(t) \cap Needs(u) # {}

Groups ==
  {<<t>> : t \in Tasks}
    \cup {g \in Tasks \X Tasks : g[1] < g[2] /\ ~Conflict(g[1], g[2])}

(* The check looks for an unexpired active row, but task_leases keeps one
   row per task for ever: the insert is refused whenever there is one. *)
NotLeased(t) == lease[t] # "active"

NeverLeased(t) == lease[t] = "none"

Claimable(t) ==
  /\ NeverLeased(t) /\ task[t] = "pending"
  /\ Acquirable(locks, Needs(t)) /\ ~SelfConflict(t)

(* One transaction claims the whole group or nothing: executions rows, leases
   and locks.  Every execution of the group is handed all of its lock_ids and
   lock_tokens in one list. *)
ClaimGroup(g) ==
  LET to == [i \in DOMAIN g |-> Cardinality({f \in Execs : exec[f] # 0}) + i]
      rows == UNION {{NewRow(r, to[i]) : r \in Needs(g[i])} : i \in DOMAIN g}
      mine(e, i) == i \in DOMAIN g /\ to[i] = e
      new(e) == \E i \in DOMAIN g : mine(e, i)
  IN
  /\ boot = Up
  /\ Range(to) \subseteq Execs
  /\ \A t \in Range(g) : Claimable(t)
  /\ locks' = Swept(locks, UNION {Needs(t) : t \in Range(g)}) \cup rows
  /\ lease' = [t \in Tasks |-> IF t \in Range(g) THEN "active" ELSE lease[t]]
  /\ exec' = [e \in Execs |-> IF new(e) THEN g[CHOOSE i \in DOMAIN g : mine(e, i)] ELSE exec[e]]
  /\ hand' = [e \in Execs |-> IF new(e) THEN {Key(row) : row \in rows} ELSE hand[e]]
  /\ phase' = [e \in Execs |-> IF new(e) THEN "claimed" ELSE phase[e]]
  /\ UNCHANGED <<task, runRow, boot, tardy, mishaps>>
-----------------------------------------------------------------------------
(***************************************************************************)
(* The lock manager.                                                       *)
(***************************************************************************)

Write(rows) == locks' = rows
OnlyLocks == UNCHANGED <<lease, exec, task, runRow, phase, boot, tardy>>

(* A lapsed row that nobody has swept is revived. *)
Renew(e) ==
  /\ Working(e)
  /\ \E row \in Held(e) : Write((locks \ {row}) \cup {Renewed(row)})
  /\ OnlyLocks /\ UNCHANGED <<hand, mishaps>>

RenewAll(e) ==
  /\ Working(e)
  /\ Write((locks \ RowsOf(e)) \cup {Renewed(row) : row \in RowsOf(e)})
  /\ OnlyLocks /\ UNCHANGED <<hand, mishaps>>

(* Only the heartbeat makes a row ripe; a lapsed row stays lapsed. *)
TakeOver(e) ==
  /\ Working(e)
  /\ \E row \in locks :
       LET taken == [row EXCEPT !.token = MaxExecs + mishaps, !.exec = e,
                                !.silent = FALSE, !.aged = TRUE]
       IN /\ row.silent
          /\ Write((locks \ {row}) \cup {taken})
          /\ hand' = [hand EXCEPT ![e] = @ \cup {Key(taken)}]
  /\ OnlyLocks /\ UNCHANGED mishaps

CleanupExpired ==
  /\ Write({row \in locks : ~row.lapsed})
  /\ OnlyLocks /\ UNCHANGED <<hand, mishaps>>

(* release_task_group() for an execution whose thread is not alive: all its
   locks, and the active lease of its task. *)
ReleaseGroup(e) ==
  /\ exec[e] # 0 /\ ~Alive(e)
  /\ Write(locks \ RowsOf(e))
  /\ lease' = [lease EXCEPT ![exec[e]] = IF @ = "none" THEN @ ELSE "released"]
  /\ phase' = [phase EXCEPT ![e] = "over"]
  /\ UNCHANGED <<exec, task, runRow, hand, boot, tardy, mishaps>>
-----------------------------------------------------------------------------
(***************************************************************************)
(* Time: two minutes without a heartbeat make a lock ripe for a takeover,  *)
(* five let it lapse - earlier after a takeover; an hour lapses a lease.   *)
(***************************************************************************)

Aging(row, aged) ==
  /\ locks' = (locks \ {row}) \cup {aged}
  /\ tardy' = tardy \cup {row.exec}
  /\ UNCHANGED <<lease, exec, task, runRow, hand, phase, boot>>

Silence ==
  /\ Mishap
  /\ \E row \in locks : ~row.silent /\ Aging(row, [row EXCEPT !.silent = TRUE])

Lapse ==
  /\ UNCHANGED mishaps
  /\ \E row \in locks :
       /\ ~row.lapsed /\ (row.silent \/ row.aged)
       /\ Aging(row, [row EXCEPT !.lapsed = TRUE])

LeaseLapses(t) ==
  /\ Mishap /\ lease[t] = "active"
  /\ lease' = [lease EXCEPT ![t] = "lapsed"]
  /\ UNCHANGED <<locks, exec, task, runRow, hand, phase, boot, tardy>>
-----------------------------------------------------------------------------
(***************************************************************************)
(* recover_on_startup(): four transactions; one that fails is passed over. *)
(* The run may have been silent for five minutes by then, or not.          *)
(***************************************************************************)

RecoverStep ==
  \/ /\ boot = 1
     /\ locks' = {row \in locks : ~row.lapsed}
     /\ UNCHANGED <<lease, runRow>>
  \/ /\ boot = 2
     /\ lease' = [t \in Tasks |-> IF lease[t] = "lapsed" THEN "released" ELSE lease[t]]
     /\ UNCHANGED <<locks, runRow>>
  \/ /\ boot = 3
     /\ runRow' \in {runRow, "blocked"}
     /\ UNCHANGED <<locks, lease>>
  \/ /\ boot = 4
     /\ locks' = IF runRow = "blocked" THEN {} ELSE locks
     /\ UNCHANGED <<lease, runRow>>

Recover ==
  /\ boot # Up
  /\ boot' = (boot + 1) % 5
  /\ \/ RecoverStep /\ UNCHANGED mishaps
     \/ Mishap /\ UNCHANGED <<locks, lease, runRow>>
  /\ UNCHANGED <<exec, task, hand, phase, tardy>>

LockInit ==
  /\ locks = {}
  /\ lease = [t \in Tasks |-> "none"]
  /\ exec = [e \in Execs |-> 0]
  /\ task = [t \in Tasks |-> "pending"]
  /\ runRow = "active"
  /\ hand = [e \in Execs |-> {}]
  /\ phase = [e \in Execs |-> "none"]
  /\ boot = Up
  /\ tardy = {}

LockStep ==
  \/ \E g \in Groups : ClaimGroup(g)
  \/ \E e \in Execs : Renew(e) \/ RenewAll(e) \/ TakeOver(e) \/ ReleaseGroup(e)
  \/ CleanupExpired

Clock == Silence \/ Lapse \/ \E t \in Tasks : LeaseLapses(t)
=============================================================================
