---------------------------- MODULE AgentRuntime ----------------------------
(***************************************************************************)
(* The clients of the control plane: the runtime processes of one worker   *)
(* (backend/app/agent_runtime), which talk to it over HTTP, and the        *)
(* supervisor (supervisor/orchestration_service.py), which calls its       *)
(* services.                                                               *)
(*                                                                         *)
(* A runtime sends one request at a time, under a key that never changes   *)
(* ("claim-<task>-<worker>", "submit-<assignment>"), and sends it again    *)
(* when no answer comes.  A request that was given up may still be served, *)
(* and its answer is then read by nobody.                                  *)
(***************************************************************************)
EXTENDS ControlPlane

CONSTANTS
  Procs,         \* processes that may be started on one runtime directory
  Me,            \* the worker id in their configuration
  Mine,          \* the task they are allowed, allowed_task_ids[0]
  Supervisors,   \* callers of run_one_cycle() of the orchestration service
  Keys,          \* the idempotency keys they use
  MaxTries,      \* max_retries of the client
  MaxLaunches,   \* bound: starts of processes
  None

VARIABLES
  lock,       \* the lock file exists
  proc,       \* proc[p]: where process p is, and the claim it has been given
  launches,
  claimed,    \* claimed[k]: the assignment that the claim with key k made
  reports,    \* the assignments that a process reported as submitted
  cycle,      \* cycle[k]: the row of supervisor_cycles with key k
  sup,        \* sup[s]: the cycle that supervisor s is in
  told        \* the answers of run_one_cycle()

agentVars == <<vars, lock, proc, launches, claimed, reports, cycle, sup, told>>

ASSUME ClientsAssumption ==
  /\ Me \in Workers /\ Mine \in Tasks
  /\ Supervisors \subseteq Callers
  /\ {MaxTries, MaxLaunches} \subseteq Nat

(* A row of supervisor_cycles; None is no row, no assignment, no connection. *)
CycleRow == [action : {"CLAIM_TASK", "WAIT"}, result : {"started", "success", "failed"}]

ASSUME NoneAssumption ==
  None \notin Assignments \cup Callers \cup CycleRow \cup {"lost"}
ASSUME LostAssumption == "lost" \notin Callers

Handlers == Callers \ Supervisors      \* the connections of the HTTP server

(* The one key of the runtimes' claims; a supervisor makes one per cycle. *)
Own == "claim-task-worker"

(* The row of a process that waits for no answer. *)
Place(pc, tries, a, token) ==
  [pc |-> pc, on |-> None, tries |-> tries, asg |-> a, token |-> token]

Off == Place("off", 0, None, FALSE)
Resting == [pc |-> "resting"]

At(p, pc) == proc[p].pc = pc
Put(p, row) == [proc EXCEPT ![p] = row]
Go(p, pc) == Put(p, Place(pc, 0, proc[p].asg, proc[p].token))
Ask(p, pc) == Put(p, Place(pc, MaxTries, proc[p].asg, proc[p].token))
AskAgain(p) == Put(p, Place(proc[p].pc, proc[p].tries - 1, proc[p].asg, proc[p].token))

Sending(p, pc) == At(p, pc) /\ proc[p].on = None

Clients == <<lock, launches, reports, cycle, sup, told>>
Supervision == <<cycle, sup, told>>
-----------------------------------------------------------------------------
(***************************************************************************)
(* A process: run_forever().                                               *)
(***************************************************************************)

(* The file is opened for exclusive creation, and unlinked whoever made it. *)
TakeLock == lock' = TRUE
DropLock == lock' = FALSE

(* A start that finds the lock file raises, and ends like every other. *)
Launch(p) ==
  /\ At(p, "off") /\ launches < MaxLaunches
  /\ launches' = launches + 1
  /\ TakeLock
  /\ proc' = Go(p, IF lock THEN "leaving" ELSE "idle")
  /\ UNCHANGED <<vars, claimed, reports, Supervision>>

(* shutdown(), also of a start that was refused. *)
Leave(p) ==
  /\ At(p, "leaving") \/ At(p, "idle")
  /\ DropLock
  /\ proc' = Put(p, Off)
  /\ UNCHANGED <<vars, launches, claimed, reports, Supervision>>

Die(p) ==
  /\ ~At(p, "off")
  /\ proc' = Put(p, Off)
  /\ UNCHANGED <<vars, lock, launches, claimed, reports, Supervision>>

BeginCycle(p) ==
  /\ At(p, "idle")
  /\ proc' = Ask(p, "claim")
  /\ UNCHANGED <<vars, claimed, Clients>>

(* No answer within the timeout: the request is sent again, or the error
   ends the process. *)
TimeOut(p) ==
  /\ proc[p].pc \in {"claim", "submit"}
  /\ proc' = IF proc[p].tries > 0 THEN AskAgain(p) ELSE Go(p, "leaving")
  /\ UNCHANGED <<vars, claimed, Clients>>

(* WORKER_NOT_REGISTERED and STALE_LEASE end run_forever(), most errors do not. *)
Fatal(p) ==
  \/ At(p, "claim") /\ worker[Me] = "absent"
  \/ At(p, "submit") /\ asg[proc[p].asg].status = "running" /\ asg[proc[p].asg].lapsed

AfterRefusal(p) == Go(p, IF Fatal(p) THEN "leaving" ELSE "idle")

(* The answer to a request reaches the process that waits for it, or is lost. *)
LoseAnswer(c) ==
  proc' = [p \in Procs |-> IF proc[p].on = c THEN [proc[p] EXCEPT !.on = "lost"] ELSE proc[p]]

Answered(c, next(_)) ==
  \/ LoseAnswer(c)
  \/ \E p \in Procs : proc[p].on = c /\ proc' = next(p)
-----------------------------------------------------------------------------
(***************************************************************************)
(* The claim.                                                              *)
(***************************************************************************)

Claimable ==
  /\ worker[Me] = "available"
  /\ task[Mine].status = "queued" /\ task[Mine].version = 1
  /\ \A a \in HeldBy(Mine) : asg[a].lapsed

SendClaim(p, c) ==
  /\ Sending(p, "claim") /\ claimed[Own] = None /\ task[Mine].version = 1
  /\ BeginClaim(c, Mine, Me)
  /\ proc' = [proc EXCEPT ![p].on = c]
  /\ UNCHANGED <<claimed, Clients>>

ClaimRefused(p) ==
  /\ Sending(p, "claim") /\ claimed[Own] = None /\ ~Claimable
  /\ proc' = AfterRefusal(p)
  /\ UNCHANGED <<vars, claimed, Clients>>

Given(p, a, token) == Put(p, Place("work", 0, a, token))

ReissueToken(p) == Given(p, claimed[Own], TRUE)

(* The endpoint answers a repeated claim without the lease token and without
   the task; the runtime takes the task for one it does not support. *)
WithholdToken(p) == Put(p, Place("idle", 0, claimed[Own], FALSE))

ClaimRepeated(p) ==
  /\ Sending(p, "claim") /\ claimed[Own] # None
  /\ proc' = WithholdToken(p)
  /\ UNCHANGED <<vars, claimed, Clients>>

NewAssignment == CHOOSE a \in Assignments : asg[a] = Unused /\ asg'[a] # Unused

ClaimMade(c) ==
  /\ c \in Handlers /\ CommitClaim(c)
  /\ claimed' = [claimed EXCEPT ![Own] = NewAssignment]
  /\ Answered(c, LAMBDA p : Given(p, NewAssignment, TRUE))
  /\ UNCHANGED Clients
-----------------------------------------------------------------------------
(***************************************************************************)
(* The work, and its result.                                               *)
(***************************************************************************)

Work(p) ==
  /\ At(p, "work")
  /\ proc' = Ask(p, "submit")
  /\ UNCHANGED <<vars, claimed, Clients>>

(* The endpoint hands assignment and token on to the service. *)
HeartbeatCall(p, c) == BeginHeartbeat(c, proc[p].asg)

(* The heartbeat thread runs from the claim to the answer of the submission,
   for a process that has the lease token. *)
Beating(p) == proc[p].pc \in {"work", "submit"} /\ proc[p].token

SendHeartbeat(p, c) ==
  /\ Beating(p)
  /\ HeartbeatCall(p, c)
  /\ UNCHANGED <<proc, claimed, Clients>>

(* expected_version is that of the claim, plus one. *)
Submittable(a) ==
  /\ asg[a].status = "running" /\ ~asg[a].lapsed
  /\ task[Mine].status = "running" /\ task[Mine].version = 3

Stored(a) == asg[a].status = "completed"

SendSubmit(p, c) ==
  /\ Sending(p, "submit") /\ Submittable(proc[p].asg)
  /\ BeginSubmit(c, proc[p].asg)
  /\ proc' = [proc EXCEPT ![p].on = c]
  /\ UNCHANGED <<claimed, Clients>>

Report(a) == reports' = reports \cup {a}

SubmitRefusedIsDone(p) ==
  /\ Sending(p, "submit")
  /\ ~Stored(proc[p].asg) /\ ~Submittable(proc[p].asg)
  /\ Report(proc[p].asg) /\ proc' = Go(p, "idle")
  /\ UNCHANGED <<vars, lock, launches, claimed, Supervision>>

SubmitRefused(p) ==
  LET a == proc[p].asg IN
  /\ Sending(p, "submit") /\ ~Stored(a) /\ ~Submittable(a)
  /\ proc' = AfterRefusal(p)
  /\ UNCHANGED <<vars, claimed, Clients>>

SubmitRepeated(p) ==
  /\ Sending(p, "submit") /\ Stored(proc[p].asg)
  /\ Report(proc[p].asg)
  /\ proc' = Go(p, "idle")
  /\ UNCHANGED <<vars, lock, launches, claimed, Supervision>>

SubmitMade(c) ==
  /\ CommitSubmit(c)
  /\ \/ LoseAnswer(c) /\ UNCHANGED reports
     \/ \E p \in Procs :
          /\ proc[p].on = c /\ proc' = Go(p, "idle")
          /\ Report(proc[p].asg)
  /\ UNCHANGED <<lock, launches, claimed, Supervision>>

(* An error is answered, and tried again when it is the server's. *)
RequestFailed(c) ==
  /\ c \in Handlers /\ Abandon(c)
  /\ \/ Answered(c, AfterRefusal)
     \/ \E p \in Procs : proc[p].on = c /\ proc[p].tries > 0 /\ proc' = AskAgain(p)
  /\ UNCHANGED <<claimed, Clients>>
-----------------------------------------------------------------------------
(***************************************************************************)
(* The supervisor: run_one_cycle() with dry_run off.                       *)
(***************************************************************************)

Tell(k, row, again) ==
  told' = told \cup {[key |-> k, ok |-> row.result # "failed",
                      open |-> row.result = "started", again |-> again]}

(* _cycle_by_key(): the row is the answer, whatever has become of it. *)
CycleRepeated(s, k) ==
  /\ sup[s] = Resting /\ cycle[k] # None
  /\ Tell(k, cycle[k], TRUE)
  /\ UNCHANGED <<vars, lock, proc, launches, claimed, reports, cycle, sup>>

(* The one task of the project is the candidate; the one executor is taken
   when it is available. *)
Candidate == task[Mine]
ActorFree == worker[Me] = "available"

(* _plan(): every other status waits for somebody.  There is no reviewer
   here, so a result waits for one too. *)
Plan == IF Candidate.status = "queued" /\ ActorFree THEN "CLAIM_TASK" ELSE "WAIT"

PlanCycle(s, k) ==
  /\ sup[s] = Resting /\ cycle[k] = None
  /\ sup' = [sup EXCEPT ![s] = [pc |-> "planned", key |-> k, action |-> Plan,
                                version |-> Candidate.version]]
  /\ UNCHANGED <<vars, lock, proc, launches, claimed, reports, cycle, told>>

(* idempotency_key TEXT UNIQUE: a second row with the key is refused. *)
KeyFree(k) == cycle[k] = None

InsertFinished(s) ==
  LET k == sup[s].key IN
  /\ sup[s].pc = "planned" /\ KeyFree(k)
  /\ cycle' = [cycle EXCEPT ![k] = [action |-> sup[s].action, result |-> "success"]]
  /\ sup' = [sup EXCEPT ![s].pc = "inserted"]
  /\ UNCHANGED <<vars, lock, proc, launches, claimed, reports, told>>

(* The row is written before the plan is carried out. *)
InsertCycle(s) ==
  LET k == sup[s].key IN
  /\ sup[s].pc = "planned" /\ KeyFree(k)
  /\ cycle' = [cycle EXCEPT ![k] = [action |-> sup[s].action, result |-> "started"]]
  /\ sup' = [sup EXCEPT ![s].pc = "inserted"]
  /\ UNCHANGED <<vars, lock, proc, launches, claimed, reports, told>>

Acted(s, ok) == sup' = [sup EXCEPT ![s] = [pc |-> "acted", key |-> sup[s].key, ok |-> ok]]

BeginSupervisedClaim(s) ==
  /\ sup[s].pc = "inserted" /\ sup[s].action = "CLAIM_TASK"
  /\ task[Mine].version = sup[s].version
  /\ BeginClaim(s, Mine, Me)
  /\ UNCHANGED <<proc, claimed, Clients>>

SupervisedClaim(s) ==
  /\ s \in Supervisors /\ sup[s].pc = "inserted" /\ CommitClaim(s)
  /\ claimed' = [claimed EXCEPT ![sup[s].key] = NewAssignment]
  /\ Acted(s, TRUE)
  /\ UNCHANGED <<lock, proc, launches, reports, cycle, told>>

(* The checks of the claim, or its transaction, fail; or there is nothing to
   do, which succeeds. *)
NothingDone(s) ==
  /\ sup[s].pc = "inserted"
  /\ call' = [call EXCEPT ![s] = Idle]
  /\ Acted(s, sup[s].action # "CLAIM_TASK")
  /\ UNCHANGED <<task, asg, worker, lock, proc, launches, claimed, reports, cycle, told>>

RecordCycle(s) ==
  LET k == sup[s].key
      row == [cycle[k] EXCEPT !.result = IF sup[s].ok THEN "success" ELSE "failed"]
  IN
  /\ sup[s].pc = "acted"
  /\ cycle' = [cycle EXCEPT ![k] = row]
  /\ Tell(k, row, FALSE)
  /\ sup' = [sup EXCEPT ![s] = Resting]
  /\ UNCHANGED <<vars, lock, proc, launches, claimed, reports>>

(* The supervisor dies, or its insert fails. *)
CycleLost(s) ==
  /\ sup[s] # Resting
  /\ sup' = [sup EXCEPT ![s] = Resting]
  /\ call' = [call EXCEPT ![s] = Idle]
  /\ UNCHANGED <<task, asg, worker, lock, proc, launches, claimed, reports, cycle, told>>
-----------------------------------------------------------------------------
AgentInit ==
  /\ Init
  /\ lock = FALSE
  /\ proc = [p \in Procs |-> Off]
  /\ launches = 0
  /\ claimed = [k \in Keys \cup {Own} |-> None]
  /\ reports = {} /\ told = {}
  /\ cycle = [k \in Keys |-> None]
  /\ sup = [s \in Supervisors |-> Resting]

Running(p) ==
  \/ Launch(p) \/ Leave(p) \/ Die(p) \/ BeginCycle(p) \/ TimeOut(p)
  \/ ClaimRefused(p) \/ ClaimRepeated(p) \/ Work(p)
  \/ SubmitRefused(p) \/ SubmitRepeated(p)
  \/ \E c \in Handlers : SendClaim(p, c) \/ SendHeartbeat(p, c) \/ SendSubmit(p, c)

Serving(c) == ClaimMade(c) \/ SubmitMade(c) \/ RequestFailed(c)

Supervising(s) ==
  \/ \E k \in Keys : CycleRepeated(s, k) \/ PlanCycle(s, k)
  \/ InsertCycle(s) \/ BeginSupervisedClaim(s) \/ SupervisedClaim(s)
  \/ NothingDone(s) \/ RecordCycle(s) \/ CycleLost(s)

(* A process registers its worker before its first cycle. *)
RegisterCall(c) == (\E p \in Procs : At(p, "idle")) /\ BeginRegister(c, Me)

(* Registration, operators, the sweep of lapsed leases, and the clock. *)
Elsewhere ==
  /\ \/ \E c \in Handlers :
          \/ RegisterCall(c)
          \/ \E s \in WORKER_STATUSES : BeginSetStatus(c, Me, s)
          \/ \E a \in Assignments : BeginRecover(c, a)
          \/ \E move \in TaskMoves : BeginTransition(c, Mine, move)
          \/ CommitHeartbeat(c) \/ CommitRecover(c) \/ CommitTransition(c)
          \/ CommitSetStatus(c) \/ CommitRegister(c)
     \/ Surroundings
  /\ UNCHANGED <<proc, claimed, Clients>>

AgentNext ==
  \/ \E p \in Procs : Running(p)
  \/ \E c \in Handlers : Serving(c)
  \/ \E s \in Supervisors : Supervising(s)
  \/ Elsewhere

AgentSpec == AgentInit /\ [][AgentNext]_agentVars
-----------------------------------------------------------------------------
(* However often a claim is sent, by however many processes of the worker,
   and whoever else claims: no two processes are given the same lease. *)
OneHolder == \A p, q \in Procs :
  proc[p].token /\ proc[q].token /\ proc[p].asg = proc[q].asg => p = q

(* A submission that a process reports, after whatever was lost and sent
   again, is stored. *)
ReportedIsStored == \A a \in reports : Stored(a)

(* A cycle that is answered as a success has done what it planned, unless the
   answer was read from a row that nobody had closed. *)
ToldIsDone == \A x \in told :
  x.ok /\ ~x.open /\ cycle[x.key].action = "CLAIM_TASK" => claimed[x.key] # None
=============================================================================
