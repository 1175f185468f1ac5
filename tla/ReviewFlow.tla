----------------------------- MODULE ReviewFlow -----------------------------
(***************************************************************************)
(* The control plane with the review of results                            *)
(* (task_result_submission_service.py, task_review_service.py).  A         *)
(* submission stores one result; a reviewer begins a review of a result of *)
(* a task in RESULT_SUBMITTED and later files a decision, which moves the  *)
(* task.  Both are calls of the ControlPlane kind: checks first, then one  *)
(* transaction, with any other call in between.                            *)
(***************************************************************************)
EXTENDS ControlPlane

CONSTANT Reviewers  \* agents of worker_type 'reviewer', none offline

(* What a submission, the begin of a review and a verdict write is written *)
(* by their services alone: the repository calls transition() for RUNNING  *)
(* only, and no task is created with a result.                             *)
ASSUME ReviewMovesAssumption ==
  \A m \in TaskMoves :
    m[2] \notin {"result_submitted", "reviewing", "verified", "rework",
                "blocked", "need_user"}

ASSUME ReviewSeedAssumption ==
  SeedStates \cap {"result_submitted", "reviewing", "verified"} = {}

VARIABLES
  result,   \* result[a]: the row of task_results for assignment a
  review,   \* review[a]: the row of review_decisions for that result
  latest    \* latest[t]: the assignment that delivered last (history)

reviewVars == <<result, review, latest>>
rvars == <<vars, reviewVars>>

FINAL_DECISIONS == {"VERIFIED", "REWORK", "BLOCKED", "NEED_USER"}

FINAL_TASK_STATES ==
  [d \in FINAL_DECISIONS |->
     CASE d = "VERIFIED"  -> "verified"
       [] d = "REWORK"    -> "rework"
       [] d = "BLOCKED"   -> "blocked"
       [] d = "NEED_USER" -> "need_user"]

NoResult == [tests |-> "none"]
ResultRow == [tests : {"passed", "failed"}]

(* No assignment, and no reviewer.                                         *)
Nobody == "nobody"

ASSUME NobodyAssumption == Nobody \notin Assignments \cup Reviewers

NoReview == [decision |-> "none", reviewer |-> Nobody]
ReviewRow == [decision : FINAL_DECISIONS \cup {"REVIEWING"}, reviewer : Reviewers]

ReviewRequests ==
  [op : {"begin_review"}, asg : Assignments, reviewer : Reviewers,
   task : Tasks, seen : TaskRow] \cup
  [op : {"decide"}, asg : Assignments, reviewer : Reviewers, task : Tasks,
   decision : FINAL_DECISIONS, seen : TaskRow]

ReviewInit ==
  /\ Init
  /\ result = [a \in Assignments |-> NoResult]
  /\ review = [a \in Assignments |-> NoReview]
  /\ latest = [t \in Tasks |-> Nobody]
-----------------------------------------------------------------------------
(* submit_result() with the row it inserts; UNIQUE(assignment_id) lets an  *)
(* assignment deliver once.                                                *)
SubmitResult(c) ==
  LET k == call[c] IN
  /\ CommitSubmit(c)
  /\ result[k.asg] = NoResult
  /\ \E row \in ResultRow : result' = [result EXCEPT ![k.asg] = row]
  /\ latest' = [latest EXCEPT ![k.task] = k.asg]
  /\ UNCHANGED review

(* _preflight(): a result, and its task in the status the call expects.    *)
Preflight(a, s) == result[a] # NoResult /\ task[asg[a].task].status = s

(* Any result of the task will do.                                         *)
BeginBeginReview(c, a, r) ==
  /\ Preflight(a, "result_submitted")
  /\ review[a] = NoReview \/ review[a].reviewer = r
  /\ Begin(c, [op |-> "begin_review", asg |-> a, reviewer |-> r,
               task |-> asg[a].task, seen |-> task[asg[a].task]])
  /\ UNCHANGED reviewVars

(* The re-check of the task, in the transaction and in its update.         *)
TaskStillUnchecked(k, s) == TRUE
TaskStill(k, s) == task[k.task].status = s /\ SameVersion(k)

OpenReviewAnonymous(r) == [decision |-> "REVIEWING", reviewer |-> Nobody]
OpenReview(r) == [decision |-> "REVIEWING", reviewer |-> r]

(* No row yet, or an unfinished one of the same reviewer.                  *)
ReviewableAgain(a, r) == review[a] = NoReview \/ review[a].reviewer = r
Reviewable(a, r) == review[a] \in {NoReview, OpenReview(r)}

CommitBeginReview(c) ==
  LET k == call[c] IN
  /\ k.op = "begin_review"
  /\ TaskStill(k, "result_submitted")
  /\ Reviewable(k.asg, k.reviewer)
  /\ review' = [review EXCEPT ![k.asg] = OpenReview(k.reviewer)]
  /\ task' = [task EXCEPT ![k.task] = Moved(@, "reviewing")]
  /\ Finish(c)
  /\ UNCHANGED <<asg, worker, result, latest>>

(* _validate_result_for_decision(): VERIFIED needs a result with no failed *)
(* test.                                                                   *)
DecidableAlways(a, d) == TRUE
Decidable(a, d) == d = "VERIFIED" => result[a].tests = "passed"

BeginDecide(c, a, r, d) ==
  /\ Preflight(a, "reviewing")
  /\ review[a] = OpenReview(r)
  /\ Decidable(a, d)
  /\ Begin(c, [op |-> "decide", asg |-> a, reviewer |-> r, decision |-> d,
               task |-> asg[a].task, seen |-> task[asg[a].task]])
  /\ UNCHANGED reviewVars

CommitDecide(c) ==
  LET k == call[c] IN
  /\ k.op = "decide"
  /\ review[k.asg] = OpenReview(k.reviewer)
  /\ TaskStill(k, "reviewing")
  /\ review' = [review EXCEPT ![k.asg].decision = k.decision]
  /\ task' = [task EXCEPT ![k.task] = Moved(@, FINAL_TASK_STATES[k.decision])]
  /\ Finish(c)
  /\ UNCHANGED <<asg, worker, result, latest>>

(* The two calls of the review endpoint.                                   *)
ReviewCall(c) ==
  \/ \E a \in Assignments, r \in Reviewers : BeginBeginReview(c, a, r)
  \/ \E a \in Assignments, r \in Reviewers, d \in FINAL_DECISIONS :
       BeginDecide(c, a, r, d)

ReviewStep(c) ==
  \/ SubmitResult(c)
  \/ ReviewCall(c)
  \/ CommitBeginReview(c)
  \/ CommitDecide(c)

ReviewNext ==
  \/ \E c \in Callers : CallStep(c) /\ UNCHANGED reviewVars
  \/ \E c \in Callers : ReviewStep(c)
  \/ Surroundings /\ UNCHANGED reviewVars

ReviewSpec == ReviewInit /\ [][ReviewNext]_rvars
-----------------------------------------------------------------------------
ReviewTypeOK ==
  /\ task \in [Tasks -> TaskRow]
  /\ asg \in [Assignments -> {Unused} \cup AssignmentRow]
  /\ worker \in [Workers -> WORKER_STATUSES \cup {"absent"}]
  /\ call \in [Callers -> {Idle} \cup Requests \cup ReviewRequests]
  /\ result \in [Assignments -> {NoResult} \cup ResultRow]
  /\ review \in [Assignments -> {NoReview} \cup ReviewRow]
  /\ latest \in [Tasks -> Assignments \cup {Nobody}]

(* A task is VERIFIED only on the strength of its latest result: that      *)
(* result was reviewed, found verified, and failed no test.                *)
VerdictOnLatest == \A t \in Tasks :
  task[t].status = "verified" =>
    /\ latest[t] # Nobody
    /\ review[latest[t]].decision = "VERIFIED"
    /\ result[latest[t]].tests = "passed"

(* While a task is REVIEWING exactly one of its results is under review,   *)
(* and it is the one delivered last: two reviewers never work on the same  *)
(* task, and no one works on a superseded result.                          *)
ReviewExclusive == \A t \in Tasks :
  task[t].status = "reviewing" =>
    {a \in Assignments : asg[a] # Unused /\ asg[a].task = t
                          /\ review[a].decision = "REVIEWING"} = {latest[t]}

(* A verdict is final: no later review, decision or retry rewrites it.     *)
VerdictFinal == [][\A a \in Assignments :
  review[a].decision \in FINAL_DECISIONS => review'[a] = review[a]]_rvars

(* The requests of the control plane proper.                               *)
PlainOps == {"claim", "recover", "submit", "transition", "heartbeat",
             "set_status", "register"}

(* The transition of the task that a call of the review service comes to.  *)
AsTransition(k, s) ==
  [op |-> "transition", task |-> k.task, target |-> s, seen |-> k.seen]

(* A call as the control plane sees it.                                    *)
PlainRequest(k) ==
  IF k.op \in PlainOps THEN k
  ELSE IF k.op = "begin_review" THEN AsTransition(k, "reviewing")
  ELSE IF k.op = "decide" THEN AsTransition(k, FINAL_TASK_STATES[k.decision])
  ELSE Idle

PlainCall == [c \in Callers |-> PlainRequest(call[c])]

ReviewMoves ==
  {<<"supervisor", "reviewing">>} \cup
  {"reviewer"} \X {FINAL_TASK_STATES[d] : d \in FINAL_DECISIONS}

(* The review service adds no behaviour of tasks, assignments and workers: *)
(* with its calls read as transitions by a supervisor and a reviewer, what *)
(* it does is what the control plane allows, whatever else is in flight    *)
(* (its transactions update the task themselves, not through transition()) *)
Plain == INSTANCE ControlPlane WITH
           call <- PlainCall, TaskMoves <- TaskMoves \cup ReviewMoves
ControlPlaneSpec == Plain!Spec
=============================================================================
