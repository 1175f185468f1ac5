------------------------- MODULE ReviewFlow_proofs -------------------------
(***************************************************************************)
(* Proofs about ReviewFlow for every choice of its constants: that it      *)
(* implements the control plane, and what its verdicts rest on.            *)
(*                                                                         *)
(* Read with its calls as transitions (PlainCall), every step of the       *)
(* review flow is a step of ControlPlane or leaves it alone.  The lemmas   *)
(* of ControlPlane_proofs then hold of the rows and calls of this module:  *)
(* CP is that module under the refinement mapping.                         *)
(***************************************************************************)
EXTENDS ReviewFlow, TLAPS

CP == INSTANCE ControlPlane_proofs WITH
        call <- PlainCall, TaskMoves <- TaskMoves \cup ReviewMoves

(* The calls in flight are one for each connection.                        *)
CallMap == call = [c \in Callers |-> call[c]]

(* Only the services of this module make requests.                         *)
CallsKnown == \A c \in Callers :
  call[c] = Idle \/ call[c].op \in PlainOps \/ call[c] \in ReviewRequests

ReviewRowsOK ==
  /\ result \in [Assignments -> {NoResult} \cup ResultRow]
  /\ review \in [Assignments -> {NoReview} \cup ReviewRow]
  /\ latest \in [Tasks -> Assignments \cup {Nobody}]

(* Results belong to assignments that were made, reviews to results, and   *)
(* the last delivery of a task is one of its own.                          *)
ResultsBound ==
  /\ \A a \in Assignments : result[a] # NoResult => asg[a] # Unused
  /\ \A a \in Assignments : review[a] # NoReview => result[a] # NoResult
  /\ \A t \in Tasks : latest[t] # Nobody =>
       result[latest[t]] # NoResult /\ asg[latest[t]].task = t

(* The states that a submission and the review service write.              *)
ReviewWrites == {"result_submitted", "reviewing", "verified", "rework",
                 "blocked", "need_user"}

(* What the checks of a review call establish and no other call undoes,    *)
(* and that no transition writes what a review writes.                     *)
ReviewCallsChecked == \A c \in Callers :
  LET k == call[c] IN
  /\ k.op \in {"begin_review", "decide"} =>
       /\ k.asg \in Assignments
       /\ result[k.asg] # NoResult
       /\ asg[k.asg].task = k.task
  /\ k.op \in {"begin_review", "decide"} => k.reviewer \in Reviewers
  /\ k.op = "decide" =>
       /\ k.decision \in FINAL_DECISIONS
       /\ k.decision = "VERIFIED" => result[k.asg].tests = "passed"
  /\ k.op = "transition" => k.target \notin ReviewWrites

(* Every result but the last of its task has its verdict.                  *)
OlderDecided == \A a \in Assignments :
  result[a] # NoResult /\ latest[asg[a].task] # a =>
    review[a].decision \in FINAL_DECISIONS

(* The review of the last result of t is as far as the status of t says.   *)
Followed(s, t) ==
  LET v == review[latest[t]] IN
  /\ s = "result_submitted" => v = NoReview
  /\ s = "reviewing" => v.decision = "REVIEWING"
  /\ s = "verified" => v.decision = "VERIFIED" /\ result[latest[t]].tests = "passed"
  /\ s \notin {"result_submitted", "reviewing", "cancelled"} =>
       v.decision \in FINAL_DECISIONS

LatestFollowed == \A t \in Tasks :
  /\ task[t].status \in {"result_submitted", "reviewing", "verified"} =>
       latest[t] # Nobody
  /\ latest[t] # Nobody => Followed(task[t].status, t)

(* The inductive invariant.                                                *)
ReviewInv ==
  /\ CP!IInv
  /\ CallMap
  /\ ReviewRowsOK
  /\ ResultsBound
  /\ ReviewCallsChecked
  /\ OlderDecided
  /\ LatestFollowed

USE DEF Idle, Unused
-----------------------------------------------------------------------------
(* ControlPlane's assumptions hold of the constants it is read with.       *)
LEMMA PlainAssumptions ==
  CP!TaskMovesAssumption /\ CP!SeedAssumption /\ CP!AdminMovesAssumption
<1>1. ReviewMoves \subseteq {m \in ACTOR_WRITEABLE_STATES : m[2] # "claimed"}
  BY DEF ReviewMoves, FINAL_TASK_STATES, FINAL_DECISIONS, ACTOR_WRITEABLE_STATES
<1>2. CP!TaskMovesAssumption
  BY <1>1, TaskMovesAssumption
     DEF CP!TaskMovesAssumption, CP!ACTOR_WRITEABLE_STATES, ACTOR_WRITEABLE_STATES
<1>3. CP!SeedAssumption
  BY SeedAssumption DEF CP!SeedAssumption, CP!ALL_STATES, ALL_STATES
<1>4. CP!AdminMovesAssumption
  BY AdminMovesAssumption
     DEF CP!AdminMovesAssumption, CP!WORKER_STATUSES, WORKER_STATUSES
<1> QED BY <1>2, <1>3, <1>4

(* What the control plane sees of a request.                               *)
LEMMA PlainRequests ==
  ASSUME NEW c \in Callers
  PROVE  /\ call[c] = Idle => PlainCall[c] = Idle
         /\ call[c].op \in PlainOps => PlainCall[c] = call[c]
         /\ call[c].op = "begin_review" =>
              PlainCall[c] = AsTransition(call[c], "reviewing")
         /\ call[c].op = "decide" =>
              PlainCall[c] =
                AsTransition(call[c], FINAL_TASK_STATES[call[c].decision])
BY DEF PlainCall, PlainRequest, PlainOps

LEMMA PlainBegin ==
  ASSUME CallMap, NEW c \in Callers, NEW r, Begin(c, r)
  PROVE  /\ CP!Begin(c, PlainRequest(r))
         /\ CallMap'
         /\ call'[c] = r
         /\ \A d \in Callers \ {c} : call'[d] = call[d]
         /\ UNCHANGED <<task, asg, worker>>
<1>1. call' = [call EXCEPT ![c] = r] /\ call[c] = Idle
  BY DEF Begin
<1>2. /\ \A d \in Callers : call'[d] = IF d = c THEN r ELSE call[d]
      /\ CallMap'
  BY <1>1 DEF CallMap
<1>3. PlainCall' = [PlainCall EXCEPT ![c] = PlainRequest(r)]
  BY <1>2 DEF PlainCall
<1>4. PlainCall[c] = Idle
  BY <1>1, PlainRequests
<1> QED BY <1>2, <1>3, <1>4 DEF Begin, CP!Begin, CP!Idle

LEMMA PlainFinish ==
  ASSUME CallMap, NEW c \in Callers, Finish(c)
  PROVE  /\ CP!Finish(c)
         /\ CallMap'
         /\ call'[c] = Idle
         /\ \A d \in Callers \ {c} : call'[d] = call[d]
<1>1. /\ \A d \in Callers : call'[d] = IF d = c THEN Idle ELSE call[d]
      /\ CallMap'
  BY DEF CallMap, Finish
<1>2. PlainRequest(Idle) = Idle
  BY DEF PlainRequest, PlainOps
<1>3. PlainCall' = [PlainCall EXCEPT ![c] = Idle]
  BY <1>1, <1>2 DEF PlainCall
<1> QED BY <1>1, <1>3 DEF CP!Finish, CP!Idle
-----------------------------------------------------------------------------
(* The calls of the control plane are seen as they are.                    *)
LEMMA PlainBeginCall ==
  ASSUME CallMap, NEW c \in Callers, BeginCall(c)
  PROVE  /\ CP!BeginCall(c)
         /\ \E r : Begin(c, r) /\ r.op \in PlainOps
<1> DEFINE Seen == CP!BeginCall(c) /\ \E r : Begin(c, r) /\ r.op \in PlainOps
<1>1. ASSUME NEW t \in Tasks, NEW w \in Workers, BeginClaim(c, t, w) PROVE Seen
  <2> DEFINE r == [op |-> "claim", task |-> t, worker |-> w, seen |-> task[t]]
  <2>1. PlainRequest(r) = r /\ r.op \in PlainOps
    BY DEF PlainRequest, PlainOps
  <2>2. Begin(c, r)
    BY <1>1 DEF BeginClaim
  <2>3. CP!Begin(c, r)
    BY <2>1, <2>2, PlainBegin
  <2>4. CP!BeginClaim(c, t, w)
    BY <1>1, <2>3
       DEF BeginClaim, CP!BeginClaim, MayClaim, CP!MayClaim, Queued, CP!Queued,
           HeldBy, CP!HeldBy, Active, CP!Active, ACTIVE_ASSIGNMENT_STATUSES,
           CP!ACTIVE_ASSIGNMENT_STATUSES
  <2> QED BY <2>1, <2>2, <2>4 DEF CP!BeginCall
<1>2. ASSUME NEW a \in Assignments, BeginHeartbeat(c, a) PROVE Seen
  <2> DEFINE r == [op |-> "heartbeat", asg |-> a]
  <2>1. PlainRequest(r) = r /\ r.op \in PlainOps
    BY DEF PlainRequest, PlainOps
  <2>2. Begin(c, r)
    BY <1>2 DEF BeginHeartbeat
  <2>3. CP!Begin(c, r)
    BY <2>1, <2>2, PlainBegin
  <2>4. CP!BeginHeartbeat(c, a)
    BY <1>2, <2>3
       DEF BeginHeartbeat, CP!BeginHeartbeat, Renewable, CP!Renewable, MayBeat,
           CP!MayBeat, Active, CP!Active, ACTIVE_ASSIGNMENT_STATUSES,
           CP!ACTIVE_ASSIGNMENT_STATUSES
  <2> QED BY <2>1, <2>2, <2>4 DEF CP!BeginCall
<1>3. ASSUME NEW a \in Assignments, BeginRecover(c, a) PROVE Seen
  <2> DEFINE r == [op |-> "recover", asg |-> a, task |-> asg[a].task,
                   seen |-> task[asg[a].task]]
  <2>1. PlainRequest(r) = r /\ r.op \in PlainOps
    BY DEF PlainRequest, PlainOps
  <2>2. Begin(c, r)
    BY <1>3 DEF BeginRecover
  <2>3. CP!Begin(c, r)
    BY <2>1, <2>2, PlainBegin
  <2>4. CP!BeginRecover(c, a)
    BY <1>3, <2>3
       DEF BeginRecover, CP!BeginRecover, Expired, CP!Expired, Active, CP!Active,
           ACTIVE_ASSIGNMENT_STATUSES, CP!ACTIVE_ASSIGNMENT_STATUSES
  <2> QED BY <2>1, <2>2, <2>4 DEF CP!BeginCall
<1>4. ASSUME NEW a \in Assignments, BeginSubmit(c, a) PROVE Seen
  <2> DEFINE r == [op |-> "submit", asg |-> a, task |-> asg[a].task,
                   seen |-> task[asg[a].task]]
  <2>1. PlainRequest(r) = r /\ r.op \in PlainOps
    BY DEF PlainRequest, PlainOps
  <2>2. Begin(c, r)
    BY <1>4 DEF BeginSubmit
  <2>3. CP!Begin(c, r)
    BY <2>1, <2>2, PlainBegin
  <2>4. CP!BeginSubmit(c, a)
    BY <1>4, <2>3 DEF BeginSubmit, CP!BeginSubmit
  <2> QED BY <2>1, <2>2, <2>4 DEF CP!BeginCall
<1>5. ASSUME NEW t \in Tasks, NEW move \in TaskMoves, BeginTransition(c, t, move)
      PROVE  Seen
  <2> DEFINE r == [op |-> "transition", task |-> t, target |-> move[2],
                   seen |-> task[t]]
  <2>1. PlainRequest(r) = r /\ r.op \in PlainOps
    BY DEF PlainRequest, PlainOps
  <2>2. Begin(c, r)
    BY <1>5 DEF BeginTransition
  <2>3. CP!Begin(c, r)
    BY <2>1, <2>2, PlainBegin
  <2>4. CP!BeginTransition(c, t, move)
    BY <1>5, <2>3
       DEF BeginTransition, CP!BeginTransition, CanMove, CP!CanMove,
           TRANSITION_GRAPH, CP!TRANSITION_GRAPH, ACTOR_WRITEABLE_STATES,
           CP!ACTOR_WRITEABLE_STATES
  <2> QED BY <2>1, <2>2, <2>4 DEF CP!BeginCall
<1>6. ASSUME NEW w \in Workers, NEW s \in WORKER_STATUSES, BeginSetStatus(c, w, s)
      PROVE  Seen
  <2> DEFINE r == [op |-> "set_status", worker |-> w, target |-> s]
  <2>1. PlainRequest(r) = r /\ r.op \in PlainOps
    BY DEF PlainRequest, PlainOps
  <2>2. Begin(c, r)
    BY <1>6 DEF BeginSetStatus
  <2>3. CP!Begin(c, r)
    BY <2>1, <2>2, PlainBegin
  <2>4. CP!BeginSetStatus(c, w, s)
    BY <1>6, <2>3
       DEF BeginSetStatus, CP!BeginSetStatus, NoOtherExecutor, CP!NoOtherExecutor,
           Seats, CP!Seats
  <2> QED BY <2>1, <2>2, <2>4 DEF CP!BeginCall, WORKER_STATUSES, CP!WORKER_STATUSES
<1>7. ASSUME NEW w \in Workers, BeginRegister(c, w) PROVE Seen
  <2> DEFINE r == [op |-> "register", worker |-> w]
  <2>1. PlainRequest(r) = r /\ r.op \in PlainOps
    BY DEF PlainRequest, PlainOps
  <2>2. Begin(c, r)
    BY <1>7 DEF BeginRegister
  <2>3. CP!Begin(c, r)
    BY <2>1, <2>2, PlainBegin
  <2>4. CP!BeginRegister(c, w)
    BY <1>7, <2>3
       DEF BeginRegister, CP!BeginRegister, NoOtherExecutor, CP!NoOtherExecutor,
           Seats, CP!Seats
  <2> QED BY <2>1, <2>2, <2>4 DEF CP!BeginCall
<1> QED BY <1>1, <1>2, <1>3, <1>4, <1>5, <1>6, <1>7 DEF BeginCall

LEMMA PlainCommitClaim ==
  ASSUME CallMap, NEW c \in Callers, CommitClaim(c)
  PROVE  CP!CommitClaim(c)
<1> DEFINE k == PlainCall[c]
<1>1. k = call[c] /\ CP!Finish(c)
  BY PlainRequests, PlainFinish DEF CommitClaim, PlainOps
<1>2. /\ CP!SameVersion(k) <=> SameVersion(k)
      /\ CP!IndexAdmits(k.task) <=> IndexAdmits(k.task)
      /\ CP!SeatFree(k.worker, "busy") <=> SeatFree(k.worker, "busy")
      /\ CP!LapsedOf(k.task) = LapsedOf(k.task)
      /\ CP!Moved(task[k.task], "claimed") = Moved(task[k.task], "claimed")
  BY DEF SameVersion, CP!SameVersion, IndexAdmits, CP!IndexAdmits, SeatFree,
         CP!SeatFree, Seats, CP!Seats, LapsedOf, CP!LapsedOf, HeldBy, CP!HeldBy,
         Active, CP!Active, ACTIVE_ASSIGNMENT_STATUSES,
         CP!ACTIVE_ASSIGNMENT_STATUSES, Moved, CP!Moved
<1>3. PICK new \in Assignments :
        /\ asg[new] = Unused
        /\ asg' = [a \in Assignments |->
                     IF a = new
                     THEN [status |-> "assigned", task |-> call[c].task,
                           worker |-> call[c].worker, lapsed |-> FALSE]
                     ELSE IF a \in LapsedOf(call[c].task)
                          THEN [asg[a] EXCEPT !.status = "timeout"]
                          ELSE asg[a]]
  BY DEF CommitClaim
<1>4. asg' = [a \in Assignments |->
                IF a = new
                THEN [status |-> "assigned", task |-> k.task,
                      worker |-> k.worker, lapsed |-> FALSE]
                ELSE IF a \in CP!LapsedOf(k.task)
                     THEN [asg[a] EXCEPT !.status = "timeout"]
                     ELSE asg[a]]
  BY <1>1, <1>2, <1>3
<1>5. /\ k.op = "claim" /\ CP!SameVersion(k) /\ worker[k.worker] = "available"
      /\ CP!IndexAdmits(k.task) /\ CP!SeatFree(k.worker, "busy")
      /\ task' = [task EXCEPT ![k.task] = CP!Moved(task[k.task], "claimed")]
      /\ worker' = [worker EXCEPT ![k.worker] = "busy"]
  BY <1>1, <1>2 DEF CommitClaim
<1> QED BY <1>1, <1>3, <1>4, <1>5, Zenon DEF CP!CommitClaim, CP!Unused

LEMMA PlainCommitHeartbeat ==
  ASSUME CallMap, NEW c \in Callers, CommitHeartbeat(c)
  PROVE  CP!CommitHeartbeat(c)
<1>1. PlainCall[c] = call[c] /\ CP!Finish(c)
  BY PlainRequests, PlainFinish DEF CommitHeartbeat, PlainOps
<1> QED BY <1>1
        DEF CommitHeartbeat, CP!CommitHeartbeat, Active, CP!Active,
            ACTIVE_ASSIGNMENT_STATUSES, CP!ACTIVE_ASSIGNMENT_STATUSES

LEMMA PlainCommitRecover ==
  ASSUME CallMap, NEW c \in Callers, CommitRecover(c)
  PROVE  CP!CommitRecover(c)
<1>1. PlainCall[c] = call[c] /\ CP!Finish(c)
  BY PlainRequests, PlainFinish DEF CommitRecover, PlainOps
<1> QED BY <1>1
        DEF CommitRecover, CP!CommitRecover, StillLapsed, CP!StillLapsed,
            SameVersion, CP!SameVersion, SeatFree, CP!SeatFree, Seats, CP!Seats,
            WorkerAfterRecovery, CP!WorkerAfterRecovery, HoldingsOf,
            CP!HoldingsOf, StateAfterRecovery, CP!StateAfterRecovery, Moved,
            CP!Moved, Active, CP!Active, ACTIVE_ASSIGNMENT_STATUSES,
            CP!ACTIVE_ASSIGNMENT_STATUSES

LEMMA PlainCommitSubmit ==
  ASSUME CallMap, NEW c \in Callers, CommitSubmit(c)
  PROVE  CP!CommitSubmit(c)
<1>1. PlainCall[c] = call[c] /\ CP!Finish(c)
  BY PlainRequests, PlainFinish DEF CommitSubmit, PlainOps
<1> QED BY <1>1
        DEF CommitSubmit, CP!CommitSubmit, TaskAsRead, CP!TaskAsRead, StillLeased,
            CP!StillLeased, SameVersion, CP!SameVersion, SeatFree, CP!SeatFree,
            Seats, CP!Seats, WorkerAfterSubmit, CP!WorkerAfterSubmit, HoldingsOf,
            CP!HoldingsOf, Moved, CP!Moved, Active, CP!Active,
            ACTIVE_ASSIGNMENT_STATUSES, CP!ACTIVE_ASSIGNMENT_STATUSES

LEMMA PlainCommitTransition ==
  ASSUME CallMap, NEW c \in Callers, CommitTransition(c)
  PROVE  CP!CommitTransition(c)
<1>1. PlainCall[c] = call[c] /\ CP!Finish(c)
  BY PlainRequests, PlainFinish DEF CommitTransition, PlainOps
<1> QED BY <1>1
        DEF CommitTransition, CP!CommitTransition, SameVersion, CP!SameVersion,
            Moved, CP!Moved

LEMMA PlainCommitWorker ==
  ASSUME CallMap, NEW c \in Callers
  PROVE  /\ CommitSetStatus(c) => CP!CommitSetStatus(c)
         /\ CommitRegister(c) => CP!CommitRegister(c)
<1>1. ASSUME CommitSetStatus(c) PROVE CP!CommitSetStatus(c)
  <2>1. PlainCall[c] = call[c] /\ CP!Finish(c)
    BY <1>1, PlainRequests, PlainFinish DEF CommitSetStatus, PlainOps
  <2> QED BY <1>1, <2>1
          DEF CommitSetStatus, CP!CommitSetStatus, SeatFree, CP!SeatFree, Seats,
              CP!Seats
<1>2. ASSUME CommitRegister(c) PROVE CP!CommitRegister(c)
  <2>1. PlainCall[c] = call[c] /\ CP!Finish(c)
    BY <1>2, PlainRequests, PlainFinish DEF CommitRegister, PlainOps
  <2> QED BY <1>2, <2>1 DEF CommitRegister, CP!CommitRegister
<1> QED BY <1>1, <1>2
(* Begin and commit of a review are the begin and commit of a transition.  *)
LEMMA PlainReviewCall ==
  ASSUME CallMap, CP!TypeOK, ResultsBound, NEW c \in Callers, ReviewCall(c)
  PROVE  /\ CP!BeginCall(c)
         /\ \E r : Begin(c, r) /\ r.op \in {"begin_review", "decide"}
<1> DEFINE Seen == /\ CP!BeginCall(c)
                   /\ \E r : Begin(c, r) /\ r.op \in {"begin_review", "decide"}
<1>1. ASSUME NEW a \in Assignments, result[a] # NoResult PROVE asg[a].task \in Tasks
  BY <1>1 DEF ResultsBound, CP!TypeOK, CP!Unused, CP!AssignmentRow
<1>2. ASSUME NEW t \in Tasks, NEW move \in ReviewMoves,
             <<task[t].status, move[2]>> \in TRANSITION_GRAPH,
             CP!Begin(c, [op |-> "transition", task |-> t, target |-> move[2],
                          seen |-> task[t]])
      PROVE  CP!BeginCall(c)
  <2>1. move \in ACTOR_WRITEABLE_STATES
    BY DEF ReviewMoves, FINAL_TASK_STATES, FINAL_DECISIONS, ACTOR_WRITEABLE_STATES
  <2>2. CP!BeginTransition(c, t, move)
    BY <1>2, <2>1
       DEF CP!BeginTransition, CP!CanMove, TRANSITION_GRAPH, CP!TRANSITION_GRAPH,
           ACTOR_WRITEABLE_STATES, CP!ACTOR_WRITEABLE_STATES
  <2> QED BY <2>2 DEF CP!BeginCall
<1>3. ASSUME NEW a \in Assignments, NEW r \in Reviewers, BeginBeginReview(c, a, r)
      PROVE  Seen
  <2> DEFINE t == asg[a].task
             q == [op |-> "begin_review", asg |-> a, reviewer |-> r, task |-> t,
                   seen |-> task[t]]
  <2>1. t \in Tasks /\ task[t].status = "result_submitted"
    BY <1>1, <1>3 DEF BeginBeginReview, Preflight
  <2>2. PlainRequest(q) = [op |-> "transition", task |-> t,
                           target |-> "reviewing", seen |-> task[t]]
    BY DEF PlainRequest, PlainOps, AsTransition
  <2>3. Begin(c, q)
    BY <1>3 DEF BeginBeginReview
  <2>4. CP!Begin(c, [op |-> "transition", task |-> t, target |-> "reviewing",
                     seen |-> task[t]])
    BY <2>2, <2>3, PlainBegin
  <2>5. <<"supervisor", "reviewing">> \in ReviewMoves
    BY DEF ReviewMoves
  <2>6. <<task[t].status, "reviewing">> \in TRANSITION_GRAPH
    BY <2>1 DEF TRANSITION_GRAPH
  <2>7. CP!BeginCall(c)
    BY <1>2, <2>1, <2>4, <2>5, <2>6
  <2> QED BY <2>3, <2>7
<1>4. ASSUME NEW a \in Assignments, NEW r \in Reviewers, NEW d \in FINAL_DECISIONS,
             BeginDecide(c, a, r, d)
      PROVE  Seen
  <2> DEFINE t == asg[a].task
             s == FINAL_TASK_STATES[d]
             q == [op |-> "decide", asg |-> a, reviewer |-> r, decision |-> d,
                   task |-> t, seen |-> task[t]]
  <2>1. t \in Tasks /\ task[t].status = "reviewing"
    BY <1>1, <1>4 DEF BeginDecide, Preflight
  <2>2. PlainRequest(q) = [op |-> "transition", task |-> t, target |-> s,
                           seen |-> task[t]]
    BY DEF PlainRequest, PlainOps, AsTransition
  <2>3. Begin(c, q)
    BY <1>4 DEF BeginDecide
  <2>4. CP!Begin(c, [op |-> "transition", task |-> t, target |-> s,
                     seen |-> task[t]])
    BY <2>2, <2>3, PlainBegin
  <2>5. <<"reviewer", s>> \in ReviewMoves
    BY DEF ReviewMoves
  <2>6. <<task[t].status, s>> \in TRANSITION_GRAPH
    BY <2>1 DEF FINAL_TASK_STATES, FINAL_DECISIONS, TRANSITION_GRAPH
  <2> HIDE DEF s
  <2>7. CP!BeginCall(c)
    BY <1>2, <2>1, <2>4, <2>5, <2>6
  <2> QED BY <2>3, <2>7
<1> QED BY <1>3, <1>4 DEF ReviewCall

LEMMA PlainReviewCommit ==
  ASSUME CallMap, NEW c \in Callers, CommitBeginReview(c) \/ CommitDecide(c)
  PROVE  CP!CommitTransition(c)
<1>1. CP!Finish(c)
  BY PlainFinish DEF CommitBeginReview, CommitDecide
<1>2. CASE CommitBeginReview(c)
  <2>1. PlainCall[c] = AsTransition(call[c], "reviewing")
    BY <1>2, PlainRequests DEF CommitBeginReview
  <2>2. /\ PlainCall[c].op = "transition" /\ PlainCall[c].task = call[c].task
        /\ PlainCall[c].target = "reviewing" /\ PlainCall[c].seen = call[c].seen
    BY <2>1 DEF AsTransition
  <2> QED BY <1>1, <1>2, <2>2
          DEF CommitBeginReview, CP!CommitTransition, TaskStill, SameVersion,
              CP!SameVersion, Moved, CP!Moved
<1>3. CASE CommitDecide(c)
  <2>1. PlainCall[c] = AsTransition(call[c], FINAL_TASK_STATES[call[c].decision])
    BY <1>3, PlainRequests DEF CommitDecide
  <2>2. /\ PlainCall[c].op = "transition" /\ PlainCall[c].task = call[c].task
        /\ PlainCall[c].target = FINAL_TASK_STATES[call[c].decision]
        /\ PlainCall[c].seen = call[c].seen
    BY <2>1 DEF AsTransition
  <2> QED BY <1>1, <1>3, <2>2
          DEF CommitDecide, CP!CommitTransition, TaskStill, SameVersion,
              CP!SameVersion, Moved, CP!Moved
<1> QED BY <1>2, <1>3

(* Every step of the review flow is one of the control plane, or leaves    *)
(* what the control plane knows as it was.                                 *)
LEMMA PlainStep ==
  ASSUME CallMap, CP!TypeOK, ResultsBound, [ReviewNext]_rvars
  PROVE  [CP!Next]_(CP!vars) /\ CallMap'
<1>1. ASSUME call' = call PROVE PlainCall' = PlainCall /\ CallMap'
  BY <1>1 DEF PlainCall, CallMap
<1>2. ASSUME NEW c \in Callers, BeginCall(c) PROVE CP!Next /\ CallMap'
  BY <1>2, PlainBeginCall, PlainBegin DEF CP!Next, CP!CallStep
<1>3. ASSUME NEW c \in Callers, CommitPlain(c) PROVE CP!Next /\ CallMap'
  <2>1. CP!CommitPlain(c)
    BY <1>3, PlainCommitClaim, PlainCommitHeartbeat, PlainCommitRecover,
       PlainCommitTransition, PlainCommitWorker DEF CommitPlain, CP!CommitPlain
  <2>2. Finish(c)
    BY <1>3 DEF CommitPlain, CommitClaim, CommitHeartbeat, CommitRecover,
                CommitTransition, CommitSetStatus, CommitRegister
  <2> QED BY <2>1, <2>2, PlainFinish DEF CP!Next, CP!CallStep
<1>4. ASSUME NEW c \in Callers, Abandon(c) PROVE [CP!Next]_(CP!vars) /\ CallMap'
  <2>1. CP!Finish(c) /\ CallMap' /\ UNCHANGED <<task, asg, worker>>
    BY <1>4, PlainFinish DEF Abandon
  <2>2. CASE PlainCall[c] = Idle
    <3>1. PlainCall' = PlainCall
      BY <2>1, <2>2 DEF CP!Finish, CP!Idle, PlainCall
    <3> QED BY <2>1, <3>1 DEF CP!vars
  <2>3. CASE PlainCall[c] # Idle
    BY <2>1, <2>3 DEF CP!Abandon, CP!Next, CP!CallStep, CP!Idle
  <2> QED BY <2>2, <2>3
<1>5. ASSUME NEW c \in Callers, SubmitResult(c) PROVE CP!Next /\ CallMap'
  <2>1. CommitSubmit(c) /\ Finish(c)
    BY <1>5 DEF SubmitResult, CommitSubmit
  <2> QED BY <2>1, PlainCommitSubmit, PlainFinish DEF CP!Next
<1>6. ASSUME NEW c \in Callers, ReviewCall(c) PROVE CP!Next /\ CallMap'
  BY <1>6, PlainReviewCall, PlainBegin DEF CP!Next, CP!CallStep
<1>7. ASSUME NEW c \in Callers, CommitBeginReview(c) \/ CommitDecide(c)
      PROVE  CP!Next /\ CallMap'
  <2>1. Finish(c)
    BY <1>7 DEF CommitBeginReview, CommitDecide
  <2> QED BY <1>7, <2>1, PlainReviewCommit, PlainFinish
          DEF CP!Next, CP!CallStep, CP!CommitPlain
<1>8. ASSUME NEW a \in Assignments, StartAssignment(a) PROVE CP!Next /\ CallMap'
  <2>1. CP!StartAssignment(a)
    BY <1>1, <1>8 DEF StartAssignment, CP!StartAssignment
  <2> QED BY <1>1, <1>8, <2>1 DEF StartAssignment, CP!Next, CP!Surroundings
<1>9. ASSUME NEW a \in Assignments, LeaseLapses(a) PROVE CP!Next /\ CallMap'
  <2>1. CP!LeaseLapses(a)
    BY <1>1, <1>9 DEF LeaseLapses, CP!LeaseLapses, ACTIVE_ASSIGNMENT_STATUSES,
                      CP!ACTIVE_ASSIGNMENT_STATUSES
  <2> QED BY <1>1, <1>9, <2>1 DEF LeaseLapses, CP!Next, CP!Surroundings
<1>10. CASE UNCHANGED rvars
  BY <1>1, <1>10 DEF rvars, vars, CP!vars
<1> QED BY <1>2, <1>3, <1>4, <1>5, <1>6, <1>7, <1>8, <1>9, <1>10
        DEF ReviewNext, ReviewStep, CallStep, Surroundings
-----------------------------------------------------------------------------
LEMMA ReviewInitInv == ReviewInit => ReviewInv
<1> SUFFICES ASSUME ReviewInit PROVE ReviewInv
  OBVIOUS
<1>1. CallMap /\ PlainCall = [c \in Callers |-> Idle]
  BY DEF ReviewInit, Init, CallMap, PlainCall, PlainRequest, PlainOps
<1>2. CP!Init
  BY <1>1 DEF ReviewInit, Init, CP!Init, CP!Idle, CP!Unused
<1>3. CP!IInv
  BY <1>2, PlainAssumptions, CP!InductiveInit DEF CP!InductiveInit
<1>4. \A t \in Tasks : task[t].status \notin {"result_submitted", "reviewing", "verified"}
  BY ReviewSeedAssumption DEF ReviewInit, Init
<1>5. ReviewRowsOK
  BY DEF ReviewInit, ReviewRowsOK
<1>6. ResultsBound /\ OlderDecided
  BY DEF ReviewInit, ResultsBound, OlderDecided
<1>7. LatestFollowed
  BY <1>4 DEF ReviewInit, LatestFollowed
<1>8. ReviewCallsChecked
  BY DEF ReviewInit, Init, ReviewCallsChecked
<1> QED BY <1>1, <1>3, <1>5, <1>6, <1>7, <1>8 DEF ReviewInv

(* The invariant of the control plane is kept by its steps, and with it    *)
(* what none of them does.                                                 *)
LEMMA PlainInductive ==
  ASSUME CP!IInv, [CP!Next]_(CP!vars)
  PROVE  /\ CP!IInv'
         /\ \A a \in Assignments :
              asg[a] # Unused => asg'[a] # Unused /\ asg'[a].task = asg[a].task
         /\ \A t \in Tasks :
              task'[t] = task[t] \/ task'[t].version = task[t].version + 1
<1>1. CP!TypeOK
  BY DEF CP!IInv
<1>2. CP!TypeOK'
  BY <1>1, PlainAssumptions, CP!TypeStep DEF CP!TypeStep
<1>3. CP!CallsChecked'
  BY PlainAssumptions, CP!CallsCheckedStep DEF CP!CallsCheckedStep
<1>4. CP!SnapshotSound'
  BY PlainAssumptions, CP!SnapshotStep DEF CP!SnapshotStep
<1>5. CP!OneActivePerTask'
  BY PlainAssumptions, CP!OneActiveStep DEF CP!OneActiveStep
<1>6. CP!TaskHeld'
  BY PlainAssumptions, CP!TaskHeldStep DEF CP!TaskHeldStep
<1>7. CP!IInv'
  BY <1>2, <1>3, <1>4, <1>5, <1>6 DEF CP!IInv
<1>8. /\ \A a \in Assignments :
           asg[a] # Unused => asg'[a] # Unused /\ asg'[a].task = asg[a].task
      /\ \A t \in Tasks :
           task'[t] = task[t] \/ task'[t].version = task[t].version + 1
  BY <1>1, PlainAssumptions, CP!StepFrame DEF CP!StepFrame, CP!Unused
<1> QED BY <1>7, <1>8

LEMMA PlainInvStep ==
  ASSUME ReviewInv, [ReviewNext]_rvars
  PROVE  /\ CP!IInv' /\ CallMap'
         /\ [CP!Next]_(CP!vars)
         /\ \A a \in Assignments :
              asg[a] # Unused => asg'[a] # Unused /\ asg'[a].task = asg[a].task
<1>1. CP!IInv /\ CP!TypeOK /\ CallMap /\ ResultsBound
  BY DEF ReviewInv, CP!IInv
<1>2. [CP!Next]_(CP!vars) /\ CallMap'
  BY <1>1, PlainStep
<1> QED BY <1>1, <1>2, PlainInductive

(* Rows of a submission and of a call in flight.                           *)
LEMMA SubmitRows ==
  ASSUME ReviewInv, NEW c \in Callers, SubmitResult(c)
  PROVE  /\ call[c].asg \in Assignments /\ call[c].task \in Tasks
         /\ asg[call[c].asg] # Unused
         /\ asg[call[c].asg].task = call[c].task
<1>1. PlainCall[c] = call[c] /\ call[c].op = "submit"
  BY PlainRequests DEF SubmitResult, CommitSubmit, PlainOps
<1>2. CP!TypeOK /\ CP!CallsChecked
  BY DEF ReviewInv, CP!IInv
<1>3. PlainCall[c].asg \in Assignments /\ PlainCall[c].task \in Tasks
  BY <1>1, <1>2, PlainAssumptions, CP!RequestTypes DEF CP!RequestTypes
<1> QED BY <1>1, <1>2, <1>3 DEF CP!CallsChecked, CP!Unused

LEMMA ReviewTask ==
  ASSUME ReviewInv, NEW c \in Callers, call[c].op \in {"begin_review", "decide"}
  PROVE  /\ call[c].asg \in Assignments /\ result[call[c].asg] # NoResult
         /\ asg[call[c].asg] # Unused
         /\ asg[call[c].asg].task = call[c].task /\ call[c].task \in Tasks
<1>1. /\ call[c].asg \in Assignments /\ result[call[c].asg] # NoResult
      /\ asg[call[c].asg].task = call[c].task
      /\ asg[call[c].asg] # Unused
  BY DEF ReviewInv, ReviewCallsChecked, ResultsBound
<1> QED BY <1>1 DEF ReviewInv, CP!IInv, CP!TypeOK, CP!Unused, CP!AssignmentRow

LEMMA ReviewRowsStep ==
  ASSUME ReviewInv, [ReviewNext]_rvars
  PROVE  ReviewRowsOK'
<1>0. ReviewRowsOK
  BY DEF ReviewInv
<1>1. ASSUME NEW c \in Callers, SubmitResult(c) PROVE ReviewRowsOK'
  BY <1>0, <1>1, SubmitRows DEF SubmitResult, ReviewRowsOK
<1>2. ASSUME NEW c \in Callers, CommitBeginReview(c) PROVE ReviewRowsOK'
  <2>1. call[c].reviewer \in Reviewers
    BY <1>2 DEF ReviewInv, ReviewCallsChecked, CommitBeginReview
  <2>2. OpenReview(call[c].reviewer) \in ReviewRow
    BY <2>1 DEF OpenReview, ReviewRow
  <2> QED BY <1>0, <1>2, <2>2 DEF CommitBeginReview, ReviewRowsOK
<1>3. ASSUME NEW c \in Callers, CommitDecide(c) PROVE ReviewRowsOK'
  <2> DEFINE a == call[c].asg
             row == [review[a] EXCEPT !.decision = call[c].decision]
  <2>1. /\ a \in Assignments /\ call[c].decision \in FINAL_DECISIONS
        /\ call[c].reviewer \in Reviewers /\ review[a] = OpenReview(call[c].reviewer)
    BY <1>3 DEF ReviewInv, ReviewCallsChecked, CommitDecide
  <2>2. row \in ReviewRow
    BY <2>1 DEF OpenReview, ReviewRow
  <2>3. review' = [review EXCEPT ![a] = row]
    BY <1>3 DEF CommitDecide
  <2> HIDE DEF row
  <2> QED BY <1>0, <1>3, <2>2, <2>3 DEF CommitDecide, ReviewRowsOK
<1>4. CASE UNCHANGED reviewVars
  BY <1>0, <1>4 DEF reviewVars, ReviewRowsOK
<1>5. ASSUME NEW c \in Callers, ReviewCall(c) PROVE UNCHANGED reviewVars
  BY <1>5 DEF ReviewCall, BeginBeginReview, BeginDecide
<1> QED BY <1>1, <1>2, <1>3, <1>4, <1>5 DEF ReviewNext, ReviewStep, rvars

(* A stored result is never replaced.                                      *)
LEMMA ResultsKept ==
  ASSUME ReviewInv, [ReviewNext]_rvars
  PROVE  \A a \in Assignments : result[a] # NoResult => result'[a] = result[a]
<1>0. ReviewRowsOK
  BY DEF ReviewInv
<1>1. ASSUME NEW c \in Callers, SubmitResult(c)
      PROVE  \A a \in Assignments : result[a] # NoResult => result'[a] = result[a]
  BY <1>0, <1>1 DEF SubmitResult, ReviewRowsOK
<1>2. ASSUME NEW c \in Callers, ReviewCall(c) PROVE result' = result
  BY <1>2 DEF ReviewCall, BeginBeginReview, BeginDecide, reviewVars
<1>3. ASSUME NEW c \in Callers, CommitBeginReview(c) \/ CommitDecide(c)
      PROVE  result' = result
  BY <1>3 DEF CommitBeginReview, CommitDecide
<1> QED BY <1>1, <1>2, <1>3 DEF ReviewNext, ReviewStep, rvars, reviewVars

LEMMA ResultsBoundStep ==
  ASSUME ReviewInv, [ReviewNext]_rvars
  PROVE  ResultsBound'
<1>0. ResultsBound /\ ReviewRowsOK /\ ReviewRowsOK'
  BY ReviewRowsStep DEF ReviewInv
<1>1. \A a \in Assignments :
        asg[a] # Unused => asg'[a] # Unused /\ asg'[a].task = asg[a].task
  BY PlainInvStep
<1>2. ASSUME UNCHANGED reviewVars PROVE ResultsBound'
  BY <1>0, <1>1, <1>2 DEF reviewVars, ResultsBound, ReviewRowsOK
<1>3. ASSUME NEW c \in Callers, SubmitResult(c) PROVE ResultsBound'
  <2> DEFINE k == call[c]
  <2>1. /\ k.asg \in Assignments /\ k.task \in Tasks
        /\ asg[k.asg] # Unused /\ asg[k.asg].task = k.task
    BY <1>3, SubmitRows
  <2>2. PICK row \in ResultRow : result' = [result EXCEPT ![k.asg] = row]
    BY <1>3 DEF SubmitResult
  <2>3. row # NoResult
    BY DEF ResultRow, NoResult
  <2>4. latest' = [latest EXCEPT ![k.task] = k.asg] /\ review' = review
    BY <1>3 DEF SubmitResult
  <2>5. \A a \in Assignments : result[a] # NoResult => result'[a] # NoResult
    BY <1>0, <2>2, <2>3 DEF ReviewRowsOK
  <2>6. \A a \in Assignments : result'[a] # NoResult => asg'[a] # Unused
    BY <1>0, <1>1, <2>1, <2>2 DEF ResultsBound, ReviewRowsOK
  <2>7. \A a \in Assignments : review'[a] # NoReview => result'[a] # NoResult
    BY <1>0, <2>4, <2>5 DEF ResultsBound
  <2>8. ASSUME NEW t \in Tasks, latest'[t] # Nobody
        PROVE  result'[latest'[t]] # NoResult /\ asg'[latest'[t]].task = t
    <3>1. CASE t = k.task
      BY <1>0, <1>1, <2>1, <2>2, <2>3, <2>4, <3>1 DEF ReviewRowsOK
    <3>2. CASE t # k.task
      BY <1>0, <1>1, <2>4, <2>5, <2>8, <3>2 DEF ResultsBound, ReviewRowsOK
    <3> QED BY <3>1, <3>2
  <2> QED BY <2>6, <2>7, <2>8 DEF ResultsBound
<1>4. ASSUME NEW c \in Callers, CommitBeginReview(c) \/ CommitDecide(c)
      PROVE  ResultsBound'
  <2>1. /\ result' = result /\ latest' = latest
        /\ \A a \in Assignments \ {call[c].asg} : review'[a] = review[a]
    BY <1>0, <1>4 DEF CommitBeginReview, CommitDecide, ReviewRowsOK
  <2>2. result[call[c].asg] # NoResult
    BY <1>4, ReviewTask DEF CommitBeginReview, CommitDecide
  <2> QED BY <1>0, <1>1, <2>1, <2>2 DEF ResultsBound, ReviewRowsOK
<1>5. ASSUME NEW c \in Callers, ReviewCall(c) PROVE UNCHANGED reviewVars
  BY <1>5 DEF ReviewCall, BeginBeginReview, BeginDecide
<1> QED BY <1>2, <1>3, <1>4, <1>5 DEF ReviewNext, ReviewStep, rvars
-----------------------------------------------------------------------------
(* A connection keeps its call, loses it, or begins one.                   *)
LEMMA CallChange ==
  ASSUME ReviewInv, [ReviewNext]_rvars, NEW c \in Callers
  PROVE  \/ call'[c] = call[c]
         \/ call'[c] = Idle
         \/ BeginCall(c)
         \/ ReviewCall(c) /\ UNCHANGED reviewVars
<1>0. CallMap
  BY DEF ReviewInv
<1>1. ASSUME NEW d \in Callers, BeginCall(d) PROVE d = c \/ call'[c] = call[c]
  BY <1>0, <1>1, PlainBeginCall, PlainBegin
<1>2. ASSUME NEW d \in Callers, ReviewCall(d) PROVE d = c \/ call'[c] = call[c]
  <2>1. \E r : Begin(d, r)
    BY <1>2 DEF ReviewCall, BeginBeginReview, BeginDecide
  <2> QED BY <1>0, <2>1, PlainBegin
<1>3. ASSUME NEW d \in Callers, Finish(d) PROVE call'[c] = call[c] \/ call'[c] = Idle
  BY <1>0, <1>3, PlainFinish
<1>4. ASSUME NEW d \in Callers,
             \/ CommitPlain(d) \/ Abandon(d) \/ SubmitResult(d)
             \/ CommitBeginReview(d) \/ CommitDecide(d)
      PROVE  Finish(d)
  BY <1>4 DEF CommitPlain, CommitClaim, CommitHeartbeat, CommitRecover,
              CommitTransition, CommitSetStatus, CommitRegister, Abandon,
              SubmitResult, CommitSubmit, CommitBeginReview, CommitDecide
<1>5. ASSUME Surroundings \/ UNCHANGED rvars PROVE call' = call
  BY <1>5 DEF Surroundings, StartAssignment, LeaseLapses, rvars, vars
<1>6. ASSUME ReviewCall(c) PROVE UNCHANGED reviewVars
  BY <1>6 DEF ReviewCall, BeginBeginReview, BeginDecide
<1> QED BY <1>1, <1>2, <1>3, <1>4, <1>5, <1>6 DEF ReviewNext, ReviewStep, CallStep

LEMMA ReviewCallsStep ==
  ASSUME ReviewInv, [ReviewNext]_rvars
  PROVE  ReviewCallsChecked'
<1> DEFINE Good(k) ==
      /\ k.op \in {"begin_review", "decide"} =>
           /\ k.asg \in Assignments
           /\ result'[k.asg] # NoResult
           /\ asg'[k.asg].task = k.task
      /\ k.op \in {"begin_review", "decide"} => k.reviewer \in Reviewers
      /\ k.op = "decide" =>
           /\ k.decision \in FINAL_DECISIONS
           /\ k.decision = "VERIFIED" => result'[k.asg].tests = "passed"
      /\ k.op = "transition" => k.target \notin ReviewWrites
<1> SUFFICES ASSUME NEW c \in Callers PROVE Good(call'[c])
  BY DEF ReviewCallsChecked
<1>0. CallMap /\ ReviewCallsChecked /\ ResultsBound
  BY DEF ReviewInv
<1>1. /\ \A a \in Assignments :
           asg[a] # Unused => asg'[a] # Unused /\ asg'[a].task = asg[a].task
      /\ \A a \in Assignments : result[a] # NoResult => result'[a] = result[a]
  BY PlainInvStep, ResultsKept
<1>2. CASE call'[c] = call[c]
  <2>1. Good(call[c])
    BY <1>0, <1>1, ReviewTask DEF ReviewCallsChecked
  <2> QED BY <1>2, <2>1
<1>3. CASE call'[c] = Idle
  BY <1>3
<1>4. CASE BeginCall(c)
  <2>1. PICK r : Begin(c, r) /\ r.op \in PlainOps
    BY <1>0, <1>4, PlainBeginCall
  <2>2. call'[c] = r
    BY <1>0, <2>1, PlainBegin
  <2>3. ASSUME NEW t \in Tasks, NEW move \in TaskMoves, BeginTransition(c, t, move)
        PROVE  call'[c].target \notin ReviewWrites
    <3>1. call'[c].target = move[2]
      BY <1>0, <2>3, PlainBegin DEF BeginTransition
    <3> QED BY <3>1, ReviewMovesAssumption DEF ReviewWrites
  <2>4. call'[c].op = "transition" =>
          \E t \in Tasks, move \in TaskMoves : BeginTransition(c, t, move)
    <3>1. ASSUME NEW q, Begin(c, q), q.op # "transition"
          PROVE  call'[c].op # "transition"
      BY <1>0, <3>1, PlainBegin
    <3>2. ASSUME NEW t \in Tasks, NEW w \in Workers, BeginClaim(c, t, w)
          PROVE  call'[c].op # "transition"
      BY <3>1, <3>2 DEF BeginClaim
    <3>3. ASSUME NEW a \in Assignments,
                 BeginHeartbeat(c, a) \/ BeginRecover(c, a) \/ BeginSubmit(c, a)
          PROVE  call'[c].op # "transition"
      BY <3>1, <3>3 DEF BeginHeartbeat, BeginRecover, BeginSubmit
    <3>4. ASSUME NEW w \in Workers, NEW x \in WORKER_STATUSES,
                 BeginSetStatus(c, w, x) \/ BeginRegister(c, w)
          PROVE  call'[c].op # "transition"
      BY <3>1, <3>4 DEF BeginSetStatus, BeginRegister
    <3> QED BY <1>4, <3>2, <3>3, <3>4 DEF BeginCall, WORKER_STATUSES
  <2> QED BY <2>1, <2>2, <2>3, <2>4 DEF PlainOps
<1>5. CASE ReviewCall(c) /\ UNCHANGED reviewVars
  <2>1. ASSUME NEW a \in Assignments, NEW r \in Reviewers, BeginBeginReview(c, a, r)
        PROVE  Good(call'[c])
    <3> DEFINE q == [op |-> "begin_review", asg |-> a, reviewer |-> r,
                     task |-> asg[a].task, seen |-> task[asg[a].task]]
    <3>1. Begin(c, q) /\ result[a] # NoResult
      BY <2>1 DEF BeginBeginReview, Preflight
    <3>2. call'[c] = q
      BY <1>0, <3>1, PlainBegin
    <3>3. asg'[a].task = asg[a].task /\ result'[a] # NoResult
      BY <1>0, <1>1, <3>1 DEF ResultsBound
    <3> QED BY <3>2, <3>3
  <2>2. ASSUME NEW a \in Assignments, NEW r \in Reviewers, NEW d \in FINAL_DECISIONS,
               BeginDecide(c, a, r, d)
        PROVE  Good(call'[c])
    <3> DEFINE q == [op |-> "decide", asg |-> a, reviewer |-> r, decision |-> d,
                     task |-> asg[a].task, seen |-> task[asg[a].task]]
    <3>1. Begin(c, q) /\ result[a] # NoResult /\ Decidable(a, d)
      BY <2>2 DEF BeginDecide, Preflight
    <3>2. call'[c] = q
      BY <1>0, <3>1, PlainBegin
    <3>3. asg'[a].task = asg[a].task /\ result'[a] = result[a]
      BY <1>0, <1>1, <3>1 DEF ResultsBound
    <3> QED BY <3>1, <3>2, <3>3 DEF Decidable
  <2> QED BY <1>5, <2>1, <2>2 DEF ReviewCall
<1> QED BY <1>2, <1>3, <1>4, <1>5, CallChange
-----------------------------------------------------------------------------
(* How a step of the other services may change the status of a task.       *)
Ordinary(s, r) ==
  /\ <<s, r>> \in TRANSITION_GRAPH
  /\ r \in ReviewWrites => s = "running" /\ r = "blocked"

LEMMA OrdinaryMoves ==
  ASSUME ReviewInv, NEW t \in Tasks,
         \/ \E c \in Callers : CallStep(c)
         \/ Surroundings
         \/ UNCHANGED rvars
  PROVE  task'[t].status = task[t].status \/ Ordinary(task[t].status, task'[t].status)
<1> DEFINE Moves == \/ task'[t].status = task[t].status
                    \/ Ordinary(task[t].status, task'[t].status)
<1>0. /\ CP!TypeOK /\ CP!CallsChecked /\ CP!SnapshotSound /\ CallMap
      /\ ReviewCallsChecked
  BY DEF ReviewInv, CP!IInv
<1>1. ASSUME NEW c \in Callers, BeginCall(c) PROVE Moves
  BY <1>0, <1>1, PlainBeginCall, PlainBegin
<1>2. ASSUME NEW c \in Callers, CommitClaim(c) \/ CommitRecover(c) \/ CommitTransition(c)
      PROVE  /\ PlainCall[c] = call[c]
             /\ call[c].task \in Tasks /\ call[c].seen = task[call[c].task]
  <2>1. /\ PlainCall[c] = call[c] /\ SameVersion(call[c])
        /\ call[c].op \in {"claim", "recover", "transition"}
    BY <1>2, PlainRequests DEF CommitClaim, CommitRecover, CommitTransition, PlainOps
  <2>2. call[c].task \in Tasks
    BY <1>0, <2>1, PlainAssumptions, CP!RequestTypes DEF CP!RequestTypes
  <2> QED BY <1>0, <2>1, <2>2 DEF CP!SnapshotSound, CP!SnapshotOps, SameVersion
<1>3. ASSUME NEW s, NEW u \in Tasks, task' = [task EXCEPT ![u] = Moved(task[u], s)],
             Ordinary(task[u].status, s)
      PROVE  Moves
  BY <1>0, <1>3 DEF CP!TypeOK, Moved
<1>4. ASSUME NEW c \in Callers, CommitClaim(c) PROVE Moves
  <2>1. task[call[c].task].status = "queued"
    <3>1. PlainCall[c] = call[c] /\ call[c].seen = task[call[c].task]
      BY <1>2, <1>4
    <3>2. call[c].op = "claim"
      BY <1>4 DEF CommitClaim
    <3> QED BY <1>0, <3>1, <3>2 DEF CP!CallsChecked
  <2>2. Ordinary(task[call[c].task].status, "claimed")
    BY <2>1 DEF Ordinary, TRANSITION_GRAPH, ReviewWrites
  <2> QED BY <1>2, <1>3, <1>4, <2>2 DEF CommitClaim
<1>5. ASSUME NEW c \in Callers, CommitRecover(c) PROVE Moves
  <2> DEFINE s == StateAfterRecovery(call[c].seen.status)
  <2>1. call[c].seen.status \in {"claimed", "running"}
    BY <1>0, <1>2, <1>5 DEF CommitRecover, CP!CallsChecked
  <2>2. Ordinary(task[call[c].task].status, s)
    BY <1>2, <1>5, <2>1 DEF Ordinary, TRANSITION_GRAPH, ReviewWrites, StateAfterRecovery
  <2>3. task' = [task EXCEPT ![call[c].task] = Moved(task[call[c].task], s)]
    BY <1>5 DEF CommitRecover
  <2> HIDE DEF s
  <2> QED BY <1>2, <1>3, <1>5, <2>2, <2>3
<1>6. ASSUME NEW c \in Callers, CommitTransition(c) PROVE Moves
  <2>1. /\ <<task[call[c].task].status, call[c].target>> \in CP!TRANSITION_GRAPH
        /\ call[c].target \notin ReviewWrites
    BY <1>0, <1>2, <1>6 DEF CommitTransition, CP!CallsChecked, ReviewCallsChecked
  <2>2. Ordinary(task[call[c].task].status, call[c].target)
    BY <2>1 DEF Ordinary, TRANSITION_GRAPH, CP!TRANSITION_GRAPH
  <2>3. task' = [task EXCEPT ![call[c].task] = Moved(task[call[c].task], call[c].target)]
    BY <1>6 DEF CommitTransition
  <2> QED BY <1>2, <1>3, <1>6, <2>2, <2>3
<1>7. ASSUME NEW c \in Callers,
             CommitHeartbeat(c) \/ CommitSetStatus(c) \/ CommitRegister(c) \/ Abandon(c)
      PROVE  Moves
  BY <1>7 DEF CommitHeartbeat, CommitSetStatus, CommitRegister, Abandon
<1>8. ASSUME Surroundings \/ UNCHANGED rvars PROVE Moves
  BY <1>8 DEF Surroundings, StartAssignment, LeaseLapses, rvars, vars
<1> QED BY <1>1, <1>4, <1>5, <1>6, <1>7, <1>8 DEF CallStep, CommitPlain

(* The last result of a task keeps its verdict through ordinary moves.     *)
LEMMA OrdinaryFollowed ==
  ASSUME NEW t \in Tasks, NEW s, NEW r, Ordinary(s, r),
         s \in {"result_submitted", "reviewing", "verified"} => latest[t] # Nobody,
         latest[t] # Nobody => Followed(s, t)
  PROVE  /\ r \notin {"result_submitted", "reviewing", "verified"}
         /\ latest[t] # Nobody => Followed(r, t)
<1>1. /\ r \notin {"result_submitted", "reviewing", "verified"}
      /\ s \in {"result_submitted", "reviewing"} => r = "cancelled"
      /\ s # "cancelled"
  BY DEF Ordinary, TRANSITION_GRAPH, ReviewWrites
<1> QED BY <1>1 DEF Followed
-----------------------------------------------------------------------------
(* Only the last result of a task can be taken into review, and only its   *)
(* review can be decided: every older one has its verdict.                 *)
LEMMA ReviewOfLatest ==
  ASSUME ReviewInv, NEW c \in Callers, CommitBeginReview(c) \/ CommitDecide(c)
  PROVE  latest[call[c].task] = call[c].asg
<1>1. /\ call[c].asg \in Assignments /\ result[call[c].asg] # NoResult
      /\ asg[call[c].asg].task = call[c].task
  BY ReviewTask DEF CommitBeginReview, CommitDecide
<1>2. review[call[c].asg].decision \notin FINAL_DECISIONS
  BY DEF CommitBeginReview, CommitDecide, Reviewable, NoReview, OpenReview,
         FINAL_DECISIONS
<1> QED BY <1>1, <1>2 DEF ReviewInv, OlderDecided

LEMMA OlderDecidedStep ==
  ASSUME ReviewInv, [ReviewNext]_rvars
  PROVE  OlderDecided'
<1>0. ResultsBound /\ ReviewRowsOK /\ OlderDecided /\ LatestFollowed
  BY DEF ReviewInv
<1>1. /\ \A a \in Assignments :
           asg[a] # Unused => asg'[a] # Unused /\ asg'[a].task = asg[a].task
      /\ CP!TypeOK /\ CP!TypeOK'
  BY PlainInvStep DEF ReviewInv, CP!IInv
<1>2. ASSUME UNCHANGED reviewVars PROVE OlderDecided'
  BY <1>0, <1>1, <1>2 DEF reviewVars, OlderDecided, ResultsBound
<1>3. ASSUME NEW c \in Callers, SubmitResult(c) PROVE OlderDecided'
  <2> DEFINE k == call[c]
  <2>1. /\ k.asg \in Assignments /\ k.task \in Tasks
        /\ asg[k.asg] # Unused /\ asg[k.asg].task = k.task
    BY <1>3, SubmitRows
  <2>2. /\ latest' = [latest EXCEPT ![k.task] = k.asg] /\ review' = review
        /\ \A a \in Assignments \ {k.asg} : result'[a] = result[a]
        /\ task[k.task].status = "running"
    BY <1>0, <1>3 DEF SubmitResult, CommitSubmit, TaskAsRead, ReviewRowsOK
  <2>3. SUFFICES ASSUME NEW a \in Assignments, result'[a] # NoResult,
                        latest'[asg'[a].task] # a
                 PROVE  review'[a].decision \in FINAL_DECISIONS
    BY DEF OlderDecided
  <2>4. a # k.asg
    BY <1>0, <1>1, <2>1, <2>2, <2>3 DEF ReviewRowsOK
  <2>5. result[a] # NoResult /\ asg[a] # Unused /\ asg'[a].task = asg[a].task
    BY <1>0, <1>1, <2>2, <2>3, <2>4 DEF ResultsBound
  <2>6. CASE latest[asg[a].task] # a
    BY <1>0, <2>2, <2>5, <2>6 DEF OlderDecided
  <2>7. CASE latest[asg[a].task] = a
    <3>1. asg[a].task = k.task
      BY <1>0, <2>2, <2>3, <2>5, <2>7 DEF ReviewRowsOK
    <3>2. latest[k.task] = a /\ latest[k.task] # Nobody
      BY <2>7, <3>1, NobodyAssumption
    <3>3. Followed("running", k.task)
      BY <1>0, <2>1, <2>2, <3>2 DEF LatestFollowed
    <3> QED BY <2>2, <3>2, <3>3 DEF Followed
  <2> QED BY <2>6, <2>7
<1>4. ASSUME NEW c \in Callers, CommitBeginReview(c) \/ CommitDecide(c)
      PROVE  OlderDecided'
  <2>1. /\ result' = result /\ latest' = latest /\ asg' = asg
        /\ \A a \in Assignments \ {call[c].asg} : review'[a] = review[a]
    BY <1>0, <1>4 DEF CommitBeginReview, CommitDecide, ReviewRowsOK
  <2>2. latest[call[c].task] = call[c].asg /\ asg[call[c].asg].task = call[c].task
    BY <1>4, ReviewOfLatest, ReviewTask DEF CommitBeginReview, CommitDecide
  <2> QED BY <1>0, <2>1, <2>2 DEF OlderDecided
<1>5. ASSUME NEW c \in Callers, ReviewCall(c) PROVE UNCHANGED reviewVars
  BY <1>5 DEF ReviewCall, BeginBeginReview, BeginDecide
<1> QED BY <1>2, <1>3, <1>4, <1>5 DEF ReviewNext, ReviewStep, rvars

LEMMA LatestFollowedStep ==
  ASSUME ReviewInv, [ReviewNext]_rvars
  PROVE  LatestFollowed'
<1>0. /\ ResultsBound /\ ReviewRowsOK /\ LatestFollowed /\ ReviewCallsChecked
      /\ CP!TypeOK
  BY DEF ReviewInv, CP!IInv
<1> DEFINE FollowedNext(t) ==
      /\ task'[t].status \in {"result_submitted", "reviewing", "verified"} =>
           latest'[t] # Nobody
      /\ latest'[t] # Nobody => Followed(task[t].status, t)'
<1> SUFFICES ASSUME NEW t \in Tasks PROVE FollowedNext(t)
  BY DEF LatestFollowed
<1>1. /\ task[t].status \in {"result_submitted", "reviewing", "verified"} =>
           latest[t] # Nobody
      /\ latest[t] # Nobody => Followed(task[t].status, t)
  BY <1>0 DEF LatestFollowed
<1>2. ASSUME UNCHANGED reviewVars,
             \/ task'[t].status = task[t].status
             \/ Ordinary(task[t].status, task'[t].status)
      PROVE  FollowedNext(t)
  <2>1. CASE task'[t].status = task[t].status
    BY <1>1, <1>2, <2>1 DEF reviewVars, Followed
  <2>2. CASE Ordinary(task[t].status, task'[t].status)
    <3>1. /\ task'[t].status \notin {"result_submitted", "reviewing", "verified"}
          /\ latest[t] # Nobody => Followed(task'[t].status, t)
      BY <1>1, <2>2, OrdinaryFollowed
    <3> QED BY <1>2, <3>1 DEF reviewVars, Followed
  <2> QED BY <1>2, <2>1, <2>2
<1>3. ASSUME NEW c \in Callers, CallStep(c), UNCHANGED reviewVars
      PROVE  FollowedNext(t)
  BY <1>2, <1>3, OrdinaryMoves
<1>4. ASSUME Surroundings \/ UNCHANGED rvars, UNCHANGED reviewVars
      PROVE  FollowedNext(t)
  BY <1>2, <1>4, OrdinaryMoves
<1>5. ASSUME NEW c \in Callers, ReviewCall(c) PROVE FollowedNext(t)
  <2>1. task' = task /\ UNCHANGED reviewVars
    BY <1>5 DEF ReviewCall, BeginBeginReview, BeginDecide, Begin
  <2> QED BY <1>2, <2>1
<1>6. ASSUME NEW c \in Callers, SubmitResult(c) PROVE FollowedNext(t)
  <2> DEFINE k == call[c]
  <2>1. /\ k.asg \in Assignments /\ k.task \in Tasks
        /\ asg[k.asg] # Unused /\ asg[k.asg].task = k.task
    BY <1>6, SubmitRows
  <2>2. /\ latest' = [latest EXCEPT ![k.task] = k.asg] /\ review' = review
        /\ task' = [task EXCEPT ![k.task] = Moved(task[k.task], "result_submitted")]
        /\ \A a \in Assignments \ {k.asg} : result'[a] = result[a]
        /\ result[k.asg] = NoResult
    BY <1>0, <1>6 DEF SubmitResult, CommitSubmit, ReviewRowsOK
  <2>3. CASE t = k.task
    <3>1. task'[t].status = "result_submitted" /\ latest'[t] = k.asg
      BY <1>0, <2>1, <2>2, <2>3 DEF ReviewRowsOK, CP!TypeOK, Moved
    <3>2. review[k.asg] = NoReview
      BY <1>0, <2>1, <2>2 DEF ResultsBound
    <3>3. latest'[t] # Nobody
      BY <2>1, <3>1, NobodyAssumption
    <3> QED BY <2>2, <3>1, <3>2, <3>3 DEF Followed
  <2>4. CASE t # k.task
    <3>1. task'[t] = task[t] /\ latest'[t] = latest[t]
      BY <1>0, <2>2, <2>4 DEF ReviewRowsOK, CP!TypeOK
    <3>2. latest[t] # Nobody => result'[latest[t]] = result[latest[t]]
      BY <1>0, <2>1, <2>2, <2>4 DEF ResultsBound, ReviewRowsOK
    <3> QED BY <1>1, <2>2, <3>1, <3>2 DEF Followed
  <2> QED BY <2>3, <2>4
<1>7. ASSUME NEW c \in Callers, CommitBeginReview(c) PROVE FollowedNext(t)
  <2> DEFINE k == call[c]
  <2>1. k.asg \in Assignments /\ k.task \in Tasks /\ latest[k.task] = k.asg
    BY <1>7, ReviewOfLatest, ReviewTask DEF CommitBeginReview
  <2>2. /\ review' = [review EXCEPT ![k.asg] = OpenReview(k.reviewer)]
        /\ task' = [task EXCEPT ![k.task] = Moved(task[k.task], "reviewing")]
        /\ latest' = latest /\ result' = result
        /\ task[k.task].status = "result_submitted"
    BY <1>7 DEF CommitBeginReview, TaskStill
  <2>3. CASE t = k.task
    <3>1. task'[t].status = "reviewing" /\ review'[latest'[t]].decision = "REVIEWING"
      BY <1>0, <2>1, <2>2, <2>3 DEF ReviewRowsOK, CP!TypeOK, Moved, OpenReview
    <3> QED BY <1>1, <2>2, <2>3, <3>1 DEF Followed
  <2>4. CASE t # k.task
    <3>1. task'[t] = task[t]
      BY <1>0, <2>2, <2>4 DEF CP!TypeOK
    <3>2. latest[t] # Nobody => latest[t] # k.asg
      BY <1>0, <2>1, <2>4, <2>2 DEF ResultsBound, LatestFollowed
    <3>3. latest[t] # Nobody => review'[latest[t]] = review[latest[t]]
      BY <1>0, <2>2, <3>2 DEF ReviewRowsOK
    <3> QED BY <1>1, <2>2, <3>1, <3>3 DEF Followed
  <2> QED BY <2>3, <2>4
<1>8. ASSUME NEW c \in Callers, CommitDecide(c) PROVE FollowedNext(t)
  <2> DEFINE k == call[c]
             s == FINAL_TASK_STATES[k.decision]
  <2>1. k.asg \in Assignments /\ k.task \in Tasks /\ latest[k.task] = k.asg
    BY <1>8, ReviewOfLatest, ReviewTask DEF CommitDecide
  <2>2. /\ review' = [review EXCEPT ![k.asg].decision = k.decision]
        /\ task' = [task EXCEPT ![k.task] = Moved(task[k.task], s)]
        /\ latest' = latest /\ result' = result
        /\ task[k.task].status = "reviewing"
        /\ review[k.asg] = OpenReview(k.reviewer)
    BY <1>8 DEF CommitDecide, TaskStill
  <2>3. /\ k.decision \in FINAL_DECISIONS
        /\ k.decision = "VERIFIED" => result[k.asg].tests = "passed"
    BY <1>0, <1>8 DEF CommitDecide, ReviewCallsChecked
  <2>4. /\ s = "verified" => k.decision = "VERIFIED"
        /\ s \notin {"result_submitted", "reviewing"}
    BY <2>3 DEF FINAL_TASK_STATES, FINAL_DECISIONS
  <2> HIDE DEF s
  <2>5. CASE t = k.task
    <3>1. task'[t].status = s
      BY <1>0, <2>1, <2>2, <2>5 DEF CP!TypeOK, Moved
    <3>2. review'[k.asg].decision = k.decision
      BY <1>0, <2>1, <2>2 DEF ReviewRowsOK, OpenReview
    <3> QED BY <1>1, <2>1, <2>2, <2>3, <2>4, <2>5, <3>1, <3>2 DEF Followed
  <2>6. CASE t # k.task
    <3>1. task'[t] = task[t]
      BY <1>0, <2>2, <2>6 DEF CP!TypeOK
    <3>2. latest[t] # Nobody => latest[t] # k.asg
      BY <1>0, <2>1, <2>2, <2>6 DEF ResultsBound, LatestFollowed
    <3>3. latest[t] # Nobody => review'[latest[t]] = review[latest[t]]
      BY <1>0, <2>2, <3>2 DEF ReviewRowsOK
    <3> QED BY <1>1, <2>2, <3>1, <3>3 DEF Followed
  <2> QED BY <2>5, <2>6
<1> QED BY <1>3, <1>4, <1>5, <1>6, <1>7, <1>8
        DEF ReviewNext, ReviewStep, rvars
-----------------------------------------------------------------------------
LEMMA ReviewInvStep == ReviewInv /\ [ReviewNext]_rvars => ReviewInv'
BY PlainInvStep, ReviewRowsStep, ResultsBoundStep, ReviewCallsStep,
   OlderDecidedStep, LatestFollowedStep DEF ReviewInv

LEMMA ReviewInductive == ReviewSpec => []ReviewInv
BY ReviewInitInv, ReviewInvStep, PTL DEF ReviewSpec

(* A task is verified only on the strength of its latest result, reviewed, *)
(* found verified and with no failed test (task_review_service.py).        *)
THEOREM VerdictsOnLatest == ReviewSpec => []VerdictOnLatest
<1>1. ReviewInv => VerdictOnLatest
  BY DEF ReviewInv, LatestFollowed, Followed, VerdictOnLatest
<1> QED BY ReviewInductive, <1>1, PTL

(* One result of a task at a time is under review, and it is the latest.   *)
THEOREM ReviewsExclusive == ReviewSpec => []ReviewExclusive
<1>1. ReviewInv => ReviewExclusive
  <2> SUFFICES ASSUME ReviewInv, NEW t \in Tasks, task[t].status = "reviewing"
               PROVE  {a \in Assignments : asg[a] # Unused /\ asg[a].task = t
                         /\ review[a].decision = "REVIEWING"} = {latest[t]}
    BY DEF ReviewExclusive
  <2>0. ResultsBound /\ ReviewRowsOK /\ OlderDecided /\ LatestFollowed
    BY DEF ReviewInv
  <2>1. latest[t] # Nobody /\ review[latest[t]].decision = "REVIEWING"
    BY <2>0 DEF LatestFollowed, Followed
  <2>2. /\ latest[t] \in Assignments /\ result[latest[t]] # NoResult
        /\ asg[latest[t]].task = t /\ asg[latest[t]] # Unused
    BY <2>0, <2>1 DEF ReviewRowsOK, ResultsBound
  <2>3. ASSUME NEW a \in Assignments, asg[a].task = t, review[a].decision = "REVIEWING"
        PROVE  a = latest[t]
    <3>1. review[a] # NoReview /\ review[a].decision \notin FINAL_DECISIONS
      BY <2>3 DEF NoReview, FINAL_DECISIONS
    <3> QED BY <2>0, <2>3, <3>1 DEF ResultsBound, OlderDecided
  <2> QED BY <2>1, <2>2, <2>3
<1> QED BY ReviewInductive, <1>1, PTL

(* No later review, decision or retry rewrites a verdict.                  *)
THEOREM VerdictsFinal == ReviewSpec => VerdictFinal
<1>1. ReviewInv /\ [ReviewNext]_rvars =>
        \A a \in Assignments :
          review[a].decision \in FINAL_DECISIONS => review'[a] = review[a]
  <2> SUFFICES ASSUME ReviewInv, [ReviewNext]_rvars, NEW a \in Assignments,
                      review[a].decision \in FINAL_DECISIONS
               PROVE  review'[a] = review[a]
    OBVIOUS
  <2>0. ReviewRowsOK
    BY DEF ReviewInv
  <2>1. ASSUME NEW c \in Callers, CommitBeginReview(c) \/ CommitDecide(c)
        PROVE  review'[a] = review[a]
    <3>1. review[call[c].asg].decision \notin FINAL_DECISIONS
      BY <2>1 DEF CommitBeginReview, CommitDecide, Reviewable, NoReview, OpenReview,
                  FINAL_DECISIONS
    <3> QED BY <2>0, <2>1, <3>1 DEF CommitBeginReview, CommitDecide, ReviewRowsOK
  <2>2. ASSUME NEW c \in Callers, SubmitResult(c) \/ ReviewCall(c)
        PROVE  review' = review
    BY <2>2 DEF SubmitResult, ReviewCall, BeginBeginReview, BeginDecide, reviewVars
  <2> QED BY <2>1, <2>2 DEF ReviewNext, ReviewStep, rvars, reviewVars
<1> QED BY ReviewInductive, <1>1, PTL DEF ReviewSpec, VerdictFinal
-----------------------------------------------------------------------------
(* Every request is one of these two services.                             *)
LEMMA NewCalls ==
  ASSUME ReviewInv, [ReviewNext]_rvars, NEW c \in Callers
  PROVE  \/ call'[c] = call[c] \/ call'[c] = Idle
         \/ call'[c].op \in PlainOps
         \/ call'[c] \in ReviewRequests
<1>0. CallMap /\ CP!TypeOK /\ ResultsBound
  BY DEF ReviewInv, CP!IInv
<1>1. CASE BeginCall(c)
  BY <1>0, <1>1, PlainBeginCall, PlainBegin
<1>2. CASE ReviewCall(c)
  <2>1. ASSUME NEW a \in Assignments, result[a] # NoResult
        PROVE  asg[a].task \in Tasks /\ task[asg[a].task] \in TaskRow
    BY <1>0, <2>1 DEF ResultsBound, CP!TypeOK, CP!Unused, CP!AssignmentRow,
                      CP!TaskRow, TaskRow, CP!ALL_STATES, ALL_STATES
  <2>2. ASSUME NEW a \in Assignments, NEW r \in Reviewers, BeginBeginReview(c, a, r)
        PROVE  call'[c] \in ReviewRequests
    <3> DEFINE q == [op |-> "begin_review", asg |-> a, reviewer |-> r,
                     task |-> asg[a].task, seen |-> task[asg[a].task]]
    <3>1. Begin(c, q) /\ result[a] # NoResult
      BY <2>2 DEF BeginBeginReview, Preflight
    <3>2. q \in ReviewRequests
      BY <2>1, <3>1 DEF ReviewRequests
    <3> QED BY <1>0, <3>1, <3>2, PlainBegin
  <2>3. ASSUME NEW a \in Assignments, NEW r \in Reviewers, NEW d \in FINAL_DECISIONS,
               BeginDecide(c, a, r, d)
        PROVE  call'[c] \in ReviewRequests
    <3> DEFINE q == [op |-> "decide", asg |-> a, reviewer |-> r, decision |-> d,
                     task |-> asg[a].task, seen |-> task[asg[a].task]]
    <3>1. Begin(c, q) /\ result[a] # NoResult
      BY <2>3 DEF BeginDecide, Preflight
    <3>2. q \in ReviewRequests
      BY <2>1, <3>1 DEF ReviewRequests
    <3> QED BY <1>0, <3>1, <3>2, PlainBegin
  <2> QED BY <1>2, <2>2, <2>3 DEF ReviewCall
<1> QED BY <1>1, <1>2, CallChange

(* What the control plane sees is typed, and the rest is known.            *)
LEMMA PlainTyped ==
  ASSUME ReviewInv
  PROVE  /\ \A c \in Callers : call[c].op \in PlainOps => call[c] \in {Idle} \cup Requests
         /\ task \in [Tasks -> TaskRow]
         /\ asg \in [Assignments -> {Unused} \cup AssignmentRow]
         /\ worker \in [Workers -> WORKER_STATUSES \cup {"absent"}]
<1>0. CP!TypeOK
  BY DEF ReviewInv, CP!IInv
<1>1. ASSUME NEW c \in Callers, call[c].op \in PlainOps
      PROVE  call[c] \in {Idle} \cup Requests
  <2>1. call[c] = PlainCall[c] /\ PlainCall[c] \in {Idle} \cup CP!Requests
    BY <1>0, <1>1, PlainRequests DEF CP!TypeOK, CP!Idle
  <2>2. CP!Requests = Requests
    BY DEF CP!Requests, Requests, CP!TaskRow, TaskRow, CP!ALL_STATES, ALL_STATES,
           CP!WORKER_STATUSES, WORKER_STATUSES
  <2> QED BY <2>1, <2>2
<1> QED BY <1>0, <1>1
        DEF CP!TypeOK, CP!TaskRow, TaskRow, CP!ALL_STATES, ALL_STATES, CP!Unused,
            CP!AssignmentRow, AssignmentRow, CP!ACTIVE_ASSIGNMENT_STATUSES,
            ACTIVE_ASSIGNMENT_STATUSES, CP!CLOSED_ASSIGNMENT_STATUSES,
            CLOSED_ASSIGNMENT_STATUSES, CP!WORKER_STATUSES, WORKER_STATUSES

(* The tables and the calls in flight hold well-formed rows.               *)
THEOREM ReviewTyped == ReviewSpec => []ReviewTypeOK
<1>1. ReviewInit => CallsKnown
  BY DEF ReviewInit, Init, CallsKnown
<1>2. ReviewInv /\ CallsKnown /\ [ReviewNext]_rvars => CallsKnown'
  BY NewCalls DEF CallsKnown
<1>3. ReviewInv /\ CallsKnown => ReviewTypeOK
  <2> SUFFICES ASSUME ReviewInv, CallsKnown PROVE ReviewTypeOK
    OBVIOUS
  <2>1. ASSUME NEW c \in Callers
        PROVE  call[c] \in {Idle} \cup Requests \cup ReviewRequests
    BY PlainTyped DEF CallsKnown
  <2>2. call \in [Callers -> {Idle} \cup Requests \cup ReviewRequests]
    BY <2>1 DEF ReviewInv, CallMap
  <2> QED BY <2>2, PlainTyped DEF ReviewTypeOK, ReviewRowsOK, ReviewInv
<1> QED BY ReviewInductive, <1>1, <1>2, <1>3, PTL DEF ReviewSpec
-----------------------------------------------------------------------------
(* The instance the model checker is given and the one the lemmas are      *)
(* taken from read the same module through the same mapping.               *)
LEMMA SamePlain ==
  /\ CP!Init <=> Plain!Init
  /\ CP!Next <=> Plain!Next
  /\ CP!vars = Plain!vars
BY DEF CP!Init, Plain!Init, CP!vars, Plain!vars, CP!Next, Plain!Next,
       CP!CallStep, Plain!CallStep, CP!BeginCall, Plain!BeginCall,
       CP!CommitPlain, Plain!CommitPlain, CP!Surroundings, Plain!Surroundings,
       CP!Abandon, Plain!Abandon, CP!StartAssignment, Plain!StartAssignment,
       CP!LeaseLapses, Plain!LeaseLapses, CP!BeginClaim, Plain!BeginClaim,
       CP!BeginHeartbeat, Plain!BeginHeartbeat, CP!BeginRecover,
       Plain!BeginRecover, CP!BeginSubmit, Plain!BeginSubmit,
       CP!BeginTransition, Plain!BeginTransition, CP!BeginSetStatus,
       Plain!BeginSetStatus, CP!BeginRegister, Plain!BeginRegister,
       CP!CommitClaim, Plain!CommitClaim, CP!CommitHeartbeat,
       Plain!CommitHeartbeat, CP!CommitRecover, Plain!CommitRecover,
       CP!CommitSubmit, Plain!CommitSubmit, CP!CommitTransition,
       Plain!CommitTransition, CP!CommitSetStatus, Plain!CommitSetStatus,
       CP!CommitRegister, Plain!CommitRegister, CP!Begin, Plain!Begin,
       CP!Finish, Plain!Finish, CP!Idle, Plain!Idle, CP!Unused, Plain!Unused,
       CP!MayClaim, Plain!MayClaim, CP!Queued, Plain!Queued, CP!LapsedOf,
       Plain!LapsedOf, CP!HeldBy, Plain!HeldBy, CP!HoldingsOf,
       Plain!HoldingsOf, CP!Active, Plain!Active,
       CP!ACTIVE_ASSIGNMENT_STATUSES, Plain!ACTIVE_ASSIGNMENT_STATUSES,
       CP!SameVersion, Plain!SameVersion, CP!IndexAdmits, Plain!IndexAdmits,
       CP!SeatFree, Plain!SeatFree, CP!Seats, Plain!Seats, CP!Moved,
       Plain!Moved, CP!MayBeat, Plain!MayBeat, CP!Renewable, Plain!Renewable,
       CP!Expired, Plain!Expired, CP!WorkerAfterRecovery,
       Plain!WorkerAfterRecovery, CP!StateAfterRecovery,
       Plain!StateAfterRecovery, CP!StillLapsed, Plain!StillLapsed,
       CP!TaskAsRead, Plain!TaskAsRead, CP!StillLeased, Plain!StillLeased,
       CP!WorkerAfterSubmit, Plain!WorkerAfterSubmit, CP!CanMove,
       Plain!CanMove, CP!TRANSITION_GRAPH, Plain!TRANSITION_GRAPH,
       CP!ACTOR_WRITEABLE_STATES, Plain!ACTOR_WRITEABLE_STATES,
       CP!NoOtherExecutor, Plain!NoOtherExecutor, CP!WORKER_STATUSES,
       Plain!WORKER_STATUSES

(* The review service adds no behaviour of tasks, assignments and workers  *)
(* to what the control plane allows.                                       *)
THEOREM ReviewIsControlPlane == ReviewSpec => ControlPlaneSpec
<1>1. ReviewInit => Plain!Init
  <2> SUFFICES ASSUME ReviewInit PROVE CP!Init
    BY SamePlain
  <2>1. PlainCall = [c \in Callers |-> Idle]
    BY DEF ReviewInit, Init, PlainCall, PlainRequest, PlainOps
  <2> QED BY <2>1 DEF ReviewInit, Init, CP!Init, CP!Idle, CP!Unused
<1>2. ReviewInv /\ [ReviewNext]_rvars => [Plain!Next]_(Plain!vars)
  <2> SUFFICES ASSUME ReviewInv, [ReviewNext]_rvars
               PROVE  Plain!Next \/ Plain!vars' = Plain!vars
    OBVIOUS
  <2>1. CP!Next \/ CP!vars' = CP!vars
    BY PlainInvStep
  <2>2. CP!vars' = CP!vars => Plain!vars' = Plain!vars
    BY DEF CP!vars, Plain!vars
  <2> QED BY <2>1, <2>2, SamePlain
<1> QED BY ReviewInductive, <1>1, <1>2, PTL DEF ReviewSpec, ControlPlaneSpec, Plain!Spec
=============================================================================
