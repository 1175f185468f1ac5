------------------------- MODULE ControlPlane_proofs -------------------------
(***************************************************************************)
(* Proofs about ControlPlane for every choice of its constants: the type   *)
(* invariant, the safety invariants, and that every behaviour is one of    *)
(* TaskLifecycle.                                                          *)
(***************************************************************************)
EXTENDS ControlPlane, TLAPS

(* What the checks of a call establish and no other call can undo.         *)
CallsChecked == \A c \in Callers :
  LET k == call[c] IN
  /\ k.op = "claim" => k.seen.status = "queued"
  /\ k.op \in {"recover", "submit"} =>
       /\ asg[k.asg] # Unused
       /\ asg[k.asg].task = k.task
       /\ k.seen.status \in {"claimed", "running"}
  /\ k.op = "transition" =>
       /\ <<k.seen.status, k.target>> \in TRANSITION_GRAPH
       /\ k.target # "claimed"

(* The inductive invariant.                                                *)
IInv ==
  /\ TypeOK
  /\ CallsChecked
  /\ SnapshotSound
  /\ OneActivePerTask
  /\ TaskHeld

USE DEF Idle, Unused

-----------------------------------------------------------------------------
(* What a request carries, by the kind of call that made it.               *)
LEMMA RequestTypes ==
  ASSUME TypeOK, NEW c \in Callers
  PROVE  /\ call[c] = Idle \/ call[c] \in Requests
         /\ call[c].op = "claim" => /\ call[c].task \in Tasks
                                    /\ call[c].worker \in Workers
                                    /\ call[c].seen \in TaskRow
         /\ call[c].op \in {"recover", "submit"} =>
                                    /\ call[c].asg \in Assignments
                                    /\ call[c].task \in Tasks
                                    /\ call[c].seen \in TaskRow
         /\ call[c].op = "transition" =>
                                    /\ call[c].task \in Tasks
                                    /\ call[c].target \in ALL_STATES
                                    /\ call[c].seen \in TaskRow
         /\ call[c].op = "heartbeat" => call[c].asg \in Assignments
         /\ call[c].op = "set_status" => /\ call[c].worker \in Workers
                                         /\ call[c].target \in WORKER_STATUSES
         /\ call[c].op = "register" => call[c].worker \in Workers
BY DEF TypeOK, Requests

(* A row that is not unused is an assignment.                              *)
LEMMA AssignmentTypes ==
  ASSUME TypeOK, NEW a \in Assignments, asg[a] # Unused
  PROVE  asg[a] \in AssignmentRow
BY DEF TypeOK

LEMMA ActiveUsed ==
  ASSUME NEW a \in Assignments, Active(a)
  PROVE  asg[a] # Unused
BY DEF Active, ACTIVE_ASSIGNMENT_STATUSES

LEMMA MovedType ==
  ASSUME NEW row \in TaskRow, NEW s \in ALL_STATES
  PROVE  /\ Moved(row, s) \in TaskRow
         /\ Moved(row, s).status = s
         /\ Moved(row, s).version = row.version + 1
BY DEF Moved, TaskRow

LEMMA BeginType ==
  ASSUME TypeOK, NEW c \in Callers, NEW r \in Requests, Begin(c, r)
  PROVE  TypeOK'
BY DEF TypeOK, Begin

LEMMA FinishType ==
  ASSUME TypeOK, NEW c \in Callers, Finish(c)
  PROVE  call' \in [Callers -> {Idle} \cup Requests]
BY DEF TypeOK, Finish
-----------------------------------------------------------------------------
(* Every call begins with a well-typed request and no change to the tables. *)
LEMMA BeginCallRequest ==
  ASSUME TypeOK, NEW c \in Callers, BeginCall(c)
  PROVE  \E r \in Requests : Begin(c, r)
<1>1. ASSUME NEW t \in Tasks, NEW w \in Workers, BeginClaim(c, t, w)
      PROVE  \E r \in Requests : Begin(c, r)
  <2>1. [op |-> "claim", task |-> t, worker |-> w, seen |-> task[t]] \in Requests
    BY DEF TypeOK, Requests
  <2> QED BY <1>1, <2>1 DEF BeginClaim
<1>2. ASSUME NEW a \in Assignments, BeginHeartbeat(c, a)
      PROVE  \E r \in Requests : Begin(c, r)
  <2>1. [op |-> "heartbeat", asg |-> a] \in Requests
    BY DEF Requests
  <2> QED BY <1>2, <2>1 DEF BeginHeartbeat
<1>3. ASSUME NEW a \in Assignments, BeginRecover(c, a)
      PROVE  \E r \in Requests : Begin(c, r)
  <2>1. asg[a].task \in Tasks
    BY <1>3, ActiveUsed, AssignmentTypes DEF BeginRecover, Expired, AssignmentRow
  <2>2. [op |-> "recover", asg |-> a, task |-> asg[a].task,
         seen |-> task[asg[a].task]] \in Requests
    BY <2>1 DEF TypeOK, Requests
  <2> QED BY <1>3, <2>2 DEF BeginRecover
<1>4. ASSUME NEW a \in Assignments, BeginSubmit(c, a)
      PROVE  \E r \in Requests : Begin(c, r)
  <2>1. asg[a].task \in Tasks
    BY <1>4, AssignmentTypes DEF BeginSubmit, AssignmentRow
  <2>2. [op |-> "submit", asg |-> a, task |-> asg[a].task,
         seen |-> task[asg[a].task]] \in Requests
    BY <2>1 DEF TypeOK, Requests
  <2> QED BY <1>4, <2>2 DEF BeginSubmit
<1>5. ASSUME NEW t \in Tasks, NEW move \in TaskMoves, BeginTransition(c, t, move)
      PROVE  \E r \in Requests : Begin(c, r)
  <2>1. move[2] \in ALL_STATES
    BY TaskMovesAssumption DEF ACTOR_WRITEABLE_STATES, ALL_STATES
  <2>2. [op |-> "transition", task |-> t, target |-> move[2],
         seen |-> task[t]] \in Requests
    BY <2>1 DEF TypeOK, Requests
  <2> QED BY <1>5, <2>2 DEF BeginTransition
<1>6. ASSUME NEW w \in Workers, NEW s \in WORKER_STATUSES, BeginSetStatus(c, w, s)
      PROVE  \E r \in Requests : Begin(c, r)
  <2>1. [op |-> "set_status", worker |-> w, target |-> s] \in Requests
    BY DEF Requests
  <2> QED BY <1>6, <2>1 DEF BeginSetStatus
<1>7. ASSUME NEW w \in Workers, BeginRegister(c, w)
      PROVE  \E r \in Requests : Begin(c, r)
  <2>1. [op |-> "register", worker |-> w] \in Requests
    BY DEF Requests
  <2> QED BY <1>7, <2>1 DEF BeginRegister
<1> QED BY <1>1, <1>2, <1>3, <1>4, <1>5, <1>6, <1>7 DEF BeginCall

LEMMA TypeInit == Init => TypeOK
BY SeedAssumption DEF Init, TypeOK, TaskRow

LEMMA TypeStep == TypeOK /\ [Next]_vars => TypeOK'
<1> SUFFICES ASSUME TypeOK, [Next]_vars PROVE TypeOK'
  OBVIOUS
<1>1. ASSUME NEW c \in Callers, BeginCall(c) PROVE TypeOK'
  BY <1>1, BeginCallRequest, BeginType
<1>2. ASSUME NEW c \in Callers, CommitClaim(c) PROVE TypeOK'
  <2> DEFINE k == call[c]
  <2>1. k.task \in Tasks /\ k.worker \in Workers
    BY <1>2, RequestTypes DEF CommitClaim
  <2>2. task' \in [Tasks -> TaskRow]
    <3>1. task[k.task] \in TaskRow
      BY <2>1 DEF TypeOK
    <3>2. Moved(task[k.task], "claimed") \in TaskRow
      BY <3>1, MovedType DEF ALL_STATES
    <3> QED BY <1>2, <3>2 DEF CommitClaim, TypeOK
  <2>3. worker' \in [Workers -> WORKER_STATUSES \cup {"absent"}]
    BY <1>2 DEF CommitClaim, TypeOK, WORKER_STATUSES
  <2>4. asg' \in [Assignments -> {Unused} \cup AssignmentRow]
    <3>1. PICK new \in Assignments :
            asg' = [a \in Assignments |->
                      IF a = new
                      THEN [status |-> "assigned", task |-> k.task,
                            worker |-> k.worker, lapsed |-> FALSE]
                      ELSE IF a \in LapsedOf(k.task)
                           THEN [asg[a] EXCEPT !.status = "timeout"]
                           ELSE asg[a]]
      BY <1>2 DEF CommitClaim
    <3>2. [status |-> "assigned", task |-> k.task,
           worker |-> k.worker, lapsed |-> FALSE] \in AssignmentRow
      BY <2>1 DEF AssignmentRow, ACTIVE_ASSIGNMENT_STATUSES
    <3>3. ASSUME NEW a \in LapsedOf(k.task)
          PROVE  [asg[a] EXCEPT !.status = "timeout"] \in AssignmentRow
      <4>1. asg[a] \in AssignmentRow
        BY ActiveUsed, AssignmentTypes DEF LapsedOf, HeldBy
      <4> QED BY <4>1 DEF AssignmentRow, CLOSED_ASSIGNMENT_STATUSES
    <3> QED BY <3>1, <3>2, <3>3 DEF TypeOK
  <2> QED BY <1>2, <2>2, <2>3, <2>4, FinishType DEF CommitClaim, TypeOK
<1>3. ASSUME NEW c \in Callers, CommitHeartbeat(c) PROVE TypeOK'
  <2> DEFINE a == call[c].asg
  <2>1. a \in Assignments /\ asg[a] \in AssignmentRow
    BY <1>3, RequestTypes, ActiveUsed, AssignmentTypes DEF CommitHeartbeat
  <2>2. asg' \in [Assignments -> {Unused} \cup AssignmentRow]
    BY <1>3, <2>1 DEF CommitHeartbeat, TypeOK, AssignmentRow
  <2> QED BY <1>3, <2>2, FinishType DEF CommitHeartbeat, TypeOK
<1>4. ASSUME NEW c \in Callers, CommitRecover(c) PROVE TypeOK'
  <2> DEFINE k == call[c]
             w == asg[k.asg].worker
  <2>1. k.asg \in Assignments /\ k.task \in Tasks
    BY <1>4, RequestTypes DEF CommitRecover
  <2>2. asg[k.asg] \in AssignmentRow
    BY <1>4, <2>1, ActiveUsed, AssignmentTypes DEF CommitRecover, StillLapsed
  <2>3. asg' \in [Assignments -> {Unused} \cup AssignmentRow]
    BY <1>4, <2>2 DEF CommitRecover, TypeOK, AssignmentRow, CLOSED_ASSIGNMENT_STATUSES
  <2>4. task' \in [Tasks -> TaskRow]
    <3>1. StateAfterRecovery(k.seen.status) \in ALL_STATES
      BY DEF StateAfterRecovery, ALL_STATES
    <3>2. Moved(task[k.task], StateAfterRecovery(k.seen.status)) \in TaskRow
      BY <2>1, <3>1, MovedType DEF TypeOK
    <3> QED BY <1>4, <3>2 DEF CommitRecover, TypeOK
  <2>5. worker' \in [Workers -> WORKER_STATUSES \cup {"absent"}]
    <3>1. w \in Workers
      BY <2>2 DEF AssignmentRow
    <3>2. WorkerAfterRecovery(w, k.asg) \in WORKER_STATUSES \cup {"absent"}
      BY <3>1 DEF WorkerAfterRecovery, TypeOK, WORKER_STATUSES
    <3> QED BY <1>4, <3>2 DEF CommitRecover, TypeOK
  <2> QED BY <1>4, <2>3, <2>4, <2>5, FinishType DEF CommitRecover, TypeOK
<1>5. ASSUME NEW c \in Callers, CommitSubmit(c) PROVE TypeOK'
  <2> DEFINE k == call[c]
             w == asg[k.asg].worker
  <2>1. k.asg \in Assignments /\ k.task \in Tasks
    BY <1>5, RequestTypes DEF CommitSubmit
  <2>2. asg[k.asg] \in AssignmentRow
    BY <1>5, <2>1, AssignmentTypes DEF CommitSubmit, StillLeased
  <2>3. asg' \in [Assignments -> {Unused} \cup AssignmentRow]
    BY <1>5, <2>2 DEF CommitSubmit, TypeOK, AssignmentRow, CLOSED_ASSIGNMENT_STATUSES
  <2>4. task' \in [Tasks -> TaskRow]
    <3>1. Moved(task[k.task], "result_submitted") \in TaskRow
      BY <2>1, MovedType DEF TypeOK, ALL_STATES
    <3> QED BY <1>5, <3>1 DEF CommitSubmit, TypeOK
  <2>5. worker' \in [Workers -> WORKER_STATUSES \cup {"absent"}]
    <3>1. w \in Workers
      BY <2>2 DEF AssignmentRow
    <3>2. WorkerAfterSubmit(w, k.asg) \in WORKER_STATUSES \cup {"absent"}
      BY <3>1 DEF WorkerAfterSubmit, TypeOK, WORKER_STATUSES
    <3> QED BY <1>5, <3>2 DEF CommitSubmit, TypeOK
  <2> QED BY <1>5, <2>3, <2>4, <2>5, FinishType DEF CommitSubmit, TypeOK
<1>6. ASSUME NEW c \in Callers, CommitTransition(c) PROVE TypeOK'
  <2> DEFINE k == call[c]
  <2>1. k.task \in Tasks /\ k.target \in ALL_STATES
    BY <1>6, RequestTypes DEF CommitTransition
  <2>2. Moved(task[k.task], k.target) \in TaskRow
    BY <2>1, MovedType DEF TypeOK
  <2>3. task' \in [Tasks -> TaskRow]
    BY <1>6, <2>2 DEF CommitTransition, TypeOK
  <2> QED BY <1>6, <2>3, FinishType DEF CommitTransition, TypeOK
<1>7. ASSUME NEW c \in Callers, CommitSetStatus(c) PROVE TypeOK'
  <2>1. call[c].target \in WORKER_STATUSES
    BY <1>7, RequestTypes DEF CommitSetStatus
  <2> QED BY <1>7, <2>1, FinishType DEF CommitSetStatus, TypeOK
<1>8. ASSUME NEW c \in Callers, CommitRegister(c) PROVE TypeOK'
  BY <1>8, FinishType DEF CommitRegister, TypeOK, WORKER_STATUSES
<1>9. ASSUME NEW c \in Callers, Abandon(c) PROVE TypeOK'
  BY <1>9, FinishType DEF Abandon, TypeOK
<1>10. ASSUME NEW a \in Assignments, StartAssignment(a) PROVE TypeOK'
  <2>1. asg[a] \in AssignmentRow
    BY <1>10, AssignmentTypes DEF StartAssignment
  <2> QED BY <1>10, <2>1 DEF StartAssignment, TypeOK, AssignmentRow, ACTIVE_ASSIGNMENT_STATUSES
<1>11. ASSUME NEW a \in Assignments, LeaseLapses(a) PROVE TypeOK'
  <2>1. asg[a] \in AssignmentRow
    BY <1>11, AssignmentTypes
       DEF LeaseLapses, ACTIVE_ASSIGNMENT_STATUSES
  <2> QED BY <1>11, <2>1 DEF LeaseLapses, TypeOK, AssignmentRow
<1>12. CASE UNCHANGED vars
  BY <1>12 DEF vars, TypeOK
<1> QED BY <1>1, <1>2, <1>3, <1>4, <1>5, <1>6, <1>7, <1>8, <1>9, <1>10, <1>11,
           <1>12 DEF Next, CallStep, CommitPlain, Surroundings

(* The tables and the calls in flight always hold well-formed rows.        *)
THEOREM TypeInvariant == Spec => []TypeOK
BY TypeInit, TypeStep, PTL DEF Spec
-----------------------------------------------------------------------------
(* No step takes an assignment row away or gives it to another task, and   *)
(* no step changes a task row without incrementing its version.            *)
LEMMA StepFrame ==
  ASSUME TypeOK, [Next]_vars
  PROVE  /\ \A a \in Assignments :
              asg[a] # Unused => asg'[a] # Unused /\ asg'[a].task = asg[a].task
         /\ \A t \in Tasks :
              task'[t] = task[t] \/ task'[t].version = task[t].version + 1
<1> DEFINE AsgFrame == \A a \in Assignments :
             asg[a] # Unused => asg'[a] # Unused /\ asg'[a].task = asg[a].task
           TaskFrame == \A t \in Tasks :
             task'[t] = task[t] \/ task'[t].version = task[t].version + 1
<1>1. ASSUME NEW c \in Callers, BeginCall(c) PROVE AsgFrame /\ TaskFrame
  BY <1>1, BeginCallRequest DEF Begin
<1>2. ASSUME NEW c \in Callers, CommitClaim(c) PROVE AsgFrame /\ TaskFrame
  <2>1. TaskFrame
    BY <1>2, RequestTypes DEF CommitClaim, TypeOK, Moved
  <2>2. AsgFrame
    <3>1. ASSUME NEW a \in Assignments, asg[a] # Unused
          PROVE  asg'[a] # Unused /\ asg'[a].task = asg[a].task
      <4>1. asg[a] \in AssignmentRow
        BY <3>1, AssignmentTypes
      <4>2. asg'[a] = asg[a] \/ asg'[a] = [asg[a] EXCEPT !.status = "timeout"]
        BY <1>2, <3>1 DEF CommitClaim
      <4> QED BY <4>1, <4>2 DEF AssignmentRow
    <3> QED BY <3>1
  <2> QED BY <2>1, <2>2
<1>3. ASSUME NEW c \in Callers, CommitHeartbeat(c) PROVE AsgFrame /\ TaskFrame
  BY <1>3, RequestTypes, AssignmentTypes DEF CommitHeartbeat, TypeOK, AssignmentRow
<1>4. ASSUME NEW c \in Callers, CommitRecover(c) PROVE AsgFrame /\ TaskFrame
  <2>1. TaskFrame
    BY <1>4, RequestTypes DEF CommitRecover, TypeOK, Moved
  <2>2. AsgFrame
    <3>1. ASSUME NEW a \in Assignments, asg[a] # Unused
          PROVE  asg'[a] # Unused /\ asg'[a].task = asg[a].task
      <4>1. asg[a] \in AssignmentRow
        BY <3>1, AssignmentTypes
      <4>2. asg'[a] = asg[a] \/ asg'[a] = [asg[a] EXCEPT !.status = "timeout"]
        BY <1>4 DEF CommitRecover, TypeOK
      <4> QED BY <4>1, <4>2 DEF AssignmentRow
    <3> QED BY <3>1
  <2> QED BY <2>1, <2>2
<1>5. ASSUME NEW c \in Callers, CommitSubmit(c) PROVE AsgFrame /\ TaskFrame
  <2>1. TaskFrame
    BY <1>5, RequestTypes DEF CommitSubmit, TypeOK, Moved
  <2>2. AsgFrame
    <3>1. ASSUME NEW a \in Assignments, asg[a] # Unused
          PROVE  asg'[a] # Unused /\ asg'[a].task = asg[a].task
      <4>1. asg[a] \in AssignmentRow
        BY <3>1, AssignmentTypes
      <4>2. asg'[a] = asg[a] \/ asg'[a] = [asg[a] EXCEPT !.status = "completed"]
        BY <1>5 DEF CommitSubmit, TypeOK
      <4> QED BY <4>1, <4>2 DEF AssignmentRow
    <3> QED BY <3>1
  <2> QED BY <2>1, <2>2
<1>6. ASSUME NEW c \in Callers, CommitTransition(c) PROVE AsgFrame /\ TaskFrame
  BY <1>6, RequestTypes DEF CommitTransition, TypeOK, Moved
<1>7. ASSUME NEW c \in Callers,
             CommitSetStatus(c) \/ CommitRegister(c) \/ Abandon(c)
      PROVE  AsgFrame /\ TaskFrame
  BY <1>7 DEF CommitSetStatus, CommitRegister, Abandon
<1>8. ASSUME NEW a \in Assignments, StartAssignment(a) \/ LeaseLapses(a)
      PROVE  AsgFrame /\ TaskFrame
  BY <1>8, AssignmentTypes DEF StartAssignment, LeaseLapses, TypeOK, AssignmentRow
<1>9. CASE UNCHANGED vars
  BY <1>9 DEF vars
<1> QED BY <1>1, <1>2, <1>3, <1>4, <1>5, <1>6, <1>7, <1>8, <1>9 DEF Next, CallStep, CommitPlain, Surroundings

(* A step begins one call, or ends one, or leaves the calls alone.         *)
LEMMA CallFrame ==
  ASSUME TypeOK, [Next]_vars,
         ~ \E c \in Callers : BeginCall(c)
  PROVE  \A c \in Callers : call'[c] = call[c] \/ call'[c] = Idle
<1>1. ASSUME NEW c \in Callers, Finish(c)
      PROVE  \A d \in Callers : call'[d] = call[d] \/ call'[d] = Idle
  BY <1>1 DEF Finish, TypeOK
<1>2. ASSUME NEW c \in Callers, CommitPlain(c) \/ CommitSubmit(c) \/ Abandon(c)
      PROVE  Finish(c)
  BY <1>2 DEF CommitPlain, Abandon, CommitClaim, CommitHeartbeat, CommitRecover,
              CommitSubmit, CommitTransition, CommitSetStatus, CommitRegister
<1>3. ASSUME NEW a \in Assignments, StartAssignment(a) \/ LeaseLapses(a)
      PROVE  call' = call
  BY <1>3 DEF StartAssignment, LeaseLapses
<1> QED BY <1>1, <1>2, <1>3 DEF Next, CallStep, Surroundings, vars

(* The task snapshot of a call is the row it was taken from.               *)
LEMMA BeginSnapshot ==
  ASSUME TypeOK, NEW c \in Callers, BeginCall(c)
  PROVE  LET k == call'[c] IN
         /\ \A d \in Callers \ {c} : call'[d] = call[d]
         /\ task' = task /\ asg' = asg /\ worker' = worker
         /\ k.op \in SnapshotOps => k.task \in Tasks /\ k.seen = task[k.task]
         /\ k.op = "claim" => k.seen.status = "queued"
         /\ k.op \in {"recover", "submit"} =>
              /\ asg[k.asg] # Unused
              /\ asg[k.asg].task = k.task
              /\ k.seen.status \in {"claimed", "running"}
         /\ k.op = "transition" =>
              /\ <<k.seen.status, k.target>> \in TRANSITION_GRAPH
              /\ k.target # "claimed"
<1> DEFINE k == call'[c]
<1>0. /\ \A d \in Callers \ {c} : call'[d] = call[d]
      /\ task' = task /\ asg' = asg /\ worker' = worker
  BY BeginCallRequest DEF Begin, TypeOK
<1>1. ASSUME NEW t \in Tasks, NEW w \in Workers, BeginClaim(c, t, w)
      PROVE  /\ k.op = "claim" /\ k.task = t /\ k.seen = task[t]
             /\ k.seen.status = "queued"
  BY <1>1 DEF BeginClaim, Queued, Begin, TypeOK
<1>2. ASSUME NEW a \in Assignments, BeginHeartbeat(c, a)
      PROVE  k.op = "heartbeat"
  BY <1>2 DEF BeginHeartbeat, Begin, TypeOK
<1>3. ASSUME NEW a \in Assignments, BeginRecover(c, a) \/ BeginSubmit(c, a)
      PROVE  /\ k.op \in {"recover", "submit"} /\ k.asg = a
             /\ k.task = asg[a].task /\ k.task \in Tasks
             /\ k.seen = task[asg[a].task] /\ asg[a] # Unused
             /\ k.seen.status \in {"claimed", "running"}
  <2>1. asg[a] # Unused
    BY <1>3, ActiveUsed DEF BeginRecover, BeginSubmit, Expired
  <2>2. asg[a].task \in Tasks
    BY <2>1, AssignmentTypes DEF AssignmentRow
  <2>3. CASE BeginRecover(c, a)
    BY <2>1, <2>2, <2>3 DEF BeginRecover, Expired, Begin, TypeOK
  <2>4. CASE BeginSubmit(c, a)
    BY <2>1, <2>2, <2>4 DEF BeginSubmit, Begin, TypeOK
  <2> QED BY <1>3, <2>3, <2>4
<1>4. ASSUME NEW t \in Tasks, NEW move \in TaskMoves, BeginTransition(c, t, move)
      PROVE  /\ k.op = "transition" /\ k.task = t /\ k.seen = task[t]
             /\ <<k.seen.status, k.target>> \in TRANSITION_GRAPH
             /\ k.target # "claimed"
  BY <1>4, TaskMovesAssumption DEF BeginTransition, CanMove, Begin, TypeOK
<1>5. ASSUME NEW w \in Workers, NEW s \in WORKER_STATUSES, BeginSetStatus(c, w, s)
      PROVE  k.op = "set_status"
  BY <1>5 DEF BeginSetStatus, Begin, TypeOK
<1>6. ASSUME NEW w \in Workers, BeginRegister(c, w)
      PROVE  k.op = "register"
  BY <1>6 DEF BeginRegister, Begin, TypeOK
<1> QED BY <1>0, <1>1, <1>2, <1>3, <1>4, <1>5, <1>6 DEF BeginCall, SnapshotOps
-----------------------------------------------------------------------------
LEMMA InductiveInit == Init => IInv
<1> SUFFICES ASSUME Init PROVE IInv
  OBVIOUS
<1>1. \A c \in Callers : call[c] = Idle
  BY DEF Init
<1>2. \A a \in Assignments : ~ Active(a)
  BY DEF Init, Active, ACTIVE_ASSIGNMENT_STATUSES
<1>3. \A t \in Tasks : task[t].status \notin {"claimed", "running"}
  BY SeedAssumption DEF Init
<1> QED BY TypeInit, <1>1, <1>2, <1>3
        DEF IInv, CallsChecked, SnapshotSound, SnapshotOps, OneActivePerTask, TaskHeld

LEMMA CallsCheckedStep == IInv /\ [Next]_vars => CallsChecked'
<1> SUFFICES ASSUME IInv, [Next]_vars, NEW c \in Callers
             PROVE  LET k == call'[c] IN
                    /\ k.op = "claim" => k.seen.status = "queued"
                    /\ k.op \in {"recover", "submit"} =>
                         /\ asg'[k.asg] # Unused
                         /\ asg'[k.asg].task = k.task
                         /\ k.seen.status \in {"claimed", "running"}
                    /\ k.op = "transition" =>
                         /\ <<k.seen.status, k.target>> \in TRANSITION_GRAPH
                         /\ k.target # "claimed"
  BY DEF CallsChecked
<1>0. TypeOK
  BY DEF IInv
<1>1. CASE call'[c] = Idle
  BY <1>1
<1>2. CASE call'[c] = call[c]
  BY <1>0, <1>2, RequestTypes, StepFrame DEF IInv, CallsChecked
<1>3. ASSUME NEW d \in Callers, BeginCall(d), call'[c] # call[c]
      PROVE  c = d
  BY <1>0, <1>3, BeginSnapshot
<1>4. CASE BeginCall(c)
  BY <1>0, <1>4, BeginSnapshot
<1> QED BY <1>0, <1>1, <1>2, <1>3, <1>4, CallFrame

LEMMA SnapshotStep == IInv /\ [Next]_vars => SnapshotSound'
<1> SUFFICES ASSUME IInv, [Next]_vars, NEW c \in Callers, call'[c].op \in SnapshotOps
             PROVE  LET row == task'[call'[c].task]
                        seen == call'[c].seen
                    IN /\ seen.version <= row.version
                       /\ seen.version = row.version => seen = row
  BY DEF SnapshotSound
<1>0. TypeOK
  BY DEF IInv
<1>1. CASE call'[c] = call[c]
  <2> DEFINE t == call[c].task
             seen == call[c].seen
  <2>1. t \in Tasks /\ seen \in TaskRow
    BY <1>0, <1>1, RequestTypes DEF SnapshotOps
  <2>2. seen.version <= task[t].version /\ (seen.version = task[t].version => seen = task[t])
    BY <1>1 DEF IInv, SnapshotSound
  <2>3. task[t].version \in Nat /\ seen.version \in Nat
    BY <1>0, <2>1 DEF TypeOK, TaskRow
  <2>4. task'[t] = task[t] \/ task'[t].version = task[t].version + 1
    BY <1>0, <2>1, StepFrame
  <2> QED BY <1>1, <2>2, <2>3, <2>4
<1>2. CASE BeginCall(c)
  <2> DEFINE k == call'[c]
  <2>1. task' = task /\ k.task \in Tasks /\ k.seen = task[k.task]
    BY <1>0, <1>2, BeginSnapshot
  <2>2. task[k.task].version \in Nat
    BY <1>0, <2>1 DEF TypeOK, TaskRow
  <2> QED BY <2>1, <2>2
<1>3. ASSUME NEW d \in Callers, BeginCall(d), d # c
      PROVE  call'[c] = call[c]
  BY <1>0, <1>3, BeginSnapshot
<1>4. call'[c] # Idle
  BY DEF SnapshotOps
<1> QED BY <1>0, <1>1, <1>2, <1>3, <1>4, CallFrame
-----------------------------------------------------------------------------
(* Only the claim transaction makes an assignment active.                  *)
LEMMA NoOtherActivation ==
  ASSUME TypeOK, [Next]_vars,
         ~ \E c \in Callers : CommitClaim(c),
         NEW a \in Assignments, asg'[a].status \in ACTIVE_ASSIGNMENT_STATUSES
  PROVE  Active(a) /\ asg'[a].task = asg[a].task
<1>1. ASSUME NEW c \in Callers, BeginCall(c) PROVE asg' = asg
  BY <1>1, BeginCallRequest DEF Begin
<1>2. ASSUME NEW c \in Callers, CommitHeartbeat(c)
      PROVE  asg'[a].status = asg[a].status
  BY <1>2, RequestTypes, ActiveUsed, AssignmentTypes
     DEF CommitHeartbeat, TypeOK, AssignmentRow
<1>3. ASSUME NEW c \in Callers, CommitRecover(c) \/ CommitSubmit(c)
      PROVE  asg'[a] = asg[a]
  <2>1. call[c].asg \in Assignments
    BY <1>3, RequestTypes DEF CommitRecover, CommitSubmit
  <2>2. asg[call[c].asg] \in AssignmentRow
    BY <1>3, <2>1, ActiveUsed, AssignmentTypes
       DEF CommitRecover, StillLapsed, CommitSubmit, StillLeased
  <2>3. asg'[call[c].asg].status \notin ACTIVE_ASSIGNMENT_STATUSES
    BY <1>3, <2>1, <2>2
       DEF CommitRecover, CommitSubmit, TypeOK, AssignmentRow, ACTIVE_ASSIGNMENT_STATUSES
  <2> QED BY <1>3, <2>1, <2>3 DEF CommitRecover, CommitSubmit, TypeOK
<1>4. ASSUME NEW c \in Callers,
             CommitTransition(c) \/ CommitSetStatus(c) \/ CommitRegister(c) \/ Abandon(c)
      PROVE  asg' = asg
  BY <1>4 DEF CommitTransition, CommitSetStatus, CommitRegister, Abandon
<1>5. ASSUME NEW b \in Assignments, StartAssignment(b)
      PROVE  Active(a)
  BY <1>5 DEF StartAssignment, TypeOK, Active, ACTIVE_ASSIGNMENT_STATUSES
<1>6. ASSUME NEW b \in Assignments, LeaseLapses(b)
      PROVE  asg'[a].status = asg[a].status
  BY <1>6, AssignmentTypes DEF LeaseLapses, TypeOK, AssignmentRow, ACTIVE_ASSIGNMENT_STATUSES
<1>7. ASSUME UNCHANGED vars
      PROVE  asg' = asg
  BY <1>7 DEF vars
<1>8. Active(a)
  BY <1>1, <1>2, <1>3, <1>4, <1>5, <1>6, <1>7 DEF Next, CallStep, CommitPlain, Surroundings, Active
<1>9. asg[a] # Unused
  BY <1>8, ActiveUsed
<1> QED BY <1>8, <1>9, StepFrame

(* After a claim the new assignment alone holds the task; the active       *)
(* assignments of the other tasks are those there were.                    *)
LEMMA ClaimEffect ==
  ASSUME TypeOK, NEW c \in Callers, CommitClaim(c)
  PROVE  \E new \in Assignments :
           /\ asg'[new].status \in ACTIVE_ASSIGNMENT_STATUSES
           /\ asg'[new].task = call[c].task
           /\ \A a \in Assignments \ {new} :
                /\ asg'[a].status \in ACTIVE_ASSIGNMENT_STATUSES =>
                     Active(a) /\ asg'[a] = asg[a] /\ asg[a].task # call[c].task
                /\ Active(a) /\ asg[a].task # call[c].task => asg'[a] = asg[a]
           /\ ~ Active(new)
<1> DEFINE k == call[c]
<1>1. PICK new \in Assignments :
        /\ asg[new] = Unused
        /\ asg' = [a \in Assignments |->
                     IF a = new
                     THEN [status |-> "assigned", task |-> k.task,
                           worker |-> k.worker, lapsed |-> FALSE]
                     ELSE IF a \in LapsedOf(k.task)
                          THEN [asg[a] EXCEPT !.status = "timeout"]
                          ELSE asg[a]]
  BY DEF CommitClaim
<1>2. asg'[new].status \in ACTIVE_ASSIGNMENT_STATUSES /\ asg'[new].task = k.task
  BY <1>1 DEF ACTIVE_ASSIGNMENT_STATUSES
<1>3. ASSUME NEW a \in Assignments \ {new},
             asg'[a].status \in ACTIVE_ASSIGNMENT_STATUSES
      PROVE  Active(a) /\ asg'[a] = asg[a] /\ asg[a].task # k.task
  <2>1. a \notin LapsedOf(k.task)
    <3>1. SUFFICES ASSUME a \in LapsedOf(k.task) PROVE FALSE
      OBVIOUS
    <3>2. asg[a] \in AssignmentRow
      BY <3>1, ActiveUsed, AssignmentTypes DEF LapsedOf, HeldBy
    <3>3. asg'[a].status = "timeout"
      BY <1>1, <3>1, <3>2 DEF AssignmentRow
    <3> QED BY <1>3, <3>3 DEF ACTIVE_ASSIGNMENT_STATUSES
  <2>2. asg'[a] = asg[a]
    BY <1>1, <2>1
  <2>3. a \notin HeldBy(k.task)
    BY <2>1 DEF CommitClaim, IndexAdmits
  <2> QED BY <1>3, <2>2, <2>3 DEF Active, HeldBy
<1>4. ASSUME NEW a \in Assignments \ {new}, Active(a), asg[a].task # k.task
      PROVE  asg'[a] = asg[a]
  BY <1>1, <1>4 DEF LapsedOf, HeldBy
<1>5. ~ Active(new)
  BY <1>1 DEF Active, ACTIVE_ASSIGNMENT_STATUSES
<1> QED BY <1>2, <1>3, <1>4, <1>5

LEMMA OneActiveStep == IInv /\ [Next]_vars => OneActivePerTask'
<1> SUFFICES ASSUME IInv, [Next]_vars,
                    NEW a \in Assignments, NEW b \in Assignments,
                    asg'[a].status \in ACTIVE_ASSIGNMENT_STATUSES,
                    asg'[b].status \in ACTIVE_ASSIGNMENT_STATUSES,
                    asg'[a].task = asg'[b].task
             PROVE  a = b
  BY DEF OneActivePerTask, Active
<1>0. TypeOK /\ OneActivePerTask
  BY DEF IInv
<1>1. ASSUME NEW c \in Callers, CommitClaim(c) PROVE a = b
  <2>1. PICK new \in Assignments :
           /\ asg'[new].task = call[c].task
           /\ \A d \in Assignments \ {new} :
                asg'[d].status \in ACTIVE_ASSIGNMENT_STATUSES =>
                  Active(d) /\ asg'[d] = asg[d] /\ asg[d].task # call[c].task
    BY <1>0, <1>1, ClaimEffect
  <2>2. CASE a # new /\ b # new
    BY <1>0, <2>1, <2>2 DEF OneActivePerTask
  <2> QED BY <2>1, <2>2
<1>2. CASE ~ \E c \in Callers : CommitClaim(c)
  BY <1>0, <1>2, NoOtherActivation DEF OneActivePerTask
<1> QED BY <1>1, <1>2

(* A task that a step leaves claimed or running was so already, or the     *)
(* step is its claim, or the move of a claimed task to running.            *)
LEMMA TaskHeldStep == IInv /\ [Next]_vars => TaskHeld'
<1> SUFFICES ASSUME IInv, [Next]_vars, NEW t \in Tasks,
                    task'[t].status \in {"claimed", "running"}
             PROVE  \E a \in Assignments :
                       /\ asg'[a].status \in ACTIVE_ASSIGNMENT_STATUSES
                       /\ asg'[a].task = t
  BY DEF TaskHeld, HeldBy, Active
<1> DEFINE Held == \E a \in Assignments :
                       /\ asg'[a].status \in ACTIVE_ASSIGNMENT_STATUSES
                       /\ asg'[a].task = t
<1>0. TypeOK /\ CallsChecked /\ SnapshotSound /\ OneActivePerTask /\ TaskHeld
  BY DEF IInv
<1>1. ASSUME task'[t].status = task[t].status, asg' = asg PROVE Held
  BY <1>0, <1>1 DEF TaskHeld, HeldBy, Active
<1>2. ASSUME NEW c \in Callers, BeginCall(c) PROVE Held
  BY <1>0, <1>1, <1>2, BeginSnapshot
<1>3. ASSUME NEW c \in Callers, CommitClaim(c) PROVE Held
  <2>1. PICK new \in Assignments :
           /\ asg'[new].status \in ACTIVE_ASSIGNMENT_STATUSES
           /\ asg'[new].task = call[c].task
           /\ \A a \in Assignments \ {new} :
                Active(a) /\ asg[a].task # call[c].task => asg'[a] = asg[a]
           /\ ~ Active(new)
    BY <1>0, <1>3, ClaimEffect
  <2>2. CASE t = call[c].task
    BY <2>1, <2>2
  <2>3. CASE t # call[c].task
    <3>1. task'[t] = task[t]
      BY <1>0, <1>3, <2>3 DEF CommitClaim, TypeOK
    <3>2. PICK a \in Assignments : Active(a) /\ asg[a].task = t
      BY <1>0, <3>1 DEF TaskHeld, HeldBy
    <3> QED BY <2>1, <2>3, <3>2 DEF Active
  <2> QED BY <2>2, <2>3
<1>4. ASSUME NEW c \in Callers, CommitRecover(c) \/ CommitSubmit(c) PROVE Held
  <2> DEFINE k == call[c]
  <2>1. /\ k.asg \in Assignments /\ k.task \in Tasks
        /\ asg[k.asg] # Unused /\ asg[k.asg].task = k.task
    BY <1>0, <1>4, RequestTypes DEF CommitRecover, CommitSubmit, CallsChecked
  <2>2. t # k.task
    <3>1. task'[k.task].status \notin {"claimed", "running"}
      BY <1>0, <1>4, <2>1
         DEF CommitRecover, CommitSubmit, StateAfterRecovery, Moved, TypeOK
    <3> QED BY <3>1
  <2>3. task'[t] = task[t]
    BY <1>0, <1>4, <2>2 DEF CommitRecover, CommitSubmit, TypeOK
  <2>4. PICK a \in Assignments : Active(a) /\ asg[a].task = t
    BY <1>0, <2>3 DEF TaskHeld, HeldBy
  <2>5. asg'[a] = asg[a]
    BY <1>0, <1>4, <2>1, <2>2, <2>4 DEF CommitRecover, CommitSubmit, TypeOK
  <2> QED BY <2>4, <2>5 DEF Active
<1>5. ASSUME NEW c \in Callers, CommitTransition(c) PROVE Held
  <2> DEFINE k == call[c]
  <2>1. k.task \in Tasks /\ k.seen = task[k.task]
    BY <1>0, <1>5, RequestTypes DEF CommitTransition, SnapshotSound, SnapshotOps, SameVersion
  <2>2. task[t].status \in {"claimed", "running"}
    <3>1. CASE t = k.task
      <4>1. k.target = "running" /\ <<k.seen.status, "running">> \in TRANSITION_GRAPH
        BY <1>0, <1>5, <2>1, <3>1 DEF CommitTransition, CallsChecked, Moved, TypeOK
      <4> QED BY <2>1, <3>1, <4>1 DEF TRANSITION_GRAPH
    <3>2. CASE t # k.task
      BY <1>0, <1>5, <3>2 DEF CommitTransition, TypeOK
    <3> QED BY <3>1, <3>2
  <2>3. asg' = asg
    BY <1>5 DEF CommitTransition
  <2> QED BY <1>0, <2>2, <2>3 DEF TaskHeld, HeldBy, Active
<1>6. ASSUME NEW c \in Callers,
             CommitSetStatus(c) \/ CommitRegister(c) \/ Abandon(c) PROVE Held
  BY <1>1, <1>6 DEF CommitSetStatus, CommitRegister, Abandon
<1>7. ASSUME task' = task,
             \A a \in Assignments : Active(a) =>
                /\ asg'[a].status \in ACTIVE_ASSIGNMENT_STATUSES
                /\ asg'[a].task = asg[a].task
      PROVE  Held
  BY <1>0, <1>7 DEF TaskHeld, HeldBy
<1>8. ASSUME NEW c \in Callers, CommitHeartbeat(c) PROVE Held
  <2>1. call[c].asg \in Assignments /\ asg[call[c].asg] \in AssignmentRow
    BY <1>0, <1>8, RequestTypes, ActiveUsed, AssignmentTypes DEF CommitHeartbeat
  <2> QED BY <1>0, <1>7, <1>8, <2>1 DEF CommitHeartbeat, TypeOK, AssignmentRow, Active
<1>9. ASSUME NEW b \in Assignments, StartAssignment(b) \/ LeaseLapses(b) PROVE Held
  <2>1. asg[b] \in AssignmentRow
    BY <1>0, <1>9, AssignmentTypes
       DEF StartAssignment, LeaseLapses, ACTIVE_ASSIGNMENT_STATUSES
  <2> QED BY <1>0, <1>7, <1>9, <2>1
          DEF StartAssignment, LeaseLapses, TypeOK, AssignmentRow, Active,
              ACTIVE_ASSIGNMENT_STATUSES
<1>10. CASE UNCHANGED vars
  BY <1>1, <1>10 DEF vars
<1> QED BY <1>2, <1>3, <1>4, <1>5, <1>6, <1>8, <1>9, <1>10 DEF Next, CallStep, CommitPlain, Surroundings

(* The five invariants together are inductive: each of the last four needs *)
(* the others to survive some transaction.                                 *)
THEOREM Inductive == Spec => []IInv
<1>1. IInv /\ [Next]_vars => IInv'
  BY TypeStep, CallsCheckedStep, SnapshotStep, OneActiveStep, TaskHeldStep DEF IInv
<1> QED BY InductiveInit, <1>1, PTL DEF Spec

(* A task never has two active assignments, for any number of tasks,       *)
(* executors and calls in flight.                                          *)
THEOREM NoDoubleAssignment == Spec => []OneActivePerTask
<1>1. IInv => OneActivePerTask
  BY DEF IInv
<1> QED BY Inductive, <1>1, PTL

(* A claimed or running task always has an assignment that holds it.       *)
THEOREM NoOrphanTask == Spec => []TaskHeld
<1>1. IInv => TaskHeld
  BY DEF IInv
<1> QED BY Inductive, <1>1, PTL

(* A version that has not moved vouches for the state that was read.       *)
THEOREM OptimisticLockSound == Spec => []SnapshotSound
<1>1. IInv => SnapshotSound
  BY DEF IInv
<1> QED BY Inductive, <1>1, PTL
-----------------------------------------------------------------------------
(* One step of the lifecycle of a task, from the change it makes.          *)
LEMMA LifecycleMove ==
  ASSUME NEW t \in Tasks, NEW s \in ALL_STATES,
         <<task[t].status, s>> \in TRANSITION_GRAPH,
         task' = [task EXCEPT ![t] = Moved(task[t], s)]
  PROVE  Lifecycle!Next
<1>1. Lifecycle!Move(t, s)
  BY DEF Lifecycle!Move, Lifecycle!TRANSITION_GRAPH, TRANSITION_GRAPH,
         Lifecycle!Moved, Moved
<1>2. s \in Lifecycle!ALL_STATES
  BY DEF Lifecycle!ALL_STATES, ALL_STATES
<1> QED BY <1>1, <1>2 DEF Lifecycle!Next

LEMMA LifecycleStep == IInv /\ [Next]_vars => [Lifecycle!Next]_task
<1> SUFFICES ASSUME IInv, [Next]_vars, task' # task PROVE Lifecycle!Next
  OBVIOUS
<1>0. TypeOK /\ CallsChecked /\ SnapshotSound
  BY DEF IInv
<1>1. ASSUME NEW c \in Callers, call[c].op \in SnapshotOps, SameVersion(call[c])
      PROVE  call[c].task \in Tasks /\ task[call[c].task] = call[c].seen
  BY <1>0, <1>1, RequestTypes DEF SnapshotSound, SnapshotOps, SameVersion
<1>2. ASSUME NEW c \in Callers, BeginCall(c) PROVE FALSE
  BY <1>0, <1>2, BeginSnapshot
<1>3. ASSUME NEW c \in Callers, CommitClaim(c) PROVE Lifecycle!Next
  <2>1. call[c].task \in Tasks /\ task[call[c].task].status = "queued"
    BY <1>0, <1>1, <1>3 DEF CommitClaim, SnapshotOps, CallsChecked
  <2>2. <<task[call[c].task].status, "claimed">> \in TRANSITION_GRAPH
    BY <2>1 DEF TRANSITION_GRAPH
  <2> QED BY <1>3, <2>1, <2>2, LifecycleMove DEF CommitClaim, ALL_STATES
<1>4. ASSUME NEW c \in Callers, CommitRecover(c) PROVE Lifecycle!Next
  <2> DEFINE k == call[c]
             s == StateAfterRecovery(k.seen.status)
  <2>1. /\ k.task \in Tasks /\ task[k.task] = k.seen
        /\ k.seen.status \in {"claimed", "running"}
    BY <1>0, <1>1, <1>4 DEF CommitRecover, SnapshotOps, CallsChecked
  <2>2. s \in ALL_STATES /\ <<task[k.task].status, s>> \in TRANSITION_GRAPH
    BY <2>1 DEF StateAfterRecovery, TRANSITION_GRAPH, ALL_STATES
  <2>3. task' = [task EXCEPT ![k.task] = Moved(task[k.task], s)]
    BY <1>4 DEF CommitRecover
  <2> QED BY <2>1, <2>2, <2>3, LifecycleMove
<1>5. ASSUME NEW c \in Callers, CommitSubmit(c) PROVE Lifecycle!Next
  <2> DEFINE k == call[c]
  <2>1. k.task \in Tasks /\ task[k.task].status = "running"
    BY <1>0, <1>5, RequestTypes DEF CommitSubmit, TaskAsRead
  <2>2. <<task[k.task].status, "result_submitted">> \in TRANSITION_GRAPH
    BY <2>1 DEF TRANSITION_GRAPH
  <2>3. task' = [task EXCEPT ![k.task] = Moved(task[k.task], "result_submitted")]
    BY <1>5 DEF CommitSubmit
  <2> QED BY <2>1, <2>2, <2>3, LifecycleMove DEF ALL_STATES
<1>6. ASSUME NEW c \in Callers, CommitTransition(c) PROVE Lifecycle!Next
  <2> DEFINE k == call[c]
  <2>1. /\ k.task \in Tasks /\ k.target \in ALL_STATES /\ task[k.task] = k.seen
        /\ <<k.seen.status, k.target>> \in TRANSITION_GRAPH
    BY <1>0, <1>1, <1>6, RequestTypes DEF CommitTransition, SnapshotOps, CallsChecked
  <2>2. task' = [task EXCEPT ![k.task] = Moved(task[k.task], k.target)]
    BY <1>6 DEF CommitTransition
  <2> QED BY <2>1, <2>2, LifecycleMove
<1>7. ASSUME NEW c \in Callers,
             CommitHeartbeat(c) \/ CommitSetStatus(c) \/ CommitRegister(c) \/ Abandon(c)
      PROVE  FALSE
  BY <1>7 DEF CommitHeartbeat, CommitSetStatus, CommitRegister, Abandon
<1>8. ASSUME NEW a \in Assignments, StartAssignment(a) \/ LeaseLapses(a) PROVE FALSE
  BY <1>8 DEF StartAssignment, LeaseLapses
<1>9. CASE UNCHANGED vars
  BY <1>9 DEF vars
<1> QED BY <1>2, <1>3, <1>4, <1>5, <1>6, <1>7, <1>8, <1>9 DEF Next, CallStep, CommitPlain, Surroundings

(* The control plane implements the lifecycle: whatever calls interleave,  *)
(* a task only ever moves along the transition graph, one version a step.  *)
THEOREM ImplementsLifecycle == Spec => LifecycleSpec
<1>1. Init => Lifecycle!Init
  BY DEF Init, Lifecycle!Init
<1>2. IInv /\ [Next]_vars => [Lifecycle!Next]_task
  BY LifecycleStep
<1> QED BY <1>1, <1>2, Inductive, PTL DEF Spec, LifecycleSpec, Lifecycle!Spec
-----------------------------------------------------------------------------
LEMMA LiveLeaseStep ==
  IInv /\ [Next]_vars =>
    \A a \in Assignments : Active(a) /\ asg'[a].status = "timeout" => asg[a].lapsed
<1> SUFFICES ASSUME IInv, [Next]_vars, NEW a \in Assignments, Active(a),
                    asg'[a].status = "timeout"
             PROVE  asg[a].lapsed
  OBVIOUS
<1>0. TypeOK /\ asg[a] \in AssignmentRow /\ asg[a].status # "timeout"
  BY ActiveUsed, AssignmentTypes DEF IInv, Active, ACTIVE_ASSIGNMENT_STATUSES
<1>1. asg' # asg
  BY <1>0
<1>2. ASSUME NEW c \in Callers, BeginCall(c) PROVE FALSE
  BY <1>0, <1>1, <1>2, BeginSnapshot
<1>3. ASSUME NEW c \in Callers, CommitClaim(c) PROVE asg[a].lapsed
  BY <1>0, <1>3 DEF CommitClaim, LapsedOf
<1>4. ASSUME NEW c \in Callers, CommitRecover(c) PROVE asg[a].lapsed
  BY <1>0, <1>4, RequestTypes DEF CommitRecover, StillLapsed, TypeOK
<1>5. ASSUME NEW c \in Callers, CommitSubmit(c) PROVE FALSE
  BY <1>0, <1>5, RequestTypes DEF CommitSubmit, TypeOK, AssignmentRow
<1>6. ASSUME NEW c \in Callers, CommitHeartbeat(c) PROVE FALSE
  BY <1>0, <1>6, RequestTypes DEF CommitHeartbeat, TypeOK, AssignmentRow
<1>7. ASSUME NEW b \in Assignments, StartAssignment(b) \/ LeaseLapses(b) PROVE FALSE
  BY <1>0, <1>7 DEF StartAssignment, LeaseLapses, TypeOK, AssignmentRow
<1>8. ASSUME NEW c \in Callers,
             CommitTransition(c) \/ CommitSetStatus(c) \/ CommitRegister(c) \/ Abandon(c)
      PROVE  FALSE
  BY <1>1, <1>8 DEF CommitTransition, CommitSetStatus, CommitRegister, Abandon
<1>9. CASE UNCHANGED vars
  BY <1>1, <1>9 DEF vars
<1> QED BY <1>2, <1>3, <1>4, <1>5, <1>6, <1>7, <1>8, <1>9 DEF Next, CallStep, CommitPlain, Surroundings

(* No lease that still runs is ever timed out.                             *)
THEOREM LiveLeasesKept == Spec => LiveLeaseKept
BY Inductive, LiveLeaseStep, PTL DEF Spec, LiveLeaseKept

LEMMA ResultFencedStep ==
  IInv /\ [Next]_vars =>
    \A a \in Assignments :
      asg[a].status # "completed" /\ asg'[a].status = "completed" =>
        /\ HeldBy(asg[a].task) = {a}
        /\ task[asg[a].task].status = "running"
        /\ task'[asg[a].task].status = "result_submitted"
<1> SUFFICES ASSUME IInv, [Next]_vars, NEW a \in Assignments,
                    asg[a].status # "completed", asg'[a].status = "completed"
             PROVE  /\ HeldBy(asg[a].task) = {a}
                    /\ task[asg[a].task].status = "running"
                    /\ task'[asg[a].task].status = "result_submitted"
  OBVIOUS
<1>0. TypeOK /\ CallsChecked /\ OneActivePerTask
  BY DEF IInv
<1>1. asg' # asg
  BY <1>0
<1>2. ASSUME NEW c \in Callers, BeginCall(c) PROVE FALSE
  BY <1>0, <1>1, <1>2, BeginSnapshot
<1>3. ASSUME NEW c \in Callers, CommitClaim(c) PROVE FALSE
  <2>1. asg'[a] \in {asg[a], [asg[a] EXCEPT !.status = "timeout"]} \/ asg'[a].status = "assigned"
    BY <1>3 DEF CommitClaim
  <2>2. asg'[a] = [asg[a] EXCEPT !.status = "timeout"] => a \in LapsedOf(call[c].task)
    BY <1>3 DEF CommitClaim
  <2>3. a \in LapsedOf(call[c].task) => asg[a] \in AssignmentRow
    BY <1>0, ActiveUsed, AssignmentTypes DEF LapsedOf, HeldBy
  <2> QED BY <2>1, <2>2, <2>3 DEF AssignmentRow
<1>4. ASSUME NEW c \in Callers, CommitRecover(c) \/ CommitHeartbeat(c) PROVE FALSE
  <2>1. call[c].asg \in Assignments /\ asg[call[c].asg] \in AssignmentRow
    BY <1>0, <1>4, RequestTypes, ActiveUsed, AssignmentTypes
       DEF CommitRecover, StillLapsed, CommitHeartbeat
  <2> QED BY <1>0, <1>4, <2>1 DEF CommitRecover, CommitHeartbeat, TypeOK, AssignmentRow
<1>5. ASSUME NEW c \in Callers, CommitSubmit(c)
      PROVE  /\ HeldBy(asg[a].task) = {a}
             /\ task[asg[a].task].status = "running"
             /\ task'[asg[a].task].status = "result_submitted"
  <2> DEFINE k == call[c]
  <2>1. k.task \in Tasks /\ k.asg \in Assignments /\ asg[k.asg].task = k.task
    BY <1>0, <1>5, RequestTypes DEF CommitSubmit, CallsChecked
  <2>2. a = k.asg
    BY <1>0, <1>5 DEF CommitSubmit, TypeOK
  <2>3. HeldBy(asg[a].task) = {a}
    BY <1>0, <1>5, <2>2
       DEF CommitSubmit, StillLeased, HeldBy, OneActivePerTask, Active, ACTIVE_ASSIGNMENT_STATUSES
  <2>4. task[asg[a].task].status = "running"
    BY <1>5, <2>1, <2>2 DEF CommitSubmit, TaskAsRead
  <2>5. task'[asg[a].task].status = "result_submitted"
    BY <1>0, <1>5, <2>1, <2>2 DEF CommitSubmit, TypeOK, Moved
  <2> QED BY <2>3, <2>4, <2>5
<1>6. ASSUME NEW b \in Assignments, StartAssignment(b) \/ LeaseLapses(b) PROVE FALSE
  <2>1. asg[b] \in AssignmentRow
    BY <1>0, <1>6, AssignmentTypes
       DEF StartAssignment, LeaseLapses, ACTIVE_ASSIGNMENT_STATUSES
  <2> QED BY <1>0, <1>6, <2>1 DEF StartAssignment, LeaseLapses, TypeOK, AssignmentRow
<1>7. ASSUME NEW c \in Callers,
             CommitTransition(c) \/ CommitSetStatus(c) \/ CommitRegister(c) \/ Abandon(c)
      PROVE  FALSE
  BY <1>1, <1>7 DEF CommitTransition, CommitSetStatus, CommitRegister, Abandon
<1>8. CASE UNCHANGED vars
  BY <1>1, <1>8 DEF vars
<1> QED BY <1>2, <1>3, <1>4, <1>5, <1>6, <1>7, <1>8 DEF Next, CallStep, CommitPlain, Surroundings

(* A result is accepted only from the sole holder of a running task.       *)
THEOREM ResultsFenced == Spec => ResultFenced
BY Inductive, ResultFencedStep, PTL DEF Spec, ResultFenced
=============================================================================
