------------------------- MODULE HandoffFlow_proofs -------------------------
(***************************************************************************)
(* Proofs about HandoffFlow for every choice of its constants: the offers, *)
(* who takes over from whom, and that the promises of the control plane    *)
(* and of the reviews survive a change of hands.  An accept is no step of  *)
(* ControlPlane, so the invariant of ReviewFlow_proofs is kept here by an  *)
(* argument of its own for that one action.                                *)
(***************************************************************************)
EXTENDS HandoffFlow, ReviewFlow_proofs

HandoffRowsOK == handoff \in [Handoffs -> {NoHandoff} \cup HandoffRow]

(* Only assignments that were made are offered.                            *)
HandoffBound == \A h \in Handoffs :
  handoff[h] # NoHandoff => asg[handoff[h].asg] # Unused

(* What the checks of a handoff call establish and no other call undoes.   *)
HandoffCallsChecked == \A c \in Callers :
  LET k == call[c] IN
  /\ k.op = "request_handoff" => k.asg \in Assignments /\ asg[k.asg] # Unused
  /\ k.op = "accept" =>
       /\ k.handoff \in Handoffs /\ handoff[k.handoff] # NoHandoff
       /\ k.worker \in Workers
       /\ k.task = asg[handoff[k.handoff].asg].task
  /\ k.op = "cancel" => k.handoff \in Handoffs /\ handoff[k.handoff] # NoHandoff

(* The inductive invariant.                                                *)
HandoffInv ==
  /\ ReviewInv
  /\ HandoffRowsOK
  /\ HandoffBound
  /\ HandoffCallsChecked
  /\ OnePendingHandoff
  /\ HandedOverOnce

USE DEF Idle, Unused
-----------------------------------------------------------------------------
LEMMA HandoffInitInv == HandoffInit => HandoffInv
<1> SUFFICES ASSUME HandoffInit PROVE HandoffInv
  OBVIOUS
<1>1. ReviewInv
  BY ReviewInitInv DEF HandoffInit
<1>2. \A h \in Handoffs : handoff[h] = NoHandoff
  BY DEF HandoffInit
<1>3. HandoffRowsOK
  BY DEF HandoffInit, HandoffRowsOK
<1>4. HandoffCallsChecked
  BY DEF HandoffInit, ReviewInit, Init, HandoffCallsChecked
<1> QED BY <1>1, <1>2, <1>3, <1>4
        DEF HandoffInv, HandoffBound, OnePendingHandoff, HandedOverOnce, NoHandoff

(* What a row offers, once it is in use.                                   *)
LEMMA HandoffTypes ==
  ASSUME HandoffInv, NEW h \in Handoffs, handoff[h] # NoHandoff
  PROVE  /\ handoff[h] \in HandoffRow
         /\ handoff[h].asg \in Assignments
         /\ asg[handoff[h].asg] \in AssignmentRow
<1>1. handoff[h] \in HandoffRow
  BY DEF HandoffInv, HandoffRowsOK
<1>2. handoff[h].asg \in Assignments /\ asg[handoff[h].asg] # Unused
  BY <1>1 DEF HandoffInv, HandoffBound, HandoffRow
<1> QED BY <1>1, <1>2, PlainTyped DEF HandoffInv

(* The control plane does not see the calls of the handoff service.        *)
LEMMA HandoffQuiet ==
  ASSUME CallMap, NEW c \in Callers, HandoffStep(c)
  PROVE  PlainCall' = PlainCall /\ CallMap'
<1>1. ASSUME NEW r, Begin(c, r), r.op \in {"request_handoff", "accept", "cancel"}
      PROVE  PlainCall' = PlainCall /\ CallMap'
  <2>1. PlainRequest(r) = Idle
    BY <1>1 DEF PlainRequest, PlainOps
  <2>2. /\ PlainCall[c] = Idle /\ PlainCall' = [PlainCall EXCEPT ![c] = Idle]
        /\ CallMap'
    BY <1>1, <2>1, PlainBegin DEF CP!Begin, CP!Idle
  <2> QED BY <2>2 DEF PlainCall
<1>2. ASSUME Finish(c), call[c].op \in {"request_handoff", "accept", "cancel"}
      PROVE  PlainCall' = PlainCall /\ CallMap'
  <2>1. PlainCall[c] = Idle
    BY <1>2 DEF PlainCall, PlainRequest, PlainOps
  <2>2. PlainCall' = [PlainCall EXCEPT ![c] = Idle] /\ CallMap'
    BY <1>2, PlainFinish DEF CP!Finish, CP!Idle
  <2> QED BY <2>1, <2>2 DEF PlainCall
<1>3. CASE HandoffCall(c)
  BY <1>1, <1>3 DEF HandoffCall, BeginRequestHandoff, BeginAccept, BeginCancel
<1>4. CASE CommitRequestHandoff(c) \/ CommitAccept(c) \/ CommitCancel(c)
  BY <1>2, <1>4 DEF CommitRequestHandoff, CommitAccept, CommitCancel
<1> QED BY <1>3, <1>4 DEF HandoffStep

(* A connection keeps its call, loses it, or has a new one.                *)
LEMMA HandoffCallChange ==
  ASSUME CallMap, NEW c \in Callers, NEW d \in Callers, HandoffStep(d)
  PROVE  \/ call'[c] = call[c]
         \/ call'[c] = Idle
         \/ c = d /\ HandoffCall(c) /\ UNCHANGED <<task, asg, worker, reviewVars, handoff>>
<1>1. CASE HandoffCall(d)
  <2>1. \E r : Begin(d, r)
    BY <1>1 DEF HandoffCall, BeginRequestHandoff, BeginAccept, BeginCancel
  <2>2. UNCHANGED <<task, asg, worker, reviewVars, handoff>>
    BY <1>1 DEF HandoffCall, BeginRequestHandoff, BeginAccept, BeginCancel, Begin
  <2> QED BY <1>1, <2>1, <2>2, PlainBegin
<1>2. CASE CommitRequestHandoff(d) \/ CommitAccept(d) \/ CommitCancel(d)
  BY <1>2, PlainFinish DEF CommitRequestHandoff, CommitAccept, CommitCancel
<1> QED BY <1>1, <1>2 DEF HandoffStep

(* A call of the handoff service begins with what its checks found.        *)
LEMMA HandoffCallBegun ==
  ASSUME HandoffInv, NEW c \in Callers, HandoffCall(c)
  PROVE  /\ call'[c] \in HandoffRequests
         /\ call'[c].op \in {"request_handoff", "accept", "cancel"}
         /\ call'[c].op = "request_handoff" => asg[call'[c].asg] # Unused
         /\ call'[c].op \in {"accept", "cancel"} => handoff[call'[c].handoff] # NoHandoff
         /\ call'[c].op = "accept" =>
              call'[c].task = asg[handoff[call'[c].handoff].asg].task
<1> DEFINE k == call'[c]
<1>0. CallMap
  BY DEF HandoffInv, ReviewInv
<1>1. ASSUME NEW a \in Assignments, BeginRequestHandoff(c, a)
      PROVE  /\ k.op = "request_handoff" /\ k.asg = a /\ asg[a] # Unused
             /\ k \in HandoffRequests
  <2>1. k = [op |-> "request_handoff", asg |-> a]
    BY <1>0, <1>1, PlainBegin DEF BeginRequestHandoff
  <2> QED BY <1>1, <2>1 DEF BeginRequestHandoff, HandoffRequests
<1>2. ASSUME NEW h \in Handoffs, BeginCancel(c, h)
      PROVE  /\ k.op = "cancel" /\ k.handoff = h /\ handoff[h] # NoHandoff
             /\ k \in HandoffRequests
  <2>1. k = [op |-> "cancel", handoff |-> h]
    BY <1>0, <1>2, PlainBegin DEF BeginCancel
  <2> QED BY <1>2, <2>1 DEF BeginCancel, HandoffRequests, NoHandoff
<1>3. ASSUME NEW h \in Handoffs, NEW w \in Workers, BeginAccept(c, h, w)
      PROVE  /\ k.op = "accept" /\ k.handoff = h /\ handoff[h] # NoHandoff
             /\ k.task = asg[handoff[h].asg].task
             /\ k \in HandoffRequests
  <2> DEFINE t == asg[handoff[h].asg].task
  <2>1. k = [op |-> "accept", handoff |-> h, worker |-> w, task |-> t,
             seen |-> task[t]]
    BY <1>0, <1>3, PlainBegin DEF BeginAccept
  <2>2. handoff[h] # NoHandoff
    BY <1>3 DEF BeginAccept, NoHandoff
  <2>3. t \in Tasks /\ task[t] \in TaskRow
    BY <2>2, HandoffTypes, PlainTyped DEF HandoffInv, AssignmentRow
  <2> HIDE DEF t
  <2>4. k \in HandoffRequests
    BY <2>1, <2>3 DEF HandoffRequests
  <2> QED BY <2>1, <2>2, <2>4 DEF t
<1> QED BY <1>1, <1>2, <1>3 DEF HandoffCall
-----------------------------------------------------------------------------
(* What an accept does to the assignments and to the task: the offered one *)
(* is retired, a new one is running for the same task, and a task in       *)
(* rework runs again.                                                      *)
LEMMA AcceptEffect ==
  ASSUME HandoffInv, NEW c \in Callers, CommitAccept(c)
  PROVE  LET k == call[c]
             a == handoff[k.handoff].asg
         IN
         /\ k.handoff \in Handoffs /\ handoff[k.handoff].status = "pending"
         /\ k.task \in Tasks /\ k.worker \in Workers
         /\ a \in Assignments /\ asg[a] \in AssignmentRow /\ asg[a].task = k.task
         /\ asg[a].status \in ACTIVE_ASSIGNMENT_STATUSES \cup {"completed"}
         /\ asg'[a] = [asg[a] EXCEPT !.status = "cancelled"]
         /\ \E new \in Assignments \ {a} :
              /\ asg[new] = Unused
              /\ asg'[new] = [status |-> "running", task |-> k.task,
                              worker |-> k.worker, lapsed |-> FALSE]
              /\ \A b \in Assignments \ {a, new} : asg'[b] = asg[b]
         /\ \A t \in Tasks :
              \/ task'[t] = task[t]
              \/ /\ t = k.task /\ task[t].status = "rework"
                 /\ task'[t] = Moved(task[t], "running")
<1> DEFINE k == call[c]
           a == handoff[k.handoff].asg
<1>1. k.handoff \in Handoffs /\ handoff[k.handoff] # NoHandoff /\ k.worker \in Workers
      /\ k.task = asg[a].task
  BY DEF CommitAccept, HandoffInv, HandoffCallsChecked
<1>2. a \in Assignments /\ asg[a] \in AssignmentRow
  BY <1>1, HandoffTypes
<1>3. k.task \in Tasks
  BY <1>1, <1>2 DEF AssignmentRow
<1>4. /\ handoff[k.handoff].status = "pending"
      /\ asg[a].status \in ACTIVE_ASSIGNMENT_STATUSES \cup {"completed"}
  BY DEF CommitAccept, AcceptChecks, StillPending, Handoverable, Active
<1>5. PICK new \in Assignments :
        /\ asg[new] = Unused
        /\ asg' = [asg EXCEPT ![a] = TakenOver(@),
                              ![new] = [status |-> "running", task |-> k.task,
                                        worker |-> k.worker, lapsed |-> FALSE]]
  BY DEF CommitAccept
<1>6. new # a
  BY <1>2, <1>5 DEF AssignmentRow
<1>7. asg \in [Assignments -> {Unused} \cup AssignmentRow]
  BY PlainTyped DEF HandoffInv
<1>8. /\ asg'[a] = [asg[a] EXCEPT !.status = "cancelled"]
      /\ asg'[new] = [status |-> "running", task |-> k.task,
                      worker |-> k.worker, lapsed |-> FALSE]
      /\ \A b \in Assignments \ {a, new} : asg'[b] = asg[b]
  BY <1>2, <1>5, <1>6, <1>7 DEF TakenOver
<1>9. ASSUME NEW t \in Tasks
      PROVE  \/ task'[t] = task[t]
             \/ /\ t = k.task /\ task[t].status = "rework"
                /\ task'[t] = Moved(task[t], "running")
  <2>1. task \in [Tasks -> TaskRow]
    BY PlainTyped DEF HandoffInv
  <2> QED BY <1>3, <2>1 DEF CommitAccept
<1> QED BY <1>1, <1>2, <1>3, <1>4, <1>5, <1>6, <1>8, <1>9

(* An accept keeps what the control plane relies on: the version it checks *)
(* and the sole holder it retires leave no second holder and no orphan.    *)
LEMMA AcceptPlain ==
  ASSUME HandoffInv, NEW c \in Callers, CommitAccept(c)
  PROVE  /\ CP!IInv'
         /\ \A b \in Assignments :
              asg[b] # Unused => asg'[b] # Unused /\ asg'[b].task = asg[b].task
<1> DEFINE k == call[c]
           a == handoff[k.handoff].asg
<1>0. /\ CP!TypeOK /\ CP!CallsChecked /\ CP!SnapshotSound /\ CP!OneActivePerTask
      /\ CP!TaskHeld /\ CallMap
  BY DEF HandoffInv, ReviewInv, CP!IInv
<1>1. PICK new \in Assignments \ {a} :
        /\ asg[new] = Unused
        /\ asg'[new] = [status |-> "running", task |-> k.task,
                        worker |-> k.worker, lapsed |-> FALSE]
        /\ \A b \in Assignments \ {a, new} : asg'[b] = asg[b]
  BY AcceptEffect
<1>2. /\ k.task \in Tasks /\ k.worker \in Workers
      /\ a \in Assignments /\ asg[a] \in AssignmentRow /\ asg[a].task = k.task
      /\ asg'[a] = [asg[a] EXCEPT !.status = "cancelled"]
      /\ \A t \in Tasks : \/ task'[t] = task[t]
                          \/ /\ t = k.task /\ task[t].status = "rework"
                             /\ task'[t] = Moved(task[t], "running")
  BY AcceptEffect
<1>3. PlainCall' = PlainCall
  BY <1>0, HandoffQuiet DEF HandoffStep
<1>4. /\ asg'[a] \in AssignmentRow /\ asg'[a].status = "cancelled"
      /\ asg'[a].task = k.task
  BY <1>2 DEF AssignmentRow, CLOSED_ASSIGNMENT_STATUSES
<1>5. asg'[new] \in AssignmentRow
  BY <1>1, <1>2 DEF AssignmentRow, ACTIVE_ASSIGNMENT_STATUSES
<1>6. ASSUME NEW b \in Assignments, asg[b] # Unused
      PROVE  asg'[b] # Unused /\ asg'[b].task = asg[b].task
  <2>1. CASE b = a
    BY <1>2, <1>4, <2>1 DEF AssignmentRow
  <2>2. CASE b # a
    BY <1>1, <1>6, <2>2
  <2> QED BY <2>1, <2>2
<1>7. CP!TypeOK'
  <2>1. asg' \in [Assignments -> {Unused} \cup AssignmentRow]
    <3>1. DOMAIN asg' = Assignments /\ asg' = [b \in Assignments |-> asg'[b]]
      BY <1>0 DEF CommitAccept, CP!TypeOK
    <3>2. asg \in [Assignments -> {Unused} \cup AssignmentRow]
      BY PlainTyped DEF HandoffInv
    <3>3. \A b \in Assignments : asg'[b] \in {Unused} \cup AssignmentRow
      BY <1>1, <1>4, <1>5, <3>2
    <3> QED BY <3>1, <3>3
  <2>2. task' \in [Tasks -> TaskRow]
    <3>1. task \in [Tasks -> TaskRow]
      BY PlainTyped DEF HandoffInv
    <3>2. Moved(task[k.task], "running") \in TaskRow
      BY <1>2, <3>1 DEF Moved, TaskRow, ALL_STATES
    <3> QED BY <3>1, <3>2 DEF CommitAccept
  <2>3. worker' \in [Workers -> WORKER_STATUSES \cup {"absent"}]
    BY PlainTyped DEF HandoffInv, CommitAccept, WORKER_STATUSES
  <2> QED BY <1>0, <1>3, <2>1, <2>2, <2>3
          DEF CP!TypeOK, CP!TaskRow, TaskRow, CP!ALL_STATES, ALL_STATES, CP!Unused,
              CP!AssignmentRow, AssignmentRow, CP!ACTIVE_ASSIGNMENT_STATUSES,
              ACTIVE_ASSIGNMENT_STATUSES, CP!CLOSED_ASSIGNMENT_STATUSES,
              CLOSED_ASSIGNMENT_STATUSES, CP!WORKER_STATUSES, WORKER_STATUSES
<1>8. CP!CallsChecked'
  <2>1. ASSUME NEW d \in Callers, PlainCall[d].op \in {"recover", "submit"}
        PROVE  PlainCall[d].asg \in Assignments
    BY <1>0, <2>1, PlainAssumptions, CP!RequestTypes DEF CP!RequestTypes
  <2> QED BY <1>0, <1>3, <1>6, <2>1
          DEF CP!CallsChecked, CP!Unused, CP!TRANSITION_GRAPH
<1>9. CP!SnapshotSound'
  <2> SUFFICES ASSUME NEW d \in Callers, PlainCall[d].op \in CP!SnapshotOps
               PROVE  LET row == task'[PlainCall[d].task]
                          seen == PlainCall[d].seen
                      IN /\ seen.version <= row.version
                         /\ seen.version = row.version => seen = row
    BY <1>3 DEF CP!SnapshotSound, CP!SnapshotOps
  <2> DEFINE t == PlainCall[d].task
             seen == PlainCall[d].seen
  <2>1. t \in Tasks /\ seen \in CP!TaskRow
    BY <1>0, PlainAssumptions, CP!RequestTypes DEF CP!RequestTypes, CP!SnapshotOps
  <2>2. /\ seen.version <= task[t].version
        /\ seen.version = task[t].version => seen = task[t]
    BY <1>0 DEF CP!SnapshotSound
  <2>3. task[t].version \in Nat /\ seen.version \in Nat
    BY <1>0, <2>1 DEF CP!TypeOK, CP!TaskRow
  <2>4. \A u \in Tasks :
          task'[u] = task[u] \/ task'[u].version = task[u].version + 1
    <3>1. ASSUME NEW u \in Tasks, task'[u] # task[u]
          PROVE  task'[u].version = task[u].version + 1
      <4>1. task'[u] = Moved(task[u], "running")
        BY <1>2, <3>1
      <4> QED BY <4>1 DEF Moved
    <3> QED BY <3>1
  <2>5. task'[t] = task[t] \/ task'[t].version = task[t].version + 1
    BY <2>1, <2>4
  <2> QED BY <2>2, <2>3, <2>5
<1>10. ASSUME NEW b \in Assignments, asg'[b].status \in ACTIVE_ASSIGNMENT_STATUSES
       PROVE  /\ b # a
              /\ b # new => Active(b) /\ asg'[b] = asg[b] /\ asg[b].task # k.task
  <2>1. b # a
    BY <1>4, <1>10 DEF ACTIVE_ASSIGNMENT_STATUSES
  <2>2. HeldBy(k.task) \subseteq {a}
    BY DEF CommitAccept
  <2> QED BY <1>1, <1>10, <2>1, <2>2 DEF Active, HeldBy
<1>11. CP!OneActivePerTask'
  <2> SUFFICES ASSUME NEW x \in Assignments, NEW y \in Assignments,
                      asg'[x].status \in ACTIVE_ASSIGNMENT_STATUSES,
                      asg'[y].status \in ACTIVE_ASSIGNMENT_STATUSES,
                      asg'[x].task = asg'[y].task
               PROVE  x = y
    BY DEF CP!OneActivePerTask, CP!Active, CP!ACTIVE_ASSIGNMENT_STATUSES,
           ACTIVE_ASSIGNMENT_STATUSES
  <2>1. CASE x # new /\ y # new
    BY <1>0, <1>10, <2>1
       DEF CP!OneActivePerTask, CP!Active, Active, CP!ACTIVE_ASSIGNMENT_STATUSES,
           ACTIVE_ASSIGNMENT_STATUSES
  <2>2. asg'[new].task = k.task
    BY <1>1
  <2> QED BY <1>10, <2>1, <2>2
<1>12. CP!TaskHeld'
  <2> SUFFICES ASSUME NEW t \in Tasks, task'[t].status \in {"claimed", "running"}
               PROVE  \E b \in Assignments :
                        /\ asg'[b].status \in ACTIVE_ASSIGNMENT_STATUSES
                        /\ asg'[b].task = t
    BY DEF CP!TaskHeld, CP!HeldBy, CP!Active, CP!ACTIVE_ASSIGNMENT_STATUSES,
           ACTIVE_ASSIGNMENT_STATUSES
  <2>1. CASE t = k.task
    BY <1>1, <2>1 DEF ACTIVE_ASSIGNMENT_STATUSES
  <2>2. CASE t # k.task
    <3>1. task[t].status \in {"claimed", "running"}
      BY <1>2, <2>2
    <3>2. PICK b \in Assignments : Active(b) /\ asg[b].task = t
      BY <1>0, <3>1
         DEF CP!TaskHeld, CP!HeldBy, CP!Active, Active, CP!ACTIVE_ASSIGNMENT_STATUSES,
             ACTIVE_ASSIGNMENT_STATUSES
    <3>3. b # a /\ b # new
      BY <1>1, <1>2, <2>2, <3>2 DEF Active, ACTIVE_ASSIGNMENT_STATUSES
    <3> QED BY <1>1, <3>2, <3>3 DEF Active
  <2> QED BY <2>1, <2>2
<1> QED BY <1>6, <1>7, <1>8, <1>9, <1>11, <1>12 DEF CP!IInv
-----------------------------------------------------------------------------
(* What reviews rely on survives an accept: a task it sends back to work   *)
(* was in rework, with the verdict on its latest result given.             *)
LEMMA AcceptReview ==
  ASSUME HandoffInv, NEW c \in Callers, CommitAccept(c)
  PROVE  ReviewRowsOK' /\ ResultsBound' /\ OlderDecided' /\ LatestFollowed'
<1>0. /\ ReviewRowsOK /\ ResultsBound /\ OlderDecided /\ LatestFollowed
  BY DEF HandoffInv, ReviewInv
<1>1. /\ result' = result /\ review' = review /\ latest' = latest
      /\ \A b \in Assignments :
           asg[b] # Unused => asg'[b] # Unused /\ asg'[b].task = asg[b].task
  BY AcceptPlain DEF CommitAccept, reviewVars
<1>2. ReviewRowsOK' /\ ResultsBound' /\ OlderDecided'
  BY <1>0, <1>1 DEF ReviewRowsOK, ResultsBound, OlderDecided
<1>3. ASSUME NEW t \in Tasks
      PROVE  /\ task'[t].status \in {"result_submitted", "reviewing", "verified"} =>
                  latest'[t] # Nobody
             /\ latest'[t] # Nobody => Followed(task[t].status, t)'
  <2>1. CASE task'[t] = task[t]
    BY <1>0, <1>1, <2>1 DEF LatestFollowed, Followed
  <2>2. CASE task'[t] # task[t]
    <3>1. task[t].status = "rework" /\ task'[t] = Moved(task[t], "running")
      BY <2>2, AcceptEffect
    <3>2. task'[t].status = "running"
      BY <3>1 DEF Moved
    <3> QED BY <1>0, <1>1, <3>1, <3>2 DEF LatestFollowed, Followed
  <2> QED BY <2>1, <2>2
<1> QED BY <1>2, <1>3 DEF LatestFollowed

(* A step of the handoffs leaves what the reviews check of their calls.    *)
LEMMA HandoffReviewCalls ==
  ASSUME HandoffInv, NEW d \in Callers, HandoffStep(d), UNCHANGED reviewVars,
         \A b \in Assignments :
           asg[b] # Unused => asg'[b] # Unused /\ asg'[b].task = asg[b].task
  PROVE  ReviewCallsChecked'
<1>0. CallMap /\ ReviewInv /\ ReviewCallsChecked
  BY DEF HandoffInv, ReviewInv
<1>1. result' = result
  BY DEF reviewVars
<1> SUFFICES ASSUME NEW c \in Callers
             PROVE  LET k == call'[c] IN
                    /\ k.op \in {"begin_review", "decide"} =>
                         /\ k.asg \in Assignments
                         /\ result'[k.asg] # NoResult
                         /\ asg'[k.asg].task = k.task
                    /\ k.op \in {"begin_review", "decide"} => k.reviewer \in Reviewers
                    /\ k.op = "decide" =>
                         /\ k.decision \in FINAL_DECISIONS
                         /\ k.decision = "VERIFIED" => result'[k.asg].tests = "passed"
                    /\ k.op = "transition" => k.target \notin ReviewWrites
  BY DEF ReviewCallsChecked
<1>2. CASE call'[c] = call[c]
  <2>1. call[c].op \in {"begin_review", "decide"} =>
          /\ call[c].asg \in Assignments /\ asg[call[c].asg] # Unused
    BY <1>0, ReviewTask
  <2> QED BY <1>0, <1>1, <1>2, <2>1 DEF ReviewCallsChecked
<1>3. CASE call'[c] = Idle
  BY <1>3
<1>4. CASE HandoffCall(c)
  BY <1>4, HandoffCallBegun
<1> QED BY <1>0, <1>2, <1>3, <1>4, HandoffCallChange

(* The invariant of the reviews is kept by every step, and assignments     *)
(* stay with their task.                                                   *)
LEMMA HandoffReviewStep ==
  ASSUME HandoffInv, [HandoffNext]_hvars
  PROVE  /\ ReviewInv'
         /\ \A b \in Assignments :
              asg[b] # Unused => asg'[b] # Unused /\ asg'[b].task = asg[b].task
<1> DEFINE Frame == \A b \in Assignments :
              asg[b] # Unused => asg'[b] # Unused /\ asg'[b].task = asg[b].task
<1>0. ReviewInv /\ CallMap
  BY DEF HandoffInv, ReviewInv
<1>1. ASSUME [ReviewNext]_rvars PROVE ReviewInv' /\ Frame
  BY <1>0, <1>1, ReviewInvStep, PlainInvStep
<1>2. ASSUME NEW c \in Callers, CommitAccept(c) PROVE ReviewInv' /\ Frame
  <2>1. HandoffStep(c) /\ UNCHANGED reviewVars
    BY <1>2 DEF HandoffStep, CommitAccept
  <2>2. CallMap' /\ CP!IInv' /\ Frame
    BY <1>0, <1>2, <2>1, HandoffQuiet, AcceptPlain
  <2>3. ReviewCallsChecked'
    BY <2>1, <2>2, HandoffReviewCalls
  <2> QED BY <1>2, <2>2, <2>3, AcceptReview DEF ReviewInv
<1>3. ASSUME NEW c \in Callers,
             HandoffCall(c) \/ CommitRequestHandoff(c) \/ CommitCancel(c)
      PROVE  ReviewInv' /\ Frame
  <2>1. HandoffStep(c) /\ UNCHANGED <<task, asg, worker, reviewVars>>
    BY <1>3 DEF HandoffStep, HandoffCall, BeginRequestHandoff, BeginAccept,
                BeginCancel, Begin, CommitRequestHandoff, CommitCancel
  <2>2. CallMap' /\ UNCHANGED CP!vars
    BY <1>0, <2>1, HandoffQuiet DEF CP!vars
  <2>3. CP!IInv' /\ Frame
    <3>1. CP!IInv /\ [CP!Next]_(CP!vars)
      BY <1>0, <2>2 DEF ReviewInv
    <3> QED BY <3>1, PlainInductive
  <2>4. ReviewCallsChecked'
    BY <2>1, <2>3, HandoffReviewCalls
  <2>5. /\ task' = task /\ asg' = asg /\ result' = result /\ review' = review
        /\ latest' = latest
    BY <2>1 DEF reviewVars
  <2>6. ReviewRowsOK' /\ ResultsBound' /\ OlderDecided' /\ LatestFollowed'
    BY <1>0, <2>5 DEF ReviewInv, ReviewRowsOK, ResultsBound, OlderDecided,
                      LatestFollowed, Followed
  <2> QED BY <2>2, <2>3, <2>4, <2>6 DEF ReviewInv
<1>4. ASSUME ExpireHandoffs \/ \E h \in Handoffs : HandoffLapses(h)
      PROVE  UNCHANGED rvars
  BY <1>4 DEF ExpireHandoffs, HandoffLapses
<1> QED BY <1>1, <1>2, <1>3, <1>4 DEF HandoffNext, HandoffStep, hvars
-----------------------------------------------------------------------------
(* An assignment that was taken over from never changes again.             *)
LEMMA CancelledStays ==
  ASSUME HandoffInv, [HandoffNext]_hvars, NEW a \in Assignments,
         asg[a].status = "cancelled"
  PROVE  asg'[a] = asg[a]
<1>0. asg \in [Assignments -> {Unused} \cup AssignmentRow] /\ ~ Active(a) /\ asg[a] # Unused
  BY PlainTyped DEF HandoffInv, Active, ACTIVE_ASSIGNMENT_STATUSES
<1>1. ASSUME NEW c \in Callers, CommitClaim(c) PROVE asg'[a] = asg[a]
  BY <1>0, <1>1 DEF CommitClaim, LapsedOf, HeldBy
<1>2. ASSUME NEW c \in Callers, CommitHeartbeat(c) \/ CommitRecover(c)
      PROVE  asg'[a] = asg[a]
  BY <1>0, <1>2 DEF CommitHeartbeat, CommitRecover, StillLapsed
<1>3. ASSUME NEW c \in Callers, SubmitResult(c) PROVE asg'[a] = asg[a]
  BY <1>0, <1>3 DEF SubmitResult, CommitSubmit, StillLeased
<1>4. ASSUME NEW b \in Assignments, StartAssignment(b) \/ LeaseLapses(b)
      PROVE  asg'[a] = asg[a]
  BY <1>0, <1>4 DEF StartAssignment, LeaseLapses, ACTIVE_ASSIGNMENT_STATUSES
<1>5. ASSUME NEW c \in Callers, CommitAccept(c) PROVE asg'[a] = asg[a]
  <2> DEFINE o == handoff[call[c].handoff].asg
  <2>1. /\ asg[o].status \in ACTIVE_ASSIGNMENT_STATUSES \cup {"completed"}
        /\ \E new \in Assignments \ {o} :
             /\ asg[new] = Unused
             /\ \A b \in Assignments \ {o, new} : asg'[b] = asg[b]
    BY <1>5, AcceptEffect
  <2> QED BY <1>0, <2>1 DEF ACTIVE_ASSIGNMENT_STATUSES
<1>6. ASSUME NEW c \in Callers,
             \/ CommitTransition(c) \/ CommitSetStatus(c) \/ CommitRegister(c)
             \/ Abandon(c) \/ CommitBeginReview(c) \/ CommitDecide(c)
             \/ CommitRequestHandoff(c) \/ CommitCancel(c)
      PROVE  asg' = asg
  BY <1>6 DEF CommitTransition, CommitSetStatus, CommitRegister, Abandon,
              CommitBeginReview, CommitDecide, CommitRequestHandoff, CommitCancel
<1>7. ASSUME NEW c \in Callers, BeginCall(c) \/ ReviewCall(c) \/ HandoffCall(c)
      PROVE  asg' = asg
  <2>1. CASE BeginCall(c)
    BY <2>1, PlainBeginCall, PlainBegin DEF HandoffInv, ReviewInv
  <2>2. CASE ReviewCall(c) \/ HandoffCall(c)
    BY <2>2 DEF ReviewCall, BeginBeginReview, BeginDecide, HandoffCall,
                BeginRequestHandoff, BeginAccept, BeginCancel, Begin
  <2> QED BY <1>7, <2>1, <2>2
<1>8. ASSUME \/ ExpireHandoffs \/ UNCHANGED hvars
             \/ \E h \in Handoffs : HandoffLapses(h)
      PROVE  asg' = asg
  BY <1>8 DEF ExpireHandoffs, HandoffLapses, hvars, rvars, vars
<1> QED BY <1>1, <1>2, <1>3, <1>4, <1>5, <1>6, <1>7, <1>8
        DEF HandoffNext, HandoffStep, ReviewNext, ReviewStep, CallStep, CommitPlain,
            Surroundings
-----------------------------------------------------------------------------
(* Every change of a handoff row makes an offer of an assignment that is   *)
(* not on offer, or ends or ages a pending one, and an accepting step      *)
(* retires the assignment on offer.                                        *)
RowStep(h) ==
  \/ handoff'[h] = handoff[h]
  \/ /\ handoff[h] = NoHandoff
     /\ handoff'[h] \in HandoffRow
     /\ handoff'[h].status = "pending"
     /\ PendingFor(handoff'[h].asg) = {}
     /\ asg[handoff'[h].asg] # Unused
     /\ \A g \in Handoffs \ {h} : handoff'[g] = handoff[g]
  \/ /\ handoff[h].status = "pending"
     /\ handoff'[h] \in HandoffRow
     /\ handoff'[h].asg = handoff[h].asg
     /\ handoff'[h].status = "accepted" =>
          /\ asg[handoff[h].asg].status # "cancelled"
          /\ asg'[handoff[h].asg].status = "cancelled"
          /\ \A g \in Handoffs \ {h} : handoff'[g] = handoff[g]

LEMMA RowSteps ==
  ASSUME HandoffInv, [HandoffNext]_hvars, NEW h \in Handoffs
  PROVE  RowStep(h)
<1>0. HandoffRowsOK /\ handoff \in [Handoffs -> {NoHandoff} \cup HandoffRow]
  BY DEF HandoffInv, HandoffRowsOK
<1>1. ASSUME handoff' = handoff PROVE RowStep(h)
  BY <1>1 DEF RowStep
<1>2. ASSUME NEW g \in Handoffs, NEW row, handoff[g].status = "pending",
             handoff' = [handoff EXCEPT ![g] = row], row \in HandoffRow,
             row.asg = handoff[g].asg, row.status # "accepted"
      PROVE  RowStep(h)
  BY <1>0, <1>2 DEF RowStep
<1>3. ASSUME NEW c \in Callers, CommitRequestHandoff(c) PROVE RowStep(h)
  <2> DEFINE a == call[c].asg
  <2>1. a \in Assignments /\ asg[a] # Unused /\ PendingFor(a) = {}
    BY <1>3 DEF CommitRequestHandoff, HandoffInv, HandoffCallsChecked, RequestAdmitted
  <2>2. PICK g \in Handoffs : /\ handoff[g] = NoHandoff
                              /\ handoff' = [handoff EXCEPT ![g] = Offer(a)]
    BY <1>3 DEF CommitRequestHandoff
  <2>3. Offer(a) \in HandoffRow /\ Offer(a).status = "pending" /\ Offer(a).asg = a
    BY <2>1 DEF Offer, HandoffRow
  <2>4. CASE g = h
    <3>1. handoff'[h] = Offer(a) /\ \A i \in Handoffs \ {h} : handoff'[i] = handoff[i]
      BY <1>0, <2>2, <2>4
    <3> QED BY <2>1, <2>2, <2>3, <2>4, <3>1 DEF RowStep
  <2>5. CASE g # h
    BY <1>0, <2>2, <2>5 DEF RowStep
  <2> QED BY <2>4, <2>5
<1>4. ASSUME NEW c \in Callers, CommitAccept(c) PROVE RowStep(h)
  <2> DEFINE g == call[c].handoff
             row == [handoff[g] EXCEPT !.status = "accepted"]
  <2>1. /\ g \in Handoffs /\ handoff[g].status = "pending"
        /\ asg[handoff[g].asg] \in AssignmentRow
        /\ asg[handoff[g].asg].status \in ACTIVE_ASSIGNMENT_STATUSES \cup {"completed"}
        /\ asg'[handoff[g].asg] = [asg[handoff[g].asg] EXCEPT !.status = "cancelled"]
    BY <1>4, AcceptEffect
  <2>2. handoff[g] \in HandoffRow
    BY <1>0, <2>1 DEF NoHandoff
  <2>3. row \in HandoffRow /\ row.asg = handoff[g].asg
    BY <2>2 DEF HandoffRow
  <2>4. handoff' = [handoff EXCEPT ![g] = row]
    BY <1>4 DEF CommitAccept
  <2>5. /\ asg[handoff[g].asg].status # "cancelled"
        /\ asg'[handoff[g].asg].status = "cancelled"
    BY <2>1 DEF ACTIVE_ASSIGNMENT_STATUSES, AssignmentRow
  <2> HIDE DEF row
  <2>6. CASE g = h
    BY <1>0, <2>1, <2>3, <2>4, <2>5, <2>6 DEF RowStep
  <2>7. CASE g # h
    BY <1>0, <2>4, <2>7 DEF RowStep
  <2> QED BY <2>6, <2>7
<1>5. ASSUME NEW c \in Callers, CommitCancel(c) PROVE RowStep(h)
  <2> DEFINE g == call[c].handoff
  <2>1. g \in Handoffs /\ handoff[g] \in HandoffRow
    BY <1>5, HandoffTypes DEF CommitCancel, HandoffInv, HandoffCallsChecked
  <2>2. CASE handoff[g].status = "pending"
    <3> DEFINE row == [handoff[g] EXCEPT !.status = "cancelled"]
    <3>1. row \in HandoffRow /\ row.asg = handoff[g].asg /\ row.status # "accepted"
      BY <2>1 DEF HandoffRow
    <3>2. handoff' = [handoff EXCEPT ![g] = row]
      BY <1>5, <2>2 DEF CommitCancel, StillPending
    <3> HIDE DEF row
    <3> QED BY <1>2, <2>1, <2>2, <3>1, <3>2
  <2>3. CASE handoff[g].status # "pending"
    <3>1. handoff' = [handoff EXCEPT ![g].status = handoff[g].status]
      BY <1>5, <2>3 DEF CommitCancel, StillPending
    <3>2. [handoff[g] EXCEPT !.status = handoff[g].status] = handoff[g]
      BY <2>1 DEF HandoffRow
    <3> QED BY <1>0, <1>1, <2>1, <3>1, <3>2
  <2> QED BY <2>2, <2>3
<1>6. ASSUME NEW g \in Handoffs, HandoffLapses(g) PROVE RowStep(h)
  <2> DEFINE row == [handoff[g] EXCEPT !.lapsed = TRUE]
  <2>1. handoff[g] \in HandoffRow /\ handoff[g].status = "pending"
    BY <1>0, <1>6 DEF HandoffLapses, NoHandoff
  <2>2. row \in HandoffRow /\ row.asg = handoff[g].asg /\ row.status # "accepted"
    BY <2>1 DEF HandoffRow
  <2>3. handoff' = [handoff EXCEPT ![g] = row]
    BY <1>6 DEF HandoffLapses
  <2> HIDE DEF row
  <2> QED BY <1>2, <2>1, <2>2, <2>3
<1>7. ASSUME ExpireHandoffs PROVE RowStep(h)
  <2> DEFINE Overdue == {g \in Handoffs : handoff[g].status = "pending" /\ handoff[g].lapsed}
             row == [handoff[h] EXCEPT !.status = "expired"]
  <2>1. handoff'[h] = IF h \in Overdue THEN row ELSE handoff[h]
    BY <1>7 DEF ExpireHandoffs
  <2>2. CASE h \in Overdue
    <3>1. handoff[h] \in HandoffRow /\ handoff[h].status = "pending"
      BY <1>0, <2>2 DEF NoHandoff
    <3>2. row \in HandoffRow /\ row.asg = handoff[h].asg /\ row.status # "accepted"
      BY <3>1 DEF HandoffRow
    <3> HIDE DEF row
    <3> QED BY <2>1, <2>2, <3>1, <3>2 DEF RowStep
  <2>3. CASE h \notin Overdue
    BY <2>1, <2>3 DEF RowStep
  <2> QED BY <2>2, <2>3
<1>8. ASSUME NEW c \in Callers, HandoffCall(c) PROVE handoff' = handoff
  BY <1>8 DEF HandoffCall, BeginRequestHandoff, BeginAccept, BeginCancel
<1> QED BY <1>1, <1>3, <1>4, <1>5, <1>6, <1>7, <1>8 DEF HandoffNext, HandoffStep, hvars

LEMMA HandoffRowsStep ==
  ASSUME HandoffInv, [HandoffNext]_hvars
  PROVE  HandoffRowsOK' /\ HandoffBound'
<1>0. handoff \in [Handoffs -> {NoHandoff} \cup HandoffRow] /\ HandoffBound
  BY DEF HandoffInv, HandoffRowsOK
<1>1. handoff' = [h \in Handoffs |-> handoff'[h]]
  BY <1>0 DEF HandoffNext, HandoffStep, HandoffCall, BeginRequestHandoff, BeginAccept,
              BeginCancel, CommitRequestHandoff, CommitAccept, CommitCancel,
              HandoffLapses, ExpireHandoffs, hvars
<1>2. ASSUME NEW h \in Handoffs
      PROVE  /\ handoff'[h] \in {NoHandoff} \cup HandoffRow
             /\ handoff'[h] # NoHandoff => asg'[handoff'[h].asg] # Unused
  <2>1. /\ handoff'[h] \in {NoHandoff} \cup HandoffRow
        /\ handoff'[h] # NoHandoff => asg[handoff'[h].asg] # Unused
    BY <1>0, RowSteps DEF RowStep, HandoffBound, NoHandoff
  <2>2. handoff'[h] # NoHandoff => handoff'[h].asg \in Assignments
    BY <2>1 DEF HandoffRow
  <2> QED BY <2>1, <2>2, HandoffReviewStep
<1> QED BY <1>1, <1>2 DEF HandoffRowsOK, HandoffBound

LEMMA OnePendingStep ==
  ASSUME HandoffInv, [HandoffNext]_hvars
  PROVE  OnePendingHandoff'
<1> SUFFICES ASSUME NEW h \in Handoffs, NEW g \in Handoffs,
                    handoff'[h].status = "pending", handoff'[g].status = "pending",
                    handoff'[h].asg = handoff'[g].asg
             PROVE  h = g
  BY DEF OnePendingHandoff
<1>0. OnePendingHandoff /\ RowStep(h) /\ RowStep(g)
  BY RowSteps DEF HandoffInv
<1>1. CASE handoff[h].status = "pending" /\ handoff[g].status = "pending"
  <2>1. handoff[h].asg = handoff[g].asg
    BY <1>0, <1>1 DEF RowStep, NoHandoff
  <2> QED BY <1>0, <1>1, <2>1 DEF OnePendingHandoff
<1>2. CASE handoff[h].status # "pending"
  BY <1>0, <1>2 DEF RowStep, PendingFor
<1>3. CASE handoff[g].status # "pending"
  BY <1>0, <1>3 DEF RowStep, PendingFor
<1> QED BY <1>1, <1>2, <1>3

LEMMA HandedOverStep ==
  ASSUME HandoffInv, [HandoffNext]_hvars
  PROVE  HandedOverOnce'
<1>0. HandedOverOnce /\ HandoffRowsOK
  BY DEF HandoffInv
<1>1. ASSUME NEW h \in Handoffs, handoff'[h].status = "accepted"
      PROVE  asg'[handoff'[h].asg].status = "cancelled"
  <2>1. RowStep(h)
    BY RowSteps
  <2>2. CASE handoff'[h] = handoff[h]
    <3>1. handoff[h].asg \in Assignments
      BY <1>1, <2>2, HandoffTypes DEF NoHandoff
    <3> QED BY <1>0, <1>1, <2>2, <3>1, CancelledStays DEF HandedOverOnce
  <2>3. CASE handoff'[h] # handoff[h]
    BY <1>1, <2>1, <2>3 DEF RowStep
  <2> QED BY <2>2, <2>3
<1>2. ASSUME NEW h \in Handoffs, NEW g \in Handoffs,
             handoff'[h].status = "accepted", handoff'[g].status = "accepted",
             handoff'[h].asg = handoff'[g].asg
      PROVE  h = g
  <2>1. RowStep(h) /\ RowStep(g)
    BY RowSteps
  <2>2. CASE handoff'[h] = handoff[h] /\ handoff'[g] = handoff[g]
    BY <1>0, <1>2, <2>2 DEF HandedOverOnce
  <2>3. CASE handoff'[h] # handoff[h]
    BY <1>0, <1>2, <2>1, <2>3 DEF RowStep, HandedOverOnce
  <2>4. CASE handoff'[g] # handoff[g]
    BY <1>0, <1>2, <2>1, <2>4 DEF RowStep, HandedOverOnce
  <2> QED BY <2>2, <2>3, <2>4
<1> QED BY <1>1, <1>2 DEF HandedOverOnce
-----------------------------------------------------------------------------
LEMMA HandoffNewCalls ==
  ASSUME HandoffInv, [HandoffNext]_hvars, NEW c \in Callers
  PROVE  \/ call'[c] = call[c] \/ call'[c] = Idle
         \/ call'[c].op \in PlainOps
         \/ call'[c] \in ReviewRequests
         \/ HandoffCall(c) /\ UNCHANGED <<task, asg, worker, reviewVars, handoff>>
<1>0. ReviewInv /\ CallMap
  BY DEF HandoffInv, ReviewInv
<1>1. CASE [ReviewNext]_rvars
  BY <1>0, <1>1, NewCalls
<1>2. ASSUME NEW d \in Callers, HandoffStep(d)
      PROVE  \/ call'[c] = call[c] \/ call'[c] = Idle
             \/ HandoffCall(c) /\ UNCHANGED <<task, asg, worker, reviewVars, handoff>>
  BY <1>0, <1>2, HandoffCallChange
<1>3. ASSUME ExpireHandoffs \/ \E h \in Handoffs : HandoffLapses(h)
      PROVE  call' = call
  BY <1>3 DEF ExpireHandoffs, HandoffLapses, rvars, vars
<1> QED BY <1>1, <1>2, <1>3 DEF HandoffNext, hvars

LEMMA HandoffCallsStep ==
  ASSUME HandoffInv, [HandoffNext]_hvars
  PROVE  HandoffCallsChecked'
<1> SUFFICES ASSUME NEW c \in Callers
             PROVE  LET k == call'[c] IN
                    /\ k.op = "request_handoff" =>
                         k.asg \in Assignments /\ asg'[k.asg] # Unused
                    /\ k.op = "accept" =>
                         /\ k.handoff \in Handoffs /\ handoff'[k.handoff] # NoHandoff
                         /\ k.worker \in Workers
                         /\ k.task = asg'[handoff'[k.handoff].asg].task
                    /\ k.op = "cancel" =>
                         k.handoff \in Handoffs /\ handoff'[k.handoff] # NoHandoff
  BY DEF HandoffCallsChecked
<1>0. HandoffCallsChecked /\ HandoffBound
  BY DEF HandoffInv
<1>1. ASSUME NEW h \in Handoffs, handoff[h] # NoHandoff
      PROVE  /\ handoff'[h] # NoHandoff
             /\ handoff'[h].asg = handoff[h].asg
             /\ asg'[handoff'[h].asg].task = asg[handoff[h].asg].task
  <2>1. handoff'[h] # NoHandoff /\ handoff'[h].asg = handoff[h].asg
    BY <1>1, RowSteps DEF RowStep, NoHandoff, HandoffRow
  <2>2. handoff[h].asg \in Assignments /\ asg[handoff[h].asg] # Unused
    BY <1>0, <1>1, HandoffTypes DEF HandoffBound
  <2> QED BY <2>1, <2>2, HandoffReviewStep
<1>2. CASE call'[c] = call[c]
  BY <1>0, <1>1, <1>2, HandoffReviewStep DEF HandoffCallsChecked
<1>3. CASE call'[c] = Idle \/ call'[c].op \in PlainOps
  BY <1>3 DEF PlainOps
<1>4. CASE call'[c] \in ReviewRequests
  BY <1>4 DEF ReviewRequests
<1>5. CASE HandoffCall(c) /\ UNCHANGED <<task, asg, worker, reviewVars, handoff>>
  <2>1. /\ call'[c] \in HandoffRequests
        /\ call'[c].op = "request_handoff" => asg[call'[c].asg] # Unused
        /\ call'[c].op \in {"accept", "cancel"} => handoff[call'[c].handoff] # NoHandoff
        /\ call'[c].op = "accept" =>
             call'[c].task = asg[handoff[call'[c].handoff].asg].task
    BY <1>5, HandoffCallBegun
  <2> QED BY <1>5, <2>1 DEF HandoffRequests
<1> QED BY <1>2, <1>3, <1>4, <1>5, HandoffNewCalls

LEMMA HandoffInvStep == HandoffInv /\ [HandoffNext]_hvars => HandoffInv'
BY HandoffReviewStep, HandoffRowsStep, HandoffCallsStep, OnePendingStep, HandedOverStep
   DEF HandoffInv

LEMMA HandoffInductive == HandoffSpec => []HandoffInv
BY HandoffInitInv, HandoffInvStep, PTL DEF HandoffSpec
-----------------------------------------------------------------------------
(* Every row and every request in flight is well formed.                   *)
THEOREM HandoffTyped == HandoffSpec => []HandoffTypeOK
<1> DEFINE Known == \A c \in Callers :
      \/ call[c] = Idle \/ call[c].op \in PlainOps
      \/ call[c] \in ReviewRequests \/ call[c] \in HandoffRequests
<1>1. HandoffInit => Known
  BY DEF HandoffInit, ReviewInit, Init
<1>2. HandoffInv /\ Known /\ [HandoffNext]_hvars => Known'
  BY HandoffNewCalls, HandoffCallBegun
<1>3. HandoffInv /\ Known => HandoffTypeOK
  <2> SUFFICES ASSUME HandoffInv, Known PROVE HandoffTypeOK
    OBVIOUS
  <2>0. ReviewInv /\ CallMap /\ HandoffRowsOK
    BY DEF HandoffInv, ReviewInv
  <2>1. ASSUME NEW c \in Callers
        PROVE  call[c] \in {Idle} \cup Requests \cup ReviewRequests \cup HandoffRequests
    BY <2>0, PlainTyped
  <2>2. call \in [Callers -> {Idle} \cup Requests \cup ReviewRequests \cup HandoffRequests]
    BY <2>0, <2>1 DEF CallMap
  <2> QED BY <2>0, <2>2, PlainTyped DEF HandoffTypeOK, HandoffRowsOK
<1> HIDE DEF Known
<1> QED BY HandoffInductive, <1>1, <1>2, <1>3, PTL DEF HandoffSpec

(* An assignment is on offer in one pending handoff at most, however many  *)
(* requests for it are in flight (_execute_request()).                     *)
THEOREM OneOffer == HandoffSpec => []OnePendingHandoff
<1>1. HandoffInv => OnePendingHandoff
  BY DEF HandoffInv
<1> QED BY HandoffInductive, <1>1, PTL

(* Nobody takes over twice from the same assignment, and the holder that   *)
(* was taken over from stays retired (_execute_accept()).                  *)
THEOREM TakenOverOnce == HandoffSpec => []HandedOverOnce
<1>1. HandoffInv => HandedOverOnce
  BY DEF HandoffInv
<1> QED BY HandoffInductive, <1>1, PTL

(* Of an accept, a cancellation and an expiry in flight together one       *)
(* decides (_terminal_handoff(), expire_handoffs()).                       *)
THEOREM HandoffsFinal == HandoffSpec => HandoffFinal
<1>1. HandoffInv /\ [HandoffNext]_hvars =>
        \A h \in Handoffs :
          handoff[h] # NoHandoff /\ handoff[h].status # "pending" =>
            handoff'[h] = handoff[h]
  BY RowSteps DEF RowStep
<1> QED BY HandoffInductive, <1>1, PTL DEF HandoffSpec, HandoffFinal

(* A change of hands leaves no second active assignment beside the new one *)
(* (the unique index of migration 014 is never violated).                  *)
THEOREM HandoffKeepsOneActive == HandoffSpec => []OneActivePerTask
<1>1. HandoffInv => OneActivePerTask
  BY DEF HandoffInv, ReviewInv, CP!IInv, CP!OneActivePerTask, OneActivePerTask,
         CP!Active, Active, CP!ACTIVE_ASSIGNMENT_STATUSES, ACTIVE_ASSIGNMENT_STATUSES
<1> QED BY HandoffInductive, <1>1, PTL

(* The verdict of a task rests on its latest result, whoever delivered it. *)
THEOREM HandoffKeepsVerdicts == HandoffSpec => []VerdictOnLatest
<1>1. HandoffInv => VerdictOnLatest
  BY DEF HandoffInv, ReviewInv, LatestFollowed, Followed, VerdictOnLatest
<1> QED BY HandoffInductive, <1>1, PTL

(* The old holder's submission, in flight during an accept, is refused:    *)
(* a result comes from the sole holder of a running task.                  *)
THEOREM HandoffKeepsFence == HandoffSpec => ResultFenced
<1> DEFINE Fenced ==
      \A a \in Assignments :
        asg[a].status # "completed" /\ asg'[a].status = "completed" =>
          /\ HeldBy(asg[a].task) = {a}
          /\ task[asg[a].task].status = "running"
          /\ task'[asg[a].task].status = "result_submitted"
<1>1. ASSUME HandoffInv, [HandoffNext]_hvars PROVE Fenced
  <2>1. CP!IInv /\ CP!TypeOK /\ CallMap /\ ResultsBound
    BY <1>1 DEF HandoffInv, ReviewInv, CP!IInv
  <2>2. CASE [ReviewNext]_rvars
    <3>1. [CP!Next]_(CP!vars)
      BY <2>1, <2>2, PlainStep
    <3>2. \A a \in Assignments :
            asg[a].status # "completed" /\ asg'[a].status = "completed" =>
              /\ CP!HeldBy(asg[a].task) = {a}
              /\ task[asg[a].task].status = "running"
              /\ task'[asg[a].task].status = "result_submitted"
      BY <2>1, <3>1, PlainAssumptions, CP!ResultFencedStep DEF CP!ResultFencedStep
    <3> QED BY <3>2 DEF CP!HeldBy, HeldBy, CP!Active, Active,
                        CP!ACTIVE_ASSIGNMENT_STATUSES, ACTIVE_ASSIGNMENT_STATUSES
  <2>3. ASSUME NEW c \in Callers, CommitAccept(c) PROVE Fenced
    <3> DEFINE o == handoff[call[c].handoff].asg
    <3>1. /\ asg[o] \in AssignmentRow
          /\ asg'[o] = [asg[o] EXCEPT !.status = "cancelled"]
      BY <1>1, <2>3, AcceptEffect
    <3>2. asg'[o].status = "cancelled"
      BY <3>1 DEF AssignmentRow
    <3>3. PICK new \in Assignments \ {o} :
            /\ asg'[new] = [status |-> "running", task |-> call[c].task,
                            worker |-> call[c].worker, lapsed |-> FALSE]
            /\ \A b \in Assignments \ {o, new} : asg'[b] = asg[b]
      BY <1>1, <2>3, AcceptEffect
    <3>4. asg'[new].status = "running"
      BY <3>3
    <3> QED BY <3>2, <3>3, <3>4
  <2>4. ASSUME NEW c \in Callers,
               HandoffCall(c) \/ CommitRequestHandoff(c) \/ CommitCancel(c)
        PROVE  asg' = asg
    BY <2>4 DEF HandoffCall, BeginRequestHandoff, BeginAccept, BeginCancel, Begin,
                CommitRequestHandoff, CommitCancel
  <2>5. ASSUME ExpireHandoffs \/ \E h \in Handoffs : HandoffLapses(h)
        PROVE  asg' = asg
    BY <2>5 DEF ExpireHandoffs, HandoffLapses, rvars, vars
  <2> QED BY <1>1, <2>2, <2>3, <2>4, <2>5 DEF HandoffNext, HandoffStep, hvars
<1>2. UNCHANGED vars => Fenced
  BY DEF vars
<1> QED BY HandoffInductive, <1>1, PTL DEF HandoffSpec, ResultFenced

(* A recovery begun against the old holder of a task that was handed over  *)
(* does not block the new holder's work.                                   *)
THEOREM HandedOverTaskKept == HandoffSpec => RunningTaskKept
<1> DEFINE Kept ==
      \A t \in Tasks :
        task[t].status = "running" /\ task'[t].status = "blocked" =>
          \A a \in HeldBy(t) : asg[a].lapsed
<1>1. ASSUME HandoffInv, [HandoffNext]_hvars PROVE Kept
  <2> SUFFICES ASSUME NEW t \in Tasks, NEW a \in HeldBy(t),
                      task[t].status = "running", task'[t].status = "blocked"
               PROVE  asg[a].lapsed
    OBVIOUS
  <2>0. /\ ReviewInv /\ CP!CallsChecked /\ OneActivePerTask /\ ReviewCallsChecked
        /\ task \in [Tasks -> TaskRow]
    BY <1>1, PlainTyped
       DEF HandoffInv, ReviewInv, CP!IInv, CP!OneActivePerTask, OneActivePerTask,
           CP!Active, Active, CP!ACTIVE_ASSIGNMENT_STATUSES,
           ACTIVE_ASSIGNMENT_STATUSES
  <2>1. ASSUME NEW c \in Callers, CommitRecover(c) PROVE asg[a].lapsed
    <3>1. PlainCall[c] = call[c] /\ call[c].op = "recover"
      BY <2>1, PlainRequests DEF CommitRecover, PlainOps
    <3>2. asg[call[c].asg].task = call[c].task
      BY <2>0, <3>1 DEF CP!CallsChecked
    <3>3. /\ Active(call[c].asg) /\ asg[call[c].asg].lapsed
          /\ call[c].asg \in Assignments
      <4>1. CP!TypeOK
        BY <2>0 DEF ReviewInv, CP!IInv
      <4> QED BY <2>1, <3>1, <4>1, PlainAssumptions, CP!RequestTypes
              DEF CP!RequestTypes, CommitRecover, StillLapsed
    <3>4. t = call[c].task
      BY <2>0, <2>1 DEF CommitRecover
    <3> QED BY <2>0, <3>2, <3>3, <3>4 DEF OneActivePerTask, HeldBy
  <2>2. ASSUME NEW c \in Callers, NEW s, s # "blocked",
               task' = [task EXCEPT ![call[c].task] = Moved(task[call[c].task], s)]
        PROVE  FALSE
    BY <2>0, <2>2 DEF Moved
  <2>3. ASSUME NEW c \in Callers, CommitClaim(c) \/ SubmitResult(c) \/ CommitBeginReview(c)
        PROVE  FALSE
    BY <2>2, <2>3 DEF CommitClaim, SubmitResult, CommitSubmit, CommitBeginReview
  <2>4. ASSUME NEW c \in Callers, CommitTransition(c) PROVE FALSE
    <3>1. call[c].target \notin ReviewWrites
      BY <2>0, <2>4 DEF CommitTransition, ReviewCallsChecked
    <3> QED BY <2>2, <2>4, <3>1 DEF CommitTransition, ReviewWrites
  <2>5. ASSUME NEW c \in Callers, CommitDecide(c) PROVE FALSE
    <3>1. task[call[c].task].status = "reviewing"
      BY <2>5 DEF CommitDecide, TaskStill
    <3> QED BY <2>0, <2>5, <3>1 DEF CommitDecide
  <2>6. ASSUME NEW c \in Callers, CommitAccept(c) PROVE FALSE
    BY <1>1, <2>6, AcceptEffect DEF Moved
  <2>7. ASSUME NEW c \in Callers,
               \/ CommitHeartbeat(c) \/ CommitSetStatus(c) \/ CommitRegister(c)
               \/ Abandon(c) \/ CommitRequestHandoff(c) \/ CommitCancel(c)
        PROVE  task' = task
    BY <2>7 DEF CommitHeartbeat, CommitSetStatus, CommitRegister, Abandon,
                CommitRequestHandoff, CommitCancel
  <2>8. ASSUME NEW c \in Callers, BeginCall(c) \/ ReviewCall(c) \/ HandoffCall(c)
        PROVE  task' = task
    <3>1. CASE BeginCall(c)
      BY <2>0, <3>1, PlainBeginCall, PlainBegin DEF ReviewInv
    <3>2. CASE ReviewCall(c) \/ HandoffCall(c)
      BY <3>2 DEF ReviewCall, BeginBeginReview, BeginDecide, HandoffCall,
                  BeginRequestHandoff, BeginAccept, BeginCancel, Begin
    <3> QED BY <2>8, <3>1, <3>2
  <2>9. ASSUME \/ Surroundings \/ ExpireHandoffs \/ UNCHANGED hvars
               \/ \E h \in Handoffs : HandoffLapses(h)
        PROVE  task' = task
    BY <2>9 DEF Surroundings, StartAssignment, LeaseLapses, ExpireHandoffs,
                HandoffLapses, hvars, rvars, vars
  <2> QED BY <1>1, <2>1, <2>3, <2>4, <2>5, <2>6, <2>7, <2>8, <2>9
          DEF HandoffNext, HandoffStep, ReviewNext, ReviewStep, CallStep, CommitPlain
<1> QED BY HandoffInductive, <1>1, PTL DEF HandoffSpec, RunningTaskKept
=============================================================================
