---------------------------- MODULE HandoffFlow ----------------------------
(***************************************************************************)
(* The control plane with reviews and handoffs (task_handoff_service.py).  *)
(* The holder of an assignment asks for a handoff; another executor        *)
(* accepts it, which retires the old assignment and opens a new one for    *)
(* the same task, or the handoff is cancelled or expires.  The API names   *)
(* no candidate, so reject_handoff() refuses every caller and is no step.  *)
(***************************************************************************)
EXTENDS ReviewFlow

CONSTANT Handoffs   \* the rows task_handoffs may come to hold (a bound)

VARIABLE handoff    \* handoff[h]: the row of h

hvars == <<rvars, handoff>>

HANDOFF_TASK_STATES == {"claimed", "running", "result_submitted", "rework"}

NoHandoff == [status |-> "unused"]
HandoffRow == [status : {"pending", "accepted", "cancelled", "expired"},
               asg : Assignments, lapsed : BOOLEAN]

HandoffRequests ==
  [op : {"request_handoff"}, asg : Assignments] \cup
  [op : {"accept"}, handoff : Handoffs, worker : Workers, task : Tasks,
   seen : TaskRow] \cup
  [op : {"cancel"}, handoff : Handoffs]

PendingFor(a) == {h \in Handoffs : handoff[h].status = "pending" /\ handoff[h].asg = a}

HandoffInit ==
  /\ ReviewInit
  /\ handoff = [h \in Handoffs |-> NoHandoff]
-----------------------------------------------------------------------------
(* What may change hands: an active assignment, or the completed one of a  *)
(* task sent back to rework.                                               *)
Handoverable(a) ==
  \/ Active(a)
  \/ asg[a].status = "completed" /\ task[asg[a].task].status = "rework"

(* request_handoff(): _validate_source().                                  *)
BeginRequestHandoff(c, a) ==
  /\ asg[a] # Unused
  /\ task[asg[a].task].status \in HANDOFF_TASK_STATES
  /\ Handoverable(a)
  /\ ~asg[a].lapsed
  /\ Begin(c, [op |-> "request_handoff", asg |-> a])
  /\ UNCHANGED <<reviewVars, handoff>>

(* The transaction looks for another pending handoff and at nothing else.  *)
RequestAdmittedAlways(a) == TRUE
RequestAdmitted(a) == PendingFor(a) = {}

(* The inserted row.                                                       *)
OfferMisbound(a) == [status |-> "pending", asg |-> asg[a].task, lapsed |-> FALSE]
Offer(a) == [status |-> "pending", asg |-> a, lapsed |-> FALSE]

CommitRequestHandoff(c) ==
  LET k == call[c] IN
  /\ k.op = "request_handoff"
  /\ RequestAdmitted(k.asg)
  /\ \E h \in Handoffs :
       /\ handoff[h] = NoHandoff
       /\ handoff' = [handoff EXCEPT ![h] = Offer(k.asg)]
  /\ Finish(c)
  /\ UNCHANGED <<task, asg, worker, reviewVars>>

(* An available executor.  The handoffs here name no candidate.            *)
MayAccept(w) == worker[w] = "available"

(* accept_handoff(): the handoff is pending and unexpired.                 *)
BeginAccept(c, h, w) ==
  /\ handoff[h].status = "pending"
  /\ ~handoff[h].lapsed
  /\ MayAccept(w)
  /\ LET t == asg[handoff[h].asg].task IN
       Begin(c, [op |-> "accept", handoff |-> h, worker |-> w,
                 task |-> t, seen |-> task[t]])
  /\ UNCHANGED <<reviewVars, handoff>>

StillPendingUnchecked(h) == TRUE
StillPending(h) == handoff[h].status = "pending"

(* What the accepting transaction checks itself.  The state of the task is *)
(* not among it.                                                           *)
AcceptChecks(k) ==
  /\ StillPending(k.handoff)
  /\ SameVersion(k)
  /\ Handoverable(handoff[k.handoff].asg)
  /\ worker[k.worker] = "available"

(* The old assignment, taken over from before the new one is inserted.     *)
TakenOverKept(row) == row
TakenOver(row) == [row EXCEPT !.status = "cancelled"]

(* The worker that hands over keeps its status only while another active   *)
(* assignment, the new one included, is its own.                           *)
Relieved(a, w) == asg[a].worker # w /\ HoldingsOf(asg[a].worker) \subseteq {a}

(* The transaction: the new worker is seated before the old one leaves its *)
(* seat, and a task in rework goes straight back to running.               *)
CommitAccept(c) ==
  LET k == call[c]
      a == handoff[k.handoff].asg
  IN
  /\ k.op = "accept"
  /\ AcceptChecks(k)
  /\ HeldBy(k.task) \subseteq {a}
  /\ SeatFree(k.worker, "busy")
  /\ \E new \in Assignments :
       /\ asg[new] = Unused
       /\ asg' = [asg EXCEPT ![a] = TakenOver(@),
                             ![new] = [status |-> "running", task |-> k.task,
                                       worker |-> k.worker, lapsed |-> FALSE]]
  /\ worker' = [w \in Workers |->
                  IF w = k.worker THEN "busy"
                  ELSE IF w = asg[a].worker /\ Relieved(a, k.worker)
                       THEN "registered" ELSE worker[w]]
  /\ task' = IF task[k.task].status = "rework"
             THEN [task EXCEPT ![k.task] = Moved(@, "running")] ELSE task
  /\ handoff' = [handoff EXCEPT ![k.handoff].status = "accepted"]
  /\ Finish(c)
  /\ UNCHANGED reviewVars

BeginCancel(c, h) ==
  /\ handoff[h].status = "pending"
  /\ Begin(c, [op |-> "cancel", handoff |-> h])
  /\ UNCHANGED <<reviewVars, handoff>>

(* The update is conditional but its row count is not looked at: the call  *)
(* reports a cancellation even of a handoff accepted in the meantime.      *)
CommitCancel(c) ==
  LET h == call[c].handoff IN
  /\ call[c].op = "cancel"
  /\ handoff' = [handoff EXCEPT ![h].status =
                   IF StillPending(h) THEN "cancelled" ELSE @]
  /\ Finish(c)
  /\ UNCHANGED <<task, asg, worker, reviewVars>>

HandoffLapses(h) ==
  /\ handoff[h].status = "pending"
  /\ ~handoff[h].lapsed
  /\ handoff' = [handoff EXCEPT ![h].lapsed = TRUE]
  /\ UNCHANGED rvars

(* expire_handoffs(): one transaction over every pending one.              *)
ExpireHandoffs ==
  LET Overdue == {h \in Handoffs : handoff[h].status = "pending" /\ handoff[h].lapsed}
  IN
  /\ Overdue # {}
  /\ handoff' = [h \in Handoffs |->
                   IF h \in Overdue THEN [handoff[h] EXCEPT !.status = "expired"]
                   ELSE handoff[h]]
  /\ UNCHANGED rvars

(* The calls of the handoff endpoint; "reject" always fails, and "expire"  *)
(* is a transaction alone.                                                 *)
HandoffCall(c) ==
  \/ \E a \in Assignments : BeginRequestHandoff(c, a)
  \/ \E h \in Handoffs : BeginCancel(c, h)
  \/ \E h \in Handoffs, w \in Workers : BeginAccept(c, h, w)

HandoffStep(c) ==
  \/ HandoffCall(c)
  \/ CommitRequestHandoff(c)
  \/ CommitAccept(c)
  \/ CommitCancel(c)

HandoffNext ==
  \/ ReviewNext /\ UNCHANGED handoff
  \/ \E c \in Callers : HandoffStep(c)
  \/ \E h \in Handoffs : HandoffLapses(h)
  \/ ExpireHandoffs

HandoffSpec == HandoffInit /\ [][HandoffNext]_hvars
-----------------------------------------------------------------------------
HandoffTypeOK ==
  /\ task \in [Tasks -> TaskRow]
  /\ asg \in [Assignments -> {Unused} \cup AssignmentRow]
  /\ worker \in [Workers -> WORKER_STATUSES \cup {"absent"}]
  /\ call \in [Callers -> {Idle} \cup Requests \cup ReviewRequests \cup HandoffRequests]
  /\ handoff \in [Handoffs -> {NoHandoff} \cup HandoffRow]

(* An assignment is offered in at most one pending handoff, however many   *)
(* requests for it are in flight (_execute_request()).                     *)
OnePendingHandoff == \A h, g \in Handoffs :
  handoff[h].status = "pending" /\ handoff[g].status = "pending"
    /\ handoff[h].asg = handoff[g].asg => h = g

(* Two accepts never take over from the same assignment, and the holder    *)
(* that was taken over from stays retired: no renewal, recovery or         *)
(* submission it had in flight brings its assignment back.                 *)
HandedOverOnce == \A h, g \in Handoffs :
  handoff[h].status = "accepted" =>
    /\ asg[handoff[h].asg].status = "cancelled"
    /\ handoff[g].status = "accepted" /\ handoff[h].asg = handoff[g].asg => h = g

(* The outcome of a handoff is final: of an accept, a cancellation and an  *)
(* expiry in flight together one decides and the others change nothing.    *)
HandoffFinal == [][\A h \in Handoffs :
  handoff[h] # NoHandoff /\ handoff[h].status # "pending" =>
    handoff'[h] = handoff[h]]_hvars

(* A running task is taken from its holder only when that holder's lease   *)
(* has lapsed: a recovery begun against the old holder of a task that was  *)
(* handed over does not block the new holder's work, although an accept    *)
(* leaves the version of the task alone.                                   *)
RunningTaskKept == [][\A t \in Tasks :
  task[t].status = "running" /\ task'[t].status = "blocked" =>
    \A a \in HeldBy(t) : asg[a].lapsed]_hvars

(* The service's own test accepts a handoff of a running assignment whose  *)
(* holder is busy: an accept that passes every check of its transaction is *)
(* not refused by the index on executors.                                  *)
AcceptSeated == \A c \in Callers :
  call[c].op = "accept" =>
    (AcceptChecks(call[c]) => SeatFree(call[c].worker, "busy"))
=============================================================================
