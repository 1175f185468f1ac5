------------------------- MODULE AgentRuntime_proofs -------------------------
(***************************************************************************)
(* What holds of the processes of a worker and of the supervisor's cycles  *)
(* whatever is lost, sent again or given up in between.                    *)
(***************************************************************************)
EXTENDS AgentRuntime, ControlPlane_proofs

ProcRow ==
  [pc : {"off", "idle", "leaving", "claim", "work", "submit"},
   on : {None, "lost"} \cup Handlers, tries : Nat,
   asg : {None} \cup Assignments, token : BOOLEAN]

ProcsTyped ==
  /\ proc \in [Procs -> ProcRow]
  /\ claimed \in [Keys \cup {Own} -> {None} \cup Assignments]

(* A process with a lease token has the lease of an assignment that exists. *)
TokensUsed == \A p \in Procs :
  proc[p].token => proc[p].asg \in Assignments /\ asg[proc[p].asg] # Unused

(* A process works on an assignment it has been given, and the connection it
   waits on serves its own request, and no other process. *)
Awaiting(p) ==
  LET row == proc[p] IN
  /\ row.pc \in {"work", "submit"} => row.asg \in Assignments
  /\ row.on \in Handlers =>
       \/ row.pc = "claim" /\ call[row.on].op = "claim"
       \/ row.pc = "submit" /\ call[row.on].op = "submit" /\ call[row.on].asg = row.asg

RequestsServed == \A p \in Procs : Awaiting(p)

ConnectionsKept == \A p, q \in Procs :
  proc[p].on \in Handlers /\ proc[p].on = proc[q].on => p = q

ReportsStored == reports \subseteq {a \in Assignments : Stored(a)}

ProcInv ==
  /\ ProcsTyped /\ TokensUsed /\ RequestsServed /\ ConnectionsKept
  /\ OneHolder /\ ReportsStored
-----------------------------------------------------------------------------
SupRow ==
  {Resting} \cup
  [pc : {"planned", "inserted"}, key : Keys, action : {"CLAIM_TASK", "WAIT"}, version : Nat] \cup
  [pc : {"acted"}, key : Keys, ok : BOOLEAN]

CyclesTyped ==
  /\ cycle \in [Keys -> {None} \cup CycleRow]
  /\ sup \in [Supervisors -> SupRow]
  /\ told \subseteq [key : Keys, ok : BOOLEAN, open : BOOLEAN, again : BOOLEAN]

(* A supervisor past its insert finds its plan in the row, and has claimed
   what it says it has. *)
CyclesFollowed == \A s \in Supervisors :
  LET k == sup[s].key IN
  /\ sup[s].pc = "inserted" => cycle[k] # None /\ cycle[k].action = sup[s].action
  /\ sup[s].pc = "acted" =>
       /\ cycle[k] # None
       /\ sup[s].ok /\ cycle[k].action = "CLAIM_TASK" => claimed[k] # None

CyclesDone == \A k \in Keys :
  cycle[k] # None /\ cycle[k].action = "CLAIM_TASK" /\ cycle[k].result = "success" =>
    claimed[k] # None

ToldOfRows == \A x \in told : cycle[x.key] # None

CycleInv == CyclesTyped /\ CyclesFollowed /\ CyclesDone /\ ToldOfRows /\ ToldIsDone
-----------------------------------------------------------------------------
(***************************************************************************)
(* The clients do to the control plane what its callers may do.            *)
(***************************************************************************)

LEMMA CallersKnown == Handlers \subseteq Callers /\ Supervisors \subseteq Callers
BY ClientsAssumption DEF Handlers

LEMMA ClientStep ==
  ASSUME TypeOK, RequestsServed, [AgentNext]_agentVars
  PROVE  [Next]_vars
<1>1. ASSUME NEW p \in Procs, Running(p) PROVE [Next]_vars
  <2>1. ASSUME NEW c \in Handlers, SendClaim(p, c) \/ SendHeartbeat(p, c) \/ SendSubmit(p, c)
        PROVE  BeginCall(c)
    <3>1. CASE SendClaim(p, c)
      BY <3>1, ClientsAssumption DEF SendClaim, BeginCall
    <3>2. CASE SendHeartbeat(p, c)
      <4>1. BeginHeartbeat(c, proc[p].asg) /\ proc[p].asg \in Assignments
        BY <3>2 DEF SendHeartbeat, HeartbeatCall, Beating, RequestsServed, Awaiting
      <4> QED BY <4>1 DEF BeginCall
    <3>3. CASE SendSubmit(p, c)
      <4>1. BeginSubmit(c, proc[p].asg) /\ proc[p].asg \in Assignments
        BY <3>3 DEF SendSubmit, Sending, At, RequestsServed, Awaiting
      <4> QED BY <4>1 DEF BeginCall
    <3> QED BY <2>1, <3>1, <3>2, <3>3
  <2>2. CASE UNCHANGED vars
    BY <2>2
  <2> QED BY <1>1, <2>1, <2>2, CallersKnown
          DEF Running, Launch, Leave, Die, BeginCycle, TimeOut, ClaimRefused, ClaimRepeated,
              Work, SubmitRefused, SubmitRepeated, Next, CallStep
<1>2. ASSUME NEW c \in Handlers, Serving(c) PROVE [Next]_vars
  BY <1>2, CallersKnown DEF Serving, ClaimMade, SubmitMade, RequestFailed, Next, CallStep,
                            CommitPlain
<1>3. ASSUME NEW s \in Supervisors, Supervising(s) PROVE [Next]_vars
  <2>1. CASE BeginSupervisedClaim(s) \/ SupervisedClaim(s)
    BY <2>1, CallersKnown, ClientsAssumption
       DEF BeginSupervisedClaim, SupervisedClaim, Next, CallStep, BeginCall, CommitPlain
  <2>2. CASE NothingDone(s) \/ CycleLost(s)
    <3>1. UNCHANGED <<task, asg, worker>> /\ Finish(s)
      BY <2>2 DEF NothingDone, CycleLost, Finish
    <3>2. CASE call[s] = Idle
      <4>1. call' = call
        BY <3>1, <3>2, CallersKnown DEF Finish, TypeOK
      <4> QED BY <3>1, <4>1 DEF vars
    <3>3. CASE call[s] # Idle
      BY <3>1, <3>3, CallersKnown DEF Abandon, Next, CallStep
    <3> QED BY <3>2, <3>3
  <2> QED BY <1>3, <2>1, <2>2 DEF Supervising, CycleRepeated, PlanCycle, InsertCycle, RecordCycle
<1>4. CASE Elsewhere
  <2>1. ASSUME NEW c \in Handlers,
               \/ RegisterCall(c)
               \/ \E s \in WORKER_STATUSES : BeginSetStatus(c, Me, s)
               \/ \E a \in Assignments : BeginRecover(c, a)
               \/ \E move \in TaskMoves : BeginTransition(c, Mine, move)
        PROVE  BeginCall(c)
    BY <2>1, ClientsAssumption DEF RegisterCall, BeginCall
  <2> QED BY <1>4, <2>1, CallersKnown DEF Elsewhere, Next, CallStep, CommitPlain
<1>5. CASE UNCHANGED agentVars
  BY <1>5 DEF agentVars, vars
<1> QED BY <1>1, <1>2, <1>3, <1>4, <1>5 DEF AgentNext
-----------------------------------------------------------------------------
(***************************************************************************)
(* The processes.                                                          *)
(***************************************************************************)

(* A stored result stays stored. *)
LEMMA StoredStays ==
  ASSUME TypeOK, [Next]_vars, NEW a \in Assignments, Stored(a)
  PROVE  asg'[a].status = "completed"
<1>0. asg[a] # Unused /\ asg[a] \in AssignmentRow /\ ~Active(a)
  BY AssignmentTypes DEF Stored, Active, Unused, ACTIVE_ASSIGNMENT_STATUSES
<1>1. ASSUME NEW c \in Callers, BeginCall(c) PROVE asg' = asg
  BY <1>1, BeginCallRequest DEF Begin
<1>2. ASSUME NEW c \in Callers, CommitClaim(c) PROVE asg'[a] = asg[a]
  BY <1>0, <1>2 DEF CommitClaim, LapsedOf, HeldBy
<1>3. ASSUME NEW c \in Callers, CommitHeartbeat(c) \/ CommitRecover(c) \/ CommitSubmit(c)
      PROVE  asg'[a] = asg[a]
  <2>1. call[c].asg # a
    BY <1>0, <1>3 DEF CommitHeartbeat, CommitRecover, StillLapsed, CommitSubmit, StillLeased,
                      Active, ACTIVE_ASSIGNMENT_STATUSES
  <2> QED BY <1>3, <2>1 DEF CommitHeartbeat, CommitRecover, CommitSubmit, TypeOK
<1>4. ASSUME NEW c \in Callers,
             CommitTransition(c) \/ CommitSetStatus(c) \/ CommitRegister(c) \/ Abandon(c)
      PROVE  asg' = asg
  BY <1>4 DEF CommitTransition, CommitSetStatus, CommitRegister, Abandon
<1>5. ASSUME NEW b \in Assignments, StartAssignment(b) PROVE asg'[a] = asg[a]
  <2>1. b # a
    BY <1>5 DEF StartAssignment, Stored
  <2> QED BY <1>5, <2>1 DEF StartAssignment, TypeOK
<1>6. ASSUME NEW b \in Assignments, LeaseLapses(b) PROVE asg'[a].status = asg[a].status
  BY <1>0, <1>6 DEF LeaseLapses, TypeOK, AssignmentRow
<1>7. CASE UNCHANGED vars
  BY <1>7 DEF vars, Stored
<1> QED BY <1>1, <1>2, <1>3, <1>4, <1>5, <1>6, <1>7
        DEF Next, CallStep, CommitPlain, Surroundings, Stored

(* The connections on which a process other than p waits are left alone. *)
OthersWait(p) == \A q \in Procs \ {p} :
  proc[q].on \in Handlers => call'[proc[q].on] = call[proc[q].on]

(* What is reported was reported before, or is stored by now. *)
NewReports == reports' \subseteq reports \cup {a \in Assignments : asg'[a].status = "completed"}

ClaimsTyped == claimed' \in [Keys \cup {Own} -> {None} \cup Assignments]

LEMMA ReportsKept ==
  ASSUME TypeOK, [Next]_vars, ReportsStored, NewReports
  PROVE  ReportsStored'
BY StoredStays DEF ReportsStored, NewReports, Stored

(* The row of one process changes. *)
LEMMA ProcMoves ==
  ASSUME TypeOK, [Next]_vars, ProcInv, NEW p \in Procs, NEW row \in ProcRow,
         proc' = Put(p, row), ClaimsTyped, NewReports, OthersWait(p),
         row.token =>
           \/ proc[p].token /\ row.asg = proc[p].asg
           \/ row.asg \in Assignments /\ asg[row.asg] = Unused /\ asg'[row.asg] # Unused,
         row.pc \in {"work", "submit"} => row.asg \in Assignments,
         row.on \in Handlers =>
           /\ call[row.on] = Idle
           /\ \/ row.pc = "claim" /\ call'[row.on].op = "claim"
              \/ row.pc = "submit" /\ call'[row.on].op = "submit" /\ call'[row.on].asg = row.asg
  PROVE  ProcInv'
<1>1. /\ proc' \in [Procs -> ProcRow] /\ proc'[p] = row
      /\ \A q \in Procs \ {p} : proc'[q] = proc[q]
  BY DEF ProcInv, ProcsTyped, Put
<1>2. ProcsTyped'
  BY <1>1 DEF ProcsTyped, ClaimsTyped, ProcRow
<1>3. \A a \in Assignments : asg[a] # Unused => asg'[a] # Unused
  BY StepFrame
<1>4. TokensUsed'
  BY <1>1, <1>3 DEF TokensUsed, ProcInv
<1>5. OneHolder'
  BY <1>1 DEF OneHolder, TokensUsed, ProcInv
<1>6. ASSUME NEW q \in Procs PROVE Awaiting(q)'
  <2>1. CASE q = p
    BY <1>1, <2>1 DEF Awaiting
  <2>2. CASE q # p
    BY <1>1, <2>2 DEF Awaiting, RequestsServed, ProcInv, OthersWait
  <2> QED BY <2>1, <2>2
<1>7. ASSUME NEW q \in Procs \ {p}, proc[q].on \in Handlers
      PROVE  row.on # proc[q].on
  <2>1. call[proc[q].on] # Idle
    BY <1>7 DEF ProcInv, RequestsServed, Awaiting, Idle
  <2> QED BY <1>7, <2>1
<1>8. ConnectionsKept'
  <2> SUFFICES ASSUME NEW q \in Procs, NEW r \in Procs,
                      proc'[q].on \in Handlers, proc'[q].on = proc'[r].on
               PROVE  q = r
    BY DEF ConnectionsKept, Handlers
  <2> QED BY <1>1, <1>7 DEF ProcInv, ConnectionsKept
<1>9. ReportsStored'
  BY ReportsKept DEF ProcInv
<1> QED BY <1>2, <1>4, <1>5, <1>6, <1>8, <1>9 DEF ProcInv, RequestsServed

(* The row of a process that waits for nothing. *)
LEMMA PlaceTypes ==
  ASSUME NEW pc \in {"off", "idle", "leaving", "claim", "work", "submit"},
         NEW tries \in Nat, NEW a \in {None} \cup Assignments, NEW token \in BOOLEAN
  PROVE  LET row == Place(pc, tries, a, token) IN
         /\ row \in ProcRow /\ row.on \notin Handlers
         /\ row.pc = pc /\ row.asg = a /\ row.token = token
BY NoneAssumption DEF Place, ProcRow, Handlers

(* A process goes on with what it has been given. *)
LEMMA ProcGoes ==
  ASSUME TypeOK, [Next]_vars, ProcInv, NEW p \in Procs,
         NEW pc \in {"off", "idle", "leaving", "claim", "work", "submit"}, NEW tries \in Nat,
         proc' = Put(p, Place(pc, tries, proc[p].asg, proc[p].token)),
         ClaimsTyped, NewReports, OthersWait(p),
         pc \in {"work", "submit"} => proc[p].asg \in Assignments
  PROVE  ProcInv'
<1> DEFINE row == Place(pc, tries, proc[p].asg, proc[p].token)
<1>1. proc[p].asg \in {None} \cup Assignments /\ proc[p].token \in BOOLEAN
  BY DEF ProcInv, ProcsTyped, ProcRow
<1>2. /\ row \in ProcRow /\ row.on \notin Handlers
      /\ row.pc = pc /\ row.asg = proc[p].asg /\ row.token = proc[p].token
  BY <1>1, PlaceTypes
<1>3. proc' = Put(p, row)
  OBVIOUS
<1> HIDE DEF row
<1> QED BY <1>2, <1>3, ProcMoves

(* No process moves, and the connections they wait on are left alone. *)
LEMMA ProcsStand ==
  ASSUME TypeOK, [Next]_vars, ProcInv, proc' = proc, claimed' = claimed \/ ClaimsTyped,
         NewReports,
         \A c \in Handlers : call[c].op \in {"claim", "submit"} => call'[c] = call[c]
  PROVE  ProcInv'
<1>1. \A a \in Assignments : asg[a] # Unused => asg'[a] # Unused
  BY StepFrame
<1>2. ProcsTyped' /\ OneHolder' /\ ConnectionsKept'
  BY DEF ProcInv, ProcsTyped, ClaimsTyped, OneHolder, ConnectionsKept, ProcRow, Handlers
<1>3. TokensUsed'
  BY <1>1 DEF ProcInv, TokensUsed
<1>4. RequestsServed'
  BY DEF ProcInv, RequestsServed, Awaiting
<1>5. ReportsStored'
  BY ReportsKept DEF ProcInv
<1> QED BY <1>2, <1>3, <1>4, <1>5 DEF ProcInv

(* An answer finds no reader. *)
LEMMA ProcsLose ==
  ASSUME TypeOK, [Next]_vars, ProcInv, NEW c \in Handlers, LoseAnswer(c), ClaimsTyped,
         NewReports, \A d \in Handlers \ {c} : call'[d] = call[d]
  PROVE  ProcInv'
<1> DEFINE lost(q) == [proc[q] EXCEPT !.on = "lost"]
<1>0. \A q \in Procs : proc[q] \in ProcRow
  BY DEF ProcInv, ProcsTyped
<1>1. ASSUME NEW q \in Procs
      PROVE  /\ lost(q) \in ProcRow /\ lost(q).on \notin Handlers
             /\ lost(q).pc = proc[q].pc /\ lost(q).asg = proc[q].asg
             /\ lost(q).token = proc[q].token
  BY <1>0, LostAssumption DEF ProcRow, Handlers
<1>2. proc' = [q \in Procs |-> IF proc[q].on = c THEN lost(q) ELSE proc[q]]
  BY DEF LoseAnswer
<1> HIDE DEF lost
<1>3. /\ proc' \in [Procs -> ProcRow]
      /\ \A q \in Procs :
           /\ proc'[q].pc = proc[q].pc /\ proc'[q].asg = proc[q].asg
           /\ proc'[q].token = proc[q].token
           /\ proc'[q].on \in Handlers => proc'[q].on = proc[q].on /\ proc[q].on # c
  BY <1>0, <1>1, <1>2
<1>4. ProcsTyped' /\ OneHolder' /\ ConnectionsKept'
  BY <1>3 DEF ProcInv, ProcsTyped, ClaimsTyped, OneHolder, ConnectionsKept, ProcRow, Handlers
<1>5. \A a \in Assignments : asg[a] # Unused => asg'[a] # Unused
  BY StepFrame
<1>6. TokensUsed'
  BY <1>3, <1>5 DEF ProcInv, TokensUsed
<1>7. RequestsServed'
  BY <1>3 DEF ProcInv, RequestsServed, Awaiting
<1>8. ReportsStored'
  BY ReportsKept DEF ProcInv
<1> QED BY <1>4, <1>6, <1>7, <1>8 DEF ProcInv

(* The assignment that a claim has made. *)
LEMMA ClaimMakesOne ==
  ASSUME NEW c \in Callers, CommitClaim(c)
  PROVE  /\ NewAssignment \in Assignments
         /\ asg[NewAssignment] = Unused /\ asg'[NewAssignment] # Unused
<1>1. PICK a \in Assignments :
        /\ asg[a] = Unused
        /\ asg'[a] = [status |-> "assigned", task |-> call[c].task,
                      worker |-> call[c].worker, lapsed |-> FALSE]
  BY DEF CommitClaim
<1>2. asg'[a] # Unused
  <2>1. asg'[a].status = "assigned"
    BY <1>1
  <2> QED BY <2>1 DEF Unused
<1> QED BY <1>1, <1>2 DEF NewAssignment

(* A caller is sent a request while it serves none. *)
LEMMA SentToIdle ==
  ASSUME TypeOK, NEW c \in Callers, NEW r, Begin(c, r)
  PROVE  /\ call[c] = Idle /\ call'[c] = r /\ asg' = asg
         /\ \A d \in Callers \ {c} : call'[d] = call[d]
BY DEF Begin, TypeOK

LEMMA OthersWaitBegin ==
  ASSUME TypeOK, ProcInv, NEW p \in Procs, NEW c \in Callers, NEW r, Begin(c, r)
  PROVE  /\ OthersWait(p)
         /\ \A d \in Handlers : call[d].op \in {"claim", "submit"} => call'[d] = call[d]
BY SentToIdle, CallersKnown DEF OthersWait, ProcInv, RequestsServed, Awaiting, Idle

LEMMA RunningStep ==
  ASSUME TypeOK, [Next]_vars, ProcInv, NEW p \in Procs, Running(p)
  PROVE  ProcInv'
<1>0. /\ proc[p] \in ProcRow /\ proc[p].tries \in Nat /\ proc[p].pc \in {"off", "idle", "leaving", "claim", "work", "submit"}
      /\ proc[p].asg \in {None} \cup Assignments /\ proc[p].token \in BOOLEAN
      /\ proc[p].on \in {None, "lost"} \cup Handlers
  BY DEF ProcInv, ProcsTyped, ProcRow
<1>1. ClaimsTyped
  BY DEF Running, Launch, Leave, Die, BeginCycle, TimeOut, ClaimRefused, ClaimRepeated, Work,
         SubmitRefused, SubmitRepeated, SendClaim, SendHeartbeat, SendSubmit, ClaimsTyped,
         ProcInv, ProcsTyped
<1>2. NewReports
  <2>1. CASE reports' = reports
    BY <2>1 DEF NewReports
  <2>2. CASE SubmitRepeated(p)
    <3>1. proc[p].asg \in Assignments /\ asg[proc[p].asg].status = "completed" /\ asg' = asg
      BY <2>2 DEF SubmitRepeated, Sending, At, Stored, ProcInv, RequestsServed, Awaiting, vars
    <3> QED BY <2>2, <3>1 DEF SubmitRepeated, Report, NewReports
  <2> QED BY <2>1, <2>2
          DEF Running, Launch, Leave, Die, BeginCycle, TimeOut, ClaimRefused, ClaimRepeated, Work,
              SubmitRefused, SendClaim, SendHeartbeat, SendSubmit, Clients
<1>3. CASE UNCHANGED vars
  <2>0. OthersWait(p)
    BY <1>3 DEF OthersWait, vars
  <2>1. CASE Leave(p) \/ Die(p)
    <3>1. proc' = Put(p, Off)
      BY <2>1 DEF Leave, Die
    <3>2. /\ Off \in ProcRow /\ Off.on \notin Handlers /\ Off.token = FALSE
          /\ Off.pc \notin {"work", "submit"}
      BY NoneAssumption DEF Off, Place, ProcRow, Handlers
    <3> QED BY <1>1, <1>2, <2>0, <3>1, <3>2, ProcMoves
  <2>2. CASE ClaimRepeated(p)
    <3> DEFINE row == Place("idle", 0, claimed[Own], FALSE)
    <3>1. claimed[Own] \in {None} \cup Assignments
      BY DEF ProcInv, ProcsTyped
    <3>2. proc' = Put(p, row)
      BY <2>2 DEF ClaimRepeated, WithholdToken
    <3>3. /\ row \in ProcRow /\ row.on \notin Handlers /\ row.token = FALSE
          /\ row.pc \notin {"work", "submit"}
      BY <3>1, NoneAssumption DEF Place, ProcRow, Handlers
    <3> HIDE DEF row
    <3> QED BY <1>1, <1>2, <2>0, <3>2, <3>3, ProcMoves
  <2>3. CASE Launch(p) \/ BeginCycle(p) \/ TimeOut(p) \/ ClaimRefused(p) \/ Work(p)
             \/ SubmitRefused(p) \/ SubmitRepeated(p)
    <3>1. PICK pc \in {"off", "idle", "leaving", "claim", "work", "submit"}, tries \in Nat :
            /\ proc' = Put(p, Place(pc, tries, proc[p].asg, proc[p].token))
            /\ pc \in {"work", "submit"} => proc[p].pc \in {"work", "submit"}
      <4>1. MaxTries \in Nat /\ (proc[p].tries > 0 => proc[p].tries - 1 \in Nat)
        BY <1>0, ClientsAssumption
      <4>2. CASE Launch(p) \/ BeginCycle(p) \/ Work(p)
        BY <4>1, <4>2 DEF Launch, BeginCycle, Work, Go, Ask, At
      <4>3. CASE TimeOut(p)
        BY <1>0, <4>1, <4>3 DEF TimeOut, AskAgain, Go
      <4>4. CASE ClaimRefused(p) \/ SubmitRefused(p) \/ SubmitRepeated(p)
        BY <4>4 DEF ClaimRefused, SubmitRefused, SubmitRepeated, AfterRefusal, Go
      <4> QED BY <2>3, <4>2, <4>3, <4>4
    <3>2. pc \in {"work", "submit"} => proc[p].asg \in Assignments
      BY <3>1 DEF ProcInv, RequestsServed, Awaiting
    <3> QED BY <1>1, <1>2, <2>0, <3>1, <3>2, ProcGoes
  <2>4. ASSUME NEW c \in Handlers, SendClaim(p, c) \/ SendHeartbeat(p, c) \/ SendSubmit(p, c)
        PROVE  FALSE
    <3>1. call'[c] # Idle /\ call[c] = Idle
      BY <2>4, CallersKnown, SentToIdle
         DEF SendClaim, BeginClaim, SendHeartbeat, HeartbeatCall, BeginHeartbeat, SendSubmit,
             BeginSubmit, Idle
    <3> QED BY <1>3, <3>1 DEF vars
  <2> QED BY <2>1, <2>2, <2>3, <2>4 DEF Running
<1>4. ASSUME NEW c \in Handlers, SendHeartbeat(p, c) PROVE ProcInv'
  <2>1. /\ Begin(c, [op |-> "heartbeat", asg |-> proc[p].asg]) /\ proc' = proc
    BY <1>4 DEF SendHeartbeat, HeartbeatCall, BeginHeartbeat
  <2>2. \A d \in Handlers : call[d].op \in {"claim", "submit"} => call'[d] = call[d]
    BY <2>1, CallersKnown, OthersWaitBegin
  <2> QED BY <1>1, <1>2, <2>1, <2>2, ProcsStand
<1>5. ASSUME NEW c \in Handlers, SendClaim(p, c) \/ SendSubmit(p, c) PROVE ProcInv'
  <2> DEFINE row == [proc[p] EXCEPT !.on = c]
             r == IF SendClaim(p, c)
                  THEN [op |-> "claim", task |-> Mine, worker |-> Me, seen |-> task[Mine]]
                  ELSE [op |-> "submit", asg |-> proc[p].asg, task |-> asg[proc[p].asg].task,
                        seen |-> task[asg[proc[p].asg].task]]
  <2>1. Begin(c, r)
    BY <1>5 DEF SendClaim, BeginClaim, SendSubmit, BeginSubmit
  <2>2. \/ proc[p].pc = "claim" /\ r.op = "claim"
        \/ proc[p].pc = "submit" /\ r.op = "submit" /\ r.asg = proc[p].asg
    BY <1>5 DEF SendClaim, SendSubmit, Sending, At
  <2>3. row \in ProcRow /\ row.on = c /\ row.pc = proc[p].pc /\ row.asg = proc[p].asg
        /\ row.token = proc[p].token
    BY <1>0 DEF ProcRow
  <2>4. proc' = Put(p, row)
    BY <1>5 DEF SendClaim, SendSubmit, Put
  <2> HIDE DEF row, r
  <2>5. OthersWait(p) /\ call[c] = Idle /\ call'[c] = r
    BY <2>1, CallersKnown, OthersWaitBegin, SentToIdle
  <2>6. row.pc \in {"work", "submit"} => row.asg \in Assignments
    BY <2>3 DEF ProcInv, RequestsServed, Awaiting
  <2> QED BY <1>1, <1>2, <2>2, <2>3, <2>4, <2>5, <2>6, ProcMoves
<1> QED BY <1>3, <1>4, <1>5
        DEF Running, Launch, Leave, Die, BeginCycle, TimeOut, ClaimRefused, ClaimRepeated, Work,
            SubmitRefused, SubmitRepeated

(* The one process that waits on c, if any does. *)
LEMMA OthersWaitEnd ==
  ASSUME TypeOK, ProcInv, NEW p \in Procs, NEW c \in Handlers, proc[p].on = c,
         Finish(c)
  PROVE  OthersWait(p)
BY CallersKnown DEF OthersWait, ProcInv, ConnectionsKept, Finish, TypeOK

LEMMA ServingStep ==
  ASSUME TypeOK, [Next]_vars, ProcInv, NEW c \in Handlers, Serving(c)
  PROVE  ProcInv'
<1>0. c \in Callers /\ Finish(c) /\ \A d \in Handlers \ {c} : call'[d] = call[d]
  BY CallersKnown DEF Serving, ClaimMade, CommitClaim, SubmitMade, CommitSubmit, RequestFailed,
                      Abandon, Finish, TypeOK
<1>1. CASE ClaimMade(c)
  <2>1. PICK a \in Assignments : /\ a = NewAssignment /\ asg[a] = Unused /\ asg'[a] # Unused
    BY <1>0, <1>1, ClaimMakesOne DEF ClaimMade
  <2>2. claimed' = [claimed EXCEPT ![Own] = a] /\ NewReports
    BY <1>1, <2>1 DEF ClaimMade, Clients, NewReports
  <2>3. ClaimsTyped
    BY <2>1, <2>2 DEF ProcInv, ProcsTyped, ClaimsTyped
  <2>4. CASE LoseAnswer(c)
    BY <1>0, <2>2, <2>3, <2>4, ProcsLose
  <2>5. ASSUME NEW p \in Procs, proc[p].on = c, proc' = Given(p, NewAssignment, TRUE)
        PROVE  ProcInv'
    <3> DEFINE row == Place("work", 0, a, TRUE)
    <3>1. proc' = Put(p, row)
      BY <2>1, <2>5 DEF Given
    <3>2. /\ row \in ProcRow /\ row.on \notin Handlers /\ row.asg = a
      BY <2>1, NoneAssumption DEF Place, ProcRow, Handlers
    <3>3. OthersWait(p)
      BY <1>0, <2>5, OthersWaitEnd
    <3> HIDE DEF row
    <3> QED BY <2>1, <2>2, <2>3, <3>1, <3>2, <3>3, ProcMoves
  <2> QED BY <1>1, <2>4, <2>5 DEF ClaimMade, Answered
<1>2. CASE SubmitMade(c)
  <2>1. ClaimsTyped
    BY <1>2 DEF SubmitMade, ClaimsTyped, ProcInv, ProcsTyped
  <2>2. CASE LoseAnswer(c) /\ UNCHANGED reports
    BY <1>0, <2>1, <2>2, ProcsLose DEF NewReports
  <2>3. ASSUME NEW p \in Procs, proc[p].on = c, proc' = Go(p, "idle"), Report(proc[p].asg)
        PROVE  ProcInv'
    <3>1. call[c].op = "submit" /\ call[c].asg = proc[p].asg
      BY <1>2, <2>3 DEF SubmitMade, CommitSubmit, ProcInv, RequestsServed, Awaiting
    <3>2. proc[p].asg \in Assignments /\ asg[proc[p].asg] \in AssignmentRow
      BY <1>0, <1>2, <3>1, RequestTypes, AssignmentTypes
         DEF SubmitMade, CommitSubmit, StillLeased, Unused
    <3>3. asg'[proc[p].asg].status = "completed"
      BY <1>2, <3>1, <3>2 DEF SubmitMade, CommitSubmit, TypeOK, AssignmentRow
    <3>4. NewReports
      BY <2>3, <3>2, <3>3 DEF Report, NewReports
    <3>5. OthersWait(p)
      BY <1>0, <2>3, OthersWaitEnd
    <3> QED BY <2>1, <2>3, <3>4, <3>5, ProcGoes DEF Go
  <2> QED BY <1>2, <2>2, <2>3 DEF SubmitMade
<1>3. CASE RequestFailed(c)
  <2>1. ClaimsTyped /\ NewReports
    BY <1>3 DEF RequestFailed, Clients, ClaimsTyped, NewReports, ProcInv, ProcsTyped
  <2>2. CASE LoseAnswer(c)
    BY <1>0, <2>1, <2>2, ProcsLose
  <2>3. ASSUME NEW p \in Procs, proc[p].on = c,
               proc' = AfterRefusal(p) \/ (proc[p].tries > 0 /\ proc' = AskAgain(p))
        PROVE  ProcInv'
    <3>0. proc[p] \in ProcRow /\ proc[p].tries \in Nat
          /\ proc[p].pc \in {"off", "idle", "leaving", "claim", "work", "submit"}
      BY DEF ProcInv, ProcsTyped, ProcRow
    <3>1. PICK pc \in {"off", "idle", "leaving", "claim", "work", "submit"}, tries \in Nat :
            /\ proc' = Put(p, Place(pc, tries, proc[p].asg, proc[p].token))
            /\ pc \in {"work", "submit"} => proc[p].pc \in {"work", "submit"}
      <4>1. proc[p].tries > 0 => proc[p].tries - 1 \in Nat
        BY <3>0
      <4> QED BY <2>3, <3>0, <4>1 DEF AfterRefusal, Go, AskAgain
    <3>2. pc \in {"work", "submit"} => proc[p].asg \in Assignments
      BY <3>1 DEF ProcInv, RequestsServed, Awaiting
    <3>3. OthersWait(p)
      BY <1>0, <2>3, OthersWaitEnd
    <3> QED BY <2>1, <3>1, <3>2, <3>3, ProcGoes
  <2> QED BY <1>3, <2>2, <2>3 DEF RequestFailed, Answered
<1> QED BY <1>1, <1>2, <1>3 DEF Serving

(* Supervisors use callers of their own. *)
LEMMA SupervisingStep ==
  ASSUME TypeOK, [Next]_vars, ProcInv, NEW s \in Supervisors, Supervising(s)
  PROVE  ProcInv'
<1>1. proc' = proc /\ NewReports
  BY DEF Supervising, CycleRepeated, PlanCycle, InsertCycle, BeginSupervisedClaim,
         SupervisedClaim, NothingDone, RecordCycle, CycleLost, Clients, NewReports
<1>2. s \in Callers /\ \A c \in Handlers : call'[c] = call[c]
  BY CallersKnown
     DEF Supervising, CycleRepeated, PlanCycle, InsertCycle, BeginSupervisedClaim, BeginClaim,
         Begin, SupervisedClaim, CommitClaim, Finish, NothingDone, RecordCycle, CycleLost,
         vars, TypeOK, Handlers
<1>3. CASE SupervisedClaim(s)
  <2>1. PICK a \in Assignments : a = NewAssignment
    BY <1>2, <1>3, ClaimMakesOne DEF SupervisedClaim
  <2>2. ClaimsTyped
    BY <1>3, <2>1 DEF SupervisedClaim, ClaimsTyped, ProcInv, ProcsTyped
  <2> QED BY <1>1, <1>2, <2>2, ProcsStand
<1>4. CASE claimed' = claimed
  BY <1>1, <1>2, <1>4, ProcsStand
<1> QED BY <1>3, <1>4 DEF Supervising, CycleRepeated, PlanCycle, InsertCycle,
                          BeginSupervisedClaim, NothingDone, RecordCycle, CycleLost

LEMMA ElsewhereStep ==
  ASSUME TypeOK, [Next]_vars, ProcInv, Elsewhere
  PROVE  ProcInv'
<1>1. proc' = proc /\ claimed' = claimed /\ NewReports
  BY DEF Elsewhere, Clients, NewReports
<1>2. ASSUME NEW c \in Handlers, NEW r, Begin(c, r), NEW d \in Handlers,
             call[d].op \in {"claim", "submit"}
      PROVE  call'[d] = call[d]
  BY <1>2, CallersKnown, SentToIdle DEF Idle
<1>3. ASSUME NEW c \in Handlers, Finish(c), call[c].op \notin {"claim", "submit"},
             NEW d \in Handlers, call[d].op \in {"claim", "submit"}
      PROVE  call'[d] = call[d]
  BY <1>3, CallersKnown DEF Finish, TypeOK
<1>4. ASSUME NEW c \in Handlers,
             \/ RegisterCall(c)
             \/ \E s \in WORKER_STATUSES : BeginSetStatus(c, Me, s)
             \/ \E a \in Assignments : BeginRecover(c, a)
             \/ \E move \in TaskMoves : BeginTransition(c, Mine, move)
      PROVE  \E r : Begin(c, r)
  BY <1>4 DEF RegisterCall, BeginRegister, BeginSetStatus, BeginRecover, BeginTransition
<1>5. ASSUME NEW c \in Handlers,
             \/ CommitHeartbeat(c) \/ CommitRecover(c) \/ CommitTransition(c)
             \/ CommitSetStatus(c) \/ CommitRegister(c)
      PROVE  Finish(c) /\ call[c].op \notin {"claim", "submit"}
  BY <1>5 DEF CommitHeartbeat, CommitRecover, CommitTransition, CommitSetStatus, CommitRegister
<1>6. CASE Surroundings
  BY <1>1, <1>6, ProcsStand DEF Surroundings, StartAssignment, LeaseLapses
<1>7. CASE ~Surroundings
  <2>1. \A d \in Handlers : call[d].op \in {"claim", "submit"} => call'[d] = call[d]
    BY <1>2, <1>3, <1>4, <1>5, <1>7 DEF Elsewhere
  <2> QED BY <1>1, <2>1, ProcsStand
<1> QED BY <1>6, <1>7
-----------------------------------------------------------------------------
(***************************************************************************)
(* The cycles of the supervisor.                                           *)
(***************************************************************************)

(* A claim made under a key stays made. *)
ClaimsStay == \A k \in Keys : claimed[k] # None => claimed'[k] # None

LEMMA CyclesStand ==
  ASSUME CycleInv, UNCHANGED <<cycle, sup, told>>, ClaimsStay
  PROVE  CycleInv'
<1>1. CyclesTyped' /\ ToldOfRows'
  BY DEF CycleInv, CyclesTyped, ToldOfRows, SupRow, CycleRow, Resting
<1>2. \A s \in Supervisors : sup[s].pc = "acted" => sup[s].key \in Keys
  BY DEF CycleInv, CyclesTyped, SupRow, Resting
<1>3. CyclesFollowed'
  BY <1>2 DEF CycleInv, CyclesFollowed, ClaimsStay
<1>4. CyclesDone'
  BY DEF CycleInv, CyclesDone, ClaimsStay
<1>5. ToldIsDone'
  BY DEF CycleInv, ToldIsDone, CyclesTyped, ClaimsStay
<1> QED BY <1>1, <1>3, <1>4, <1>5 DEF CycleInv

(* One supervisor goes on, and the rows stay. *)
LEMMA CyclesGo ==
  ASSUME CycleInv, NEW s \in Supervisors, NEW row \in SupRow,
         sup' = [sup EXCEPT ![s] = row], UNCHANGED <<cycle, told>>, ClaimsStay,
         row.pc = "inserted" => cycle[row.key] # None /\ cycle[row.key].action = row.action,
         row.pc = "acted" =>
           /\ cycle[row.key] # None
           /\ row.ok /\ cycle[row.key].action = "CLAIM_TASK" => claimed'[row.key] # None
  PROVE  CycleInv'
<1>1. /\ sup' \in [Supervisors -> SupRow] /\ sup'[s] = row
      /\ \A r \in Supervisors \ {s} : sup'[r] = sup[r]
  BY DEF CycleInv, CyclesTyped
<1>2. CyclesTyped' /\ ToldOfRows'
  BY <1>1 DEF CycleInv, CyclesTyped, ToldOfRows, SupRow, CycleRow, Resting
<1>3. \A r \in Supervisors : sup[r].pc = "acted" => sup[r].key \in Keys
  BY DEF CycleInv, CyclesTyped, SupRow, Resting
<1>4. CyclesFollowed'
  <2> SUFFICES ASSUME NEW r \in Supervisors
               PROVE  LET k == sup'[r].key IN
                      /\ sup'[r].pc = "inserted" =>
                           cycle'[k] # None /\ cycle'[k].action = sup'[r].action
                      /\ sup'[r].pc = "acted" =>
                           /\ cycle'[k] # None
                           /\ sup'[r].ok /\ cycle'[k].action = "CLAIM_TASK" => claimed'[k] # None
    BY DEF CyclesFollowed
  <2>1. CASE r = s
    BY <1>1, <2>1
  <2>2. CASE r # s
    BY <1>1, <1>3, <2>2 DEF CycleInv, CyclesFollowed, ClaimsStay
  <2> QED BY <2>1, <2>2
<1>5. CyclesDone'
  BY DEF CycleInv, CyclesDone, ClaimsStay
<1>6. ToldIsDone'
  BY DEF CycleInv, ToldIsDone, CyclesTyped, ClaimsStay
<1> QED BY <1>2, <1>4, <1>5, <1>6 DEF CycleInv

(* What a supervisor past its plan holds. *)
LEMMA SupTypes ==
  ASSUME CycleInv, NEW s \in Supervisors
  PROVE  /\ sup[s].pc \in {"planned", "inserted"} =>
              /\ sup[s].key \in Keys /\ sup[s].action \in {"CLAIM_TASK", "WAIT"}
              /\ [sup[s] EXCEPT !.pc = "inserted"] \in SupRow
              /\ [sup[s] EXCEPT !.pc = "inserted"].key = sup[s].key
              /\ [sup[s] EXCEPT !.pc = "inserted"].pc = "inserted"
              /\ [sup[s] EXCEPT !.pc = "inserted"].action = sup[s].action
         /\ sup[s].pc = "acted" => sup[s].key \in Keys /\ sup[s].ok \in BOOLEAN
<1>1. sup[s] \in SupRow
  BY DEF CycleInv, CyclesTyped
<1>2. sup[s].pc \in {"planned", "inserted"} =>
        sup[s] \in [pc : {"planned", "inserted"}, key : Keys,
                    action : {"CLAIM_TASK", "WAIT"}, version : Nat]
  BY <1>1 DEF SupRow, Resting
<1>3. sup[s].pc = "acted" => sup[s] \in [pc : {"acted"}, key : Keys, ok : BOOLEAN]
  BY <1>1 DEF SupRow, Resting
<1> QED BY <1>2, <1>3 DEF SupRow

LEMMA PlanCycleStep ==
  ASSUME TypeOK, CycleInv, NEW s \in Supervisors, NEW k \in Keys, PlanCycle(s, k)
  PROVE  CycleInv'
<1> DEFINE row == [pc |-> "planned", key |-> k, action |-> Plan, version |-> Candidate.version]
<1>1. Candidate.version \in Nat
  BY ClientsAssumption DEF Candidate, TypeOK, TaskRow
<1>2. row \in SupRow /\ row.pc = "planned"
  BY <1>1 DEF SupRow, Plan
<1>3. sup' = [sup EXCEPT ![s] = row] /\ UNCHANGED <<cycle, told, claimed>>
  BY DEF PlanCycle
<1> HIDE DEF row
<1> QED BY <1>2, <1>3, CyclesGo DEF ClaimsStay

(* The row is inserted: no supervisor and no answer knew the key. *)
LEMMA InsertCycleStep ==
  ASSUME CycleInv, NEW s \in Supervisors, InsertCycle(s)
  PROVE  CycleInv'
<1> DEFINE k == sup[s].key
           row == [action |-> sup[s].action, result |-> "started"]
<1>0. /\ k \in Keys /\ cycle[k] = None /\ sup[s].pc = "planned"
      /\ sup[s].action \in {"CLAIM_TASK", "WAIT"}
  BY SupTypes DEF InsertCycle, KeyFree
<1>1. row \in CycleRow /\ row # None /\ row.action = sup[s].action /\ row.result = "started"
  BY <1>0, NoneAssumption DEF CycleRow
<1>2. cycle' = [cycle EXCEPT ![k] = row] /\ UNCHANGED <<told, claimed>>
  BY DEF InsertCycle
<1> HIDE DEF row
<1>3. /\ cycle' \in [Keys -> {None} \cup CycleRow] /\ cycle'[k] = row
      /\ \A l \in Keys \ {k} : cycle'[l] = cycle[l]
  BY <1>0, <1>1, <1>2 DEF CycleInv, CyclesTyped
<1> DEFINE new == [sup[s] EXCEPT !.pc = "inserted"]
<1>4. /\ new \in SupRow /\ new.pc = "inserted" /\ new.key = k /\ new.action = sup[s].action
      /\ sup' = [sup EXCEPT ![s] = new]
  BY <1>0, SupTypes DEF InsertCycle
<1> HIDE DEF new
<1>5. /\ sup' \in [Supervisors -> SupRow] /\ sup'[s] = new
      /\ \A r \in Supervisors \ {s} : sup'[r] = sup[r]
  BY <1>4 DEF CycleInv, CyclesTyped
<1>6. CyclesTyped'
  BY <1>2, <1>3, <1>5 DEF CycleInv, CyclesTyped, SupRow, CycleRow, Resting
<1>7. ASSUME NEW r \in Supervisors \ {s}, sup[r].pc \in {"inserted", "acted"}
      PROVE  sup[r].key \in Keys \ {k}
  BY <1>0, <1>7, SupTypes DEF CycleInv, CyclesFollowed
<1>8. CyclesFollowed'
  <2> SUFFICES ASSUME NEW r \in Supervisors
               PROVE  LET l == sup'[r].key IN
                      /\ sup'[r].pc = "inserted" =>
                           cycle'[l] # None /\ cycle'[l].action = sup'[r].action
                      /\ sup'[r].pc = "acted" =>
                           /\ cycle'[l] # None
                           /\ sup'[r].ok /\ cycle'[l].action = "CLAIM_TASK" => claimed'[l] # None
    BY DEF CyclesFollowed
  <2>1. CASE r = s
    BY <1>1, <1>3, <1>4, <1>5, <2>1
  <2>2. CASE r # s
    BY <1>2, <1>3, <1>5, <1>7, <2>2 DEF CycleInv, CyclesFollowed
  <2> QED BY <2>1, <2>2
<1>9. CyclesDone'
  BY <1>1, <1>2, <1>3 DEF CycleInv, CyclesDone
<1>10. \A x \in told : x.key \in Keys \ {k}
  BY <1>0 DEF CycleInv, CyclesTyped, ToldOfRows
<1>11. ToldOfRows' /\ ToldIsDone'
  BY <1>2, <1>3, <1>10 DEF CycleInv, ToldOfRows, ToldIsDone
<1> QED BY <1>6, <1>8, <1>9, <1>11 DEF CycleInv

(* What is told of a row that says success, and of no other, is done. *)
LEMMA TellRow ==
  ASSUME NEW k \in Keys, NEW row \in CycleRow, NEW again \in BOOLEAN, Tell(k, row, again)
  PROVE  \E x \in [key : Keys, ok : BOOLEAN, open : BOOLEAN, again : BOOLEAN] :
           /\ told' = told \cup {x} /\ x.key = k
           /\ x.ok /\ ~x.open => row.result = "success"
<1> DEFINE x == [key |-> k, ok |-> row.result # "failed", open |-> row.result = "started",
                 again |-> again]
<1>1. told' = told \cup {x}
  BY DEF Tell
<1>2. x \in [key : Keys, ok : BOOLEAN, open : BOOLEAN, again : BOOLEAN] /\ x.key = k
  OBVIOUS
<1>3. (x.ok <=> row.result # "failed") /\ (x.open <=> row.result = "started")
  OBVIOUS
<1>4. row.result \in {"started", "success", "failed"}
  BY DEF CycleRow
<1> HIDE DEF x
<1> QED BY <1>1, <1>2, <1>3, <1>4

(* The answer of a repeated call is the row, done when it says so. *)
LEMMA CycleRepeatedStep ==
  ASSUME CycleInv, NEW s \in Supervisors, NEW k \in Keys, CycleRepeated(s, k)
  PROVE  CycleInv'
<1>0. cycle[k] # None /\ cycle[k] \in CycleRow /\ UNCHANGED <<cycle, sup, claimed>>
  BY DEF CycleRepeated, CycleInv, CyclesTyped
<1>1. PICK x \in [key : Keys, ok : BOOLEAN, open : BOOLEAN, again : BOOLEAN] :
        /\ told' = told \cup {x} /\ x.key = k
        /\ x.ok /\ ~x.open => cycle[k].result = "success"
  BY <1>0, TellRow DEF CycleRepeated
<1>2. CyclesTyped' /\ CyclesFollowed' /\ CyclesDone'
  BY <1>0, <1>1 DEF CycleInv, CyclesTyped, CyclesFollowed, CyclesDone, SupRow, CycleRow, Resting
<1>3. ToldOfRows' /\ ToldIsDone'
  BY <1>0, <1>1 DEF CycleInv, ToldOfRows, ToldIsDone, CyclesDone
<1> QED BY <1>2, <1>3 DEF CycleInv

(* The row is closed by what the supervisor has done. *)
LEMMA RecordCycleStep ==
  ASSUME CycleInv, NEW s \in Supervisors, RecordCycle(s)
  PROVE  CycleInv'
<1> DEFINE k == sup[s].key
           row == [cycle[k] EXCEPT !.result = IF sup[s].ok THEN "success" ELSE "failed"]
<1>0. /\ k \in Keys /\ cycle[k] # None /\ cycle[k] \in CycleRow
      /\ (sup[s].ok /\ cycle[k].action = "CLAIM_TASK" => claimed[k] # None)
      /\ sup[s].ok \in BOOLEAN
  BY SupTypes DEF RecordCycle, CycleInv, CyclesTyped, CyclesFollowed
<1>1. /\ row \in CycleRow /\ row # None /\ row.action = cycle[k].action
      /\ (row.result = "success" => sup[s].ok)
  BY <1>0, NoneAssumption DEF CycleRow
<1>2. /\ cycle' = [cycle EXCEPT ![k] = row] /\ claimed' = claimed
      /\ Tell(k, row, FALSE) /\ sup' = [sup EXCEPT ![s] = Resting]
  BY DEF RecordCycle
<1> HIDE DEF row
<1>3. /\ cycle' \in [Keys -> {None} \cup CycleRow] /\ cycle'[k] = row
      /\ \A l \in Keys \ {k} : cycle'[l] = cycle[l]
  BY <1>0, <1>1, <1>2 DEF CycleInv, CyclesTyped
<1>4. /\ sup' \in [Supervisors -> SupRow] /\ sup'[s] = Resting
      /\ \A r \in Supervisors \ {s} : sup'[r] = sup[r]
  BY <1>2 DEF CycleInv, CyclesTyped, SupRow
<1>5. PICK x \in [key : Keys, ok : BOOLEAN, open : BOOLEAN, again : BOOLEAN] :
        /\ told' = told \cup {x} /\ x.key = k
        /\ x.ok /\ ~x.open => row.result = "success"
  BY <1>0, <1>1, <1>2, TellRow
<1>6. \A l \in Keys : cycle[l] # None => cycle'[l] # None /\ cycle'[l].action = cycle[l].action
  BY <1>1, <1>3
<1>7. CyclesTyped'
  BY <1>3, <1>4, <1>5 DEF CycleInv, CyclesTyped, SupRow, CycleRow, Resting
<1>8. CyclesFollowed'
  <2> SUFFICES ASSUME NEW r \in Supervisors
               PROVE  LET l == sup'[r].key IN
                      /\ sup'[r].pc = "inserted" =>
                           cycle'[l] # None /\ cycle'[l].action = sup'[r].action
                      /\ sup'[r].pc = "acted" =>
                           /\ cycle'[l] # None
                           /\ sup'[r].ok /\ cycle'[l].action = "CLAIM_TASK" => claimed'[l] # None
    BY DEF CyclesFollowed
  <2>1. CASE r = s
    BY <1>4, <2>1 DEF Resting
  <2>2. CASE r # s
    <3>1. sup[r].pc \in {"inserted", "acted"} => sup[r].key \in Keys
      BY SupTypes
    <3> QED BY <1>2, <1>4, <1>6, <2>2, <3>1 DEF CycleInv, CyclesFollowed
  <2> QED BY <2>1, <2>2
<1>9. CyclesDone'
  BY <1>0, <1>1, <1>2, <1>3 DEF CycleInv, CyclesDone
<1>10. \A y \in told : y.key \in Keys /\ cycle[y.key] # None
  BY DEF CycleInv, CyclesTyped, ToldOfRows
<1>11. ToldOfRows' /\ ToldIsDone'
  BY <1>0, <1>1, <1>2, <1>3, <1>5, <1>6, <1>10 DEF CycleInv, ToldOfRows, ToldIsDone
<1> QED BY <1>7, <1>8, <1>9, <1>11 DEF CycleInv

(* What is claimed for the cycle is claimed under its key. *)
LEMMA SupervisedClaimStep ==
  ASSUME ProcsTyped, CycleInv, NEW s \in Supervisors, SupervisedClaim(s)
  PROVE  CycleInv'
<1> DEFINE k == sup[s].key
           row == [pc |-> "acted", key |-> k, ok |-> TRUE]
<1>0. k \in Keys /\ cycle[k] # None
  BY SupTypes DEF SupervisedClaim, CycleInv, CyclesFollowed
<1>1. row \in SupRow /\ row.pc = "acted" /\ row.key = k
  BY <1>0 DEF SupRow
<1>2. sup' = [sup EXCEPT ![s] = row] /\ UNCHANGED <<cycle, told>>
  BY DEF SupervisedClaim, Acted
<1> HIDE DEF row
<1>3. PICK a \in Assignments : a = NewAssignment
  BY CallersKnown, ClaimMakesOne DEF SupervisedClaim
<1>4. claimed' = [claimed EXCEPT ![k] = a] /\ a # None
  BY <1>3, NoneAssumption DEF SupervisedClaim
<1>5. ClaimsStay /\ claimed'[k] # None
  BY <1>0, <1>4 DEF ProcsTyped, ClaimsStay
<1> QED BY <1>0, <1>1, <1>2, <1>5, CyclesGo

LEMMA NothingDoneStep ==
  ASSUME CycleInv, NEW s \in Supervisors, NothingDone(s)
  PROVE  CycleInv'
<1> DEFINE ok == sup[s].action # "CLAIM_TASK"
           row == [pc |-> "acted", key |-> sup[s].key, ok |-> ok]
<1>0. /\ sup[s].key \in Keys /\ cycle[sup[s].key] # None
      /\ cycle[sup[s].key].action = sup[s].action
  BY SupTypes DEF NothingDone, CycleInv, CyclesFollowed
<1>1. row \in SupRow /\ row.pc = "acted" /\ row.key = sup[s].key /\ row.ok = ok
  BY <1>0 DEF SupRow
<1>2. sup' = [sup EXCEPT ![s] = row] /\ UNCHANGED <<cycle, told, claimed>>
  BY DEF NothingDone, Acted
<1> HIDE DEF row
<1> QED BY <1>0, <1>1, <1>2, CyclesGo DEF ClaimsStay

(* Every step keeps the rows, the cycles in flight and the answers in line. *)
LEMMA CycleStep ==
  ASSUME TypeOK, ProcsTyped, CycleInv, [AgentNext]_agentVars
  PROVE  CycleInv'
<1>1. ASSUME NEW p \in Procs, Running(p) PROVE CycleInv'
  <2>1. UNCHANGED <<cycle, sup, told, claimed>>
    BY <1>1 DEF Running, Launch, Leave, Die, BeginCycle, TimeOut, ClaimRefused, ClaimRepeated,
                Work, SubmitRefused, SubmitRepeated, SendClaim, SendHeartbeat, SendSubmit,
                Clients, Supervision
  <2> QED BY <2>1, CyclesStand DEF ClaimsStay
<1>2. ASSUME NEW c \in Handlers, Serving(c) PROVE CycleInv'
  <2>1. UNCHANGED <<cycle, sup, told>>
    BY <1>2 DEF Serving, ClaimMade, SubmitMade, RequestFailed, Clients, Supervision
  <2>2. CASE ClaimMade(c)
    <3>1. PICK a \in Assignments : a = NewAssignment
      BY <2>2, CallersKnown, ClaimMakesOne DEF ClaimMade
    <3>2. claimed' = [claimed EXCEPT ![Own] = a] /\ a # None
      BY <2>2, <3>1, NoneAssumption DEF ClaimMade
    <3>3. ClaimsStay
      BY <3>2 DEF ProcsTyped, ClaimsStay
    <3> QED BY <2>1, <3>3, CyclesStand
  <2>3. CASE claimed' = claimed
    BY <2>1, <2>3, CyclesStand DEF ClaimsStay
  <2> QED BY <1>2, <2>2, <2>3 DEF Serving, SubmitMade, RequestFailed
<1>3. ASSUME NEW s \in Supervisors, Supervising(s) PROVE CycleInv'
  <2>1. CASE BeginSupervisedClaim(s)
    <3>1. UNCHANGED <<cycle, sup, told, claimed>>
      BY <2>1 DEF BeginSupervisedClaim, Clients
    <3> QED BY <3>1, CyclesStand DEF ClaimsStay
  <2>2. CASE CycleLost(s)
    <3>1. /\ sup' = [sup EXCEPT ![s] = Resting] /\ UNCHANGED <<cycle, told, claimed>>
      BY <2>2 DEF CycleLost
    <3>2. Resting \in SupRow /\ Resting.pc \notin {"inserted", "acted"}
      BY DEF SupRow, Resting
    <3> QED BY <3>1, <3>2, CyclesGo DEF ClaimsStay
  <2> QED BY <1>3, <2>1, <2>2, PlanCycleStep, InsertCycleStep, CycleRepeatedStep, RecordCycleStep,
             SupervisedClaimStep, NothingDoneStep DEF Supervising
<1>4. CASE Elsewhere
  BY <1>4, CyclesStand DEF Elsewhere, Clients, ClaimsStay
<1>5. CASE UNCHANGED agentVars
  BY <1>5, CyclesStand DEF agentVars, ClaimsStay
<1> QED BY <1>1, <1>2, <1>3, <1>4, <1>5 DEF AgentNext
-----------------------------------------------------------------------------
AgentInv == IInv /\ ProcInv /\ CycleInv

LEMMA AgentFirst == AgentInit => AgentInv
<1> SUFFICES ASSUME AgentInit PROVE AgentInv
  OBVIOUS
<1>1. IInv
  BY InductiveInit DEF AgentInit
<1>2. Off \in ProcRow /\ Off.on \notin Handlers /\ Off.token = FALSE
      /\ Off.pc \notin {"work", "submit"}
  BY NoneAssumption DEF Off, Place, ProcRow, Handlers
<1>3. \A p \in Procs : proc[p] = Off
  BY DEF AgentInit
<1>4. ProcInv
  BY <1>2, <1>3 DEF AgentInit, ProcInv, ProcsTyped, TokensUsed, RequestsServed, Awaiting,
                    ConnectionsKept, OneHolder, ReportsStored
<1>5. CycleInv
  BY DEF AgentInit, CycleInv, CyclesTyped, CyclesFollowed, CyclesDone, ToldOfRows, ToldIsDone,
         SupRow, Resting
<1> QED BY <1>1, <1>4, <1>5 DEF AgentInv

LEMMA AgentStep == AgentInv /\ [AgentNext]_agentVars => AgentInv' /\ [Next]_vars
<1> SUFFICES ASSUME AgentInv, [AgentNext]_agentVars PROVE AgentInv' /\ [Next]_vars
  OBVIOUS
<1>1. TypeOK /\ ProcInv /\ ProcsTyped /\ CycleInv /\ IInv
  BY DEF AgentInv, IInv, ProcInv
<1>2. [Next]_vars
  BY <1>1, ClientStep DEF ProcInv
<1>3. IInv'
  BY <1>1, <1>2, TypeStep, CallsCheckedStep, SnapshotStep, OneActiveStep, TaskHeldStep DEF IInv
<1>4. CycleInv'
  BY <1>1, CycleStep
<1>5. ProcInv'
  <2>1. CASE UNCHANGED agentVars
    BY <1>1, <1>2, <2>1, ProcsStand DEF agentVars, vars, NewReports
  <2> QED BY <1>1, <1>2, <2>1, RunningStep, ServingStep, SupervisingStep, ElsewhereStep
          DEF AgentNext
<1> QED BY <1>2, <1>3, <1>4, <1>5 DEF AgentInv

(* The leases, connections, rows and reports of the clients agree with the
   tables of the control plane in every reachable state. *)
THEOREM ClientsHeld == AgentSpec => []AgentInv
BY AgentFirst, AgentStep, PTL DEF AgentSpec

(* However often the claim is sent, by however many processes, no two of them
   are given one lease. *)
THEOREM LeaseHasOneHolder == AgentSpec => []OneHolder
<1>1. AgentInv => OneHolder
  BY DEF AgentInv, ProcInv
<1> QED BY ClientsHeld, <1>1, PTL

(* A submission that is reported is stored, whichever of its sendings was
   answered. *)
THEOREM ReportsAreStored == AgentSpec => []ReportedIsStored
<1>1. AgentInv => ReportedIsStored
  BY DEF AgentInv, ProcInv, ReportsStored, ReportedIsStored
<1> QED BY ClientsHeld, <1>1, PTL

(* A cycle told as done has claimed what it planned to claim, for any keys,
   supervisors and repeated calls, unless the answer was read from a row that
   a crash, or a cycle still at work, had left 'started'. *)
THEOREM CyclesToldAreDone == AgentSpec => []ToldIsDone
<1>1. AgentInv => ToldIsDone
  BY DEF AgentInv, CycleInv
<1> QED BY ClientsHeld, <1>1, PTL

(* Runtimes and supervisors, with their retries and what they give up, are
   callers that ControlPlane knows: every step of theirs is one of its own. *)
THEOREM ClientsAreCallers == AgentSpec => Spec
<1>1. AgentInit => Init
  BY DEF AgentInit
<1> QED BY ClientsHeld, AgentStep, <1>1, PTL DEF AgentSpec, Spec

(* So what is proved of ControlPlane holds of it under these clients: a task
   has one active assignment, and a result comes from its single holder. *)
THEOREM ClientsKeepOneActive == AgentSpec => []OneActivePerTask /\ ResultFenced
BY ClientsAreCallers, NoDoubleAssignment, ResultsFenced, PTL
=============================================================================
