--------------------------- MODULE RunLoop_proofs ---------------------------
(***************************************************************************)
(* Proofs of what the run loop promises, for any number of tasks,          *)
(* projects, approvals, runs, leases that expire, failed steps, restarts,  *)
(* and any budget.                                                         *)
(*                                                                         *)
(* OneLoopPerProject says nothing of the rows, and is not inductive: a     *)
(* thread whose row has become terminal would not be seen by a start().    *)
(* What holds it up is that a live thread always has an active row         *)
(* (AliveIsActive), and that two rows of a project are never active,       *)
(* which the partial index gives (OneActiveRun).                           *)
(*                                                                         *)
(* LeaseOnlyWhileWorked is inductive once a thread is known to leave the   *)
(* jobs of the others alone (Bystanders).  BudgetHeld needs what the loop  *)
(* has seen when it decides: BudgetInv ties the copy to the row at every   *)
(* step.  ExecutionIsApproved needs the path of an approval from the       *)
(* worker that selects it to the scope the controller remembers            *)
(* (ApprovedInv), which is only right while the one loop alive is the one  *)
(* the controller serves (LoneLoop).                                       *)
(***************************************************************************)
EXTENDS RunLoop, FiniteSetTheorems, TLAPS

Rows == {NoRun} \cup
  [status : Active \cup Terminal, project : Projects, total : Nat, failed : Nat]

Steps == LoopSteps \cup WorkSteps \cup {Gone}

Fields == {"run", "stop", "pause", "consumed", "scope", "counted"}

(* As much of the types as the argument needs: the rows, the threads, and
   that the controller and a stop() in progress point at rows that exist. *)
RowsOK == run \in [Runs -> Rows]
ThreadsOK == pc \in [Workers -> Steps]
ControllerOK ==
  /\ DOMAIN ctl = Fields
  /\ ctl.run = 0 \/ (ctl.run \in Runs /\ Created(ctl.run))
StopOK ==
  /\ stopping \in [run : Runs \cup {0}, step : {"none", "write", "signal"}]
  /\ stopping.step # "none" => stopping.run \in Runs /\ Created(stopping.run)

AliveIsActive == \A r \in Runs : Alive(r) => run[r].status \in Active

OneActiveRun == \A q, r \in Runs :
  /\ run[q].status \in Active /\ run[r].status \in Active
  /\ run[q].project = run[r].project
  => q = r

RunInv ==
  /\ RowsOK /\ ThreadsOK /\ ControllerOK /\ StopOK
  /\ AliveIsActive /\ OneActiveRun

USE BoundsAssumption
-----------------------------------------------------------------------------
(* The names of statuses and steps, and the places of rows and threads. *)
LEMMA Names ==
  /\ Active \cap Terminal = {} /\ "none" \notin Active \cup Terminal
  /\ Runs \subseteq Workers /\ Solo \notin Runs /\ Solo \in Workers
  /\ \A s \in LoopSteps \cup WorkSteps : s \in Steps /\ s # Gone
BY DEF Active, Terminal, Runs, Workers, Solo, LoopSteps, WorkSteps, Steps, Gone

(* A row that exists has its project, and keeps it when it changes. *)
LEMMA CreatedRow ==
  ASSUME RowsOK, NEW r \in Runs, Created(r)
  PROVE  run[r] \in [status : Active \cup Terminal, project : Projects,
                     total : Nat, failed : Nat]
BY DEF RowsOK, Rows, NoRun, Created

LEMMA ActiveIsCreated ==
  ASSUME NEW r \in Runs, run[r].status \in Active
  PROVE  Created(r)
BY Names DEF Created

LEMMA AliveIsCreated ==
  ASSUME AliveIsActive, NEW r \in Runs, Alive(r)
  PROVE  Created(r)
BY ActiveIsCreated DEF AliveIsActive

(* The store writes a status: only that row changes, no row disappears, and
   an index that refuses leaves everything as it was. *)
LEMMA StatusWritten ==
  ASSUME RowsOK, OneActiveRun, NEW r \in Runs, Created(r),
         NEW s \in Active \cup Terminal
  PROVE  /\ WithStatus(r, s) \in [Runs -> Rows]
         /\ \A q \in Runs : Created(q) => WithStatus(r, s)[q].status # "none"
         /\ \A q \in Runs : WithStatus(r, s)[q].project = run[q].project
         /\ \A q \in Runs : /\ WithStatus(r, s)[q].total = run[q].total
                            /\ WithStatus(r, s)[q].failed = run[q].failed
         /\ \A q \in Runs \ {r} : WithStatus(r, s)[q] = run[q]
         /\ WithStatus(r, s)[r].status \in {run[r].status, s}
         /\ \A p, q \in Runs :
              /\ WithStatus(r, s)[p].status \in Active
              /\ WithStatus(r, s)[q].status \in Active
              /\ WithStatus(r, s)[p].project = WithStatus(r, s)[q].project
              => p = q
<1> DEFINE new == WithStatus(r, s)
<1>1. CASE RefusedByIndex(r, s)
  <2>1. new = run
    BY <1>1 DEF WithStatus
  <2> QED
    BY <2>1 DEF RowsOK, OneActiveRun, Created
<1>2. CASE ~RefusedByIndex(r, s)
  <2>1. new = [run EXCEPT ![r].status = s]
    BY <1>2 DEF WithStatus
  <2>2. run[r] \in [status : Active \cup Terminal, project : Projects,
                    total : Nat, failed : Nat]
    BY CreatedRow
  <2>3. /\ new[r].status = s /\ new[r].project = run[r].project
        /\ new[r].total = run[r].total /\ new[r].failed = run[r].failed
        /\ new[r] \in Rows
        /\ \A q \in Runs \ {r} : new[q] = run[q]
    BY <2>1, <2>2 DEF RowsOK, Rows
  <2>4. new \in [Runs -> Rows]
    BY <2>1, <2>3 DEF RowsOK
  <2>5. ASSUME NEW q \in Runs \ {r}, s \in Active, run[q].status \in Active
        PROVE  run[q].project # run[r].project
    BY <1>2, <2>5 DEF RefusedByIndex, ActiveRuns
  <2>6. \A p, q \in Runs :
          /\ new[p].status \in Active /\ new[q].status \in Active
          /\ new[p].project = new[q].project
          => p = q
    BY <2>3, <2>5 DEF OneActiveRun
  <2>7. \A q \in Runs : Created(q) => new[q].status # "none"
    BY <2>3, Names DEF Created
  <2> QED
    BY <2>3, <2>4, <2>6, <2>7
<1> QED
  BY <1>1, <1>2

(* A step that leaves the rows alone, and wakes no thread. *)
LEMMA RowsKept ==
  ASSUME RunInv, run' = run, ThreadsOK', ControllerOK', StopOK',
         \A r \in Runs : Alive(r)' => Alive(r)
  PROVE  RunInv'
BY DEF RunInv, RowsOK, AliveIsActive, OneActiveRun

(* What survives in the controller and in stop() when no row disappears. *)
LEMMA PointersKept ==
  ASSUME ControllerOK, StopOK, DOMAIN ctl' = Fields, ctl'.run = ctl.run,
         UNCHANGED stopping,
         \A q \in Runs : Created(q) => Created(q)'
  PROVE  ControllerOK' /\ StopOK'
BY DEF ControllerOK, StopOK
-----------------------------------------------------------------------------
(* A thread moves from one step to another, or ends, and leaves the rows. *)
LEMMA ThreadMoves ==
  ASSUME RunInv, UNCHANGED <<run, stopping>>,
         DOMAIN ctl' = Fields, ctl'.run = ctl.run,
         NEW w \in Workers, NEW step \in Steps, pc' = [pc EXCEPT ![w] = step],
         Alive(w) \/ w = Solo
  PROVE  RunInv'
<1>1. ThreadsOK'
  BY DEF RunInv, ThreadsOK
<1>2. \A q \in Runs : Created(q) => Created(q)'
  BY DEF Created
<1>3. ControllerOK' /\ StopOK'
  BY <1>2, PointersKept DEF RunInv
<1>4. \A r \in Runs : Alive(r)' => Alive(r)
  BY Names DEF RunInv, ThreadsOK, Alive
<1> QED
  BY <1>1, <1>3, <1>4, RowsKept

(* A row is given a status while the thread of run r moves: an active one, or
   any when the thread ends. *)
LEMMA StatusMoves ==
  ASSUME RunInv, UNCHANGED stopping,
         DOMAIN ctl' = Fields, ctl'.run = ctl.run,
         NEW r \in Runs, Alive(r), NEW s \in Active \cup Terminal,
         run' = WithStatus(r, s),
         NEW step \in Steps, pc' = [pc EXCEPT ![r] = step],
         s \in Active \/ step = Gone
  PROVE  RunInv'
<1>1. Created(r) /\ run[r].status \in Active
  BY AliveIsCreated DEF RunInv, AliveIsActive
<1>2. RowsOK' /\ OneActiveRun'
  BY <1>1, StatusWritten DEF RunInv, RowsOK, OneActiveRun
<1>3. \A q \in Runs : Created(q) => Created(q)'
  BY <1>1, StatusWritten DEF RunInv, Created
<1>4. ControllerOK' /\ StopOK'
  BY <1>3, PointersKept DEF RunInv
<1>5. ThreadsOK'
  BY Names DEF RunInv, ThreadsOK
<1>6. ASSUME NEW q \in Runs, Alive(q)' PROVE run'[q].status \in Active
  <2>1. CASE q = r
    <3>1. step # Gone
      BY <1>6, <2>1, Names DEF RunInv, ThreadsOK, Alive
    <3> QED
      BY <1>1, <2>1, <3>1, StatusWritten DEF RunInv
  <2>2. CASE q # r
    <3>1. Alive(q)
      BY <1>6, <2>2, Names DEF RunInv, ThreadsOK, Alive
    <3>2. run'[q] = run[q]
      BY <1>1, <2>2, StatusWritten DEF RunInv
    <3> QED
      BY <3>1, <3>2 DEF RunInv, AliveIsActive
  <2> QED
    BY <2>1, <2>2
<1> QED
  BY <1>2, <1>4, <1>5, <1>6 DEF RunInv, AliveIsActive

(* An endpoint writes an active status into a row that exists: a live thread
   still has an active row. *)
LEMMA EndpointWrites ==
  ASSUME RunInv, UNCHANGED pc, NEW r \in Runs, Created(r),
         NEW s \in Active, run' = WithStatus(r, s),
         DOMAIN ctl' = Fields, ctl'.run = ctl.run,
         stopping' \in [run : Runs \cup {0}, step : {"none", "write", "signal"}],
         stopping'.step # "none" => stopping'.run = r
  PROVE  RunInv'
<1>1. RowsOK' /\ OneActiveRun'
  BY StatusWritten DEF RunInv, RowsOK, OneActiveRun
<1>2. \A q \in Runs : Created(q) => Created(q)'
  BY StatusWritten DEF RunInv, Created
<1>3. ControllerOK' /\ StopOK'
  BY <1>2 DEF RunInv, ControllerOK, StopOK
<1>4. ASSUME NEW q \in Runs, Alive(q)' PROVE run'[q].status \in Active
  <2>1. Alive(q) /\ run[q].status \in Active
    BY <1>4 DEF RunInv, AliveIsActive, Alive
  <2> QED
    BY <2>1, StatusWritten DEF RunInv
<1> QED
  BY <1>1, <1>3, <1>4 DEF RunInv, AliveIsActive, ThreadsOK

(* A counter of a row goes up while the thread of the run moves. *)
LEMMA CounterMoves ==
  ASSUME RunInv, UNCHANGED stopping,
         DOMAIN ctl' = Fields, ctl'.run = ctl.run,
         NEW r \in Runs, Alive(r), run' = CountFailure(r),
         NEW step \in Steps, pc' = [pc EXCEPT ![r] = step]
  PROVE  RunInv'
<1>1. /\ run[r] \in [status : Active \cup Terminal, project : Projects,
                     total : Nat, failed : Nat]
      /\ run[r].status \in Active
  BY AliveIsCreated, CreatedRow DEF RunInv, AliveIsActive
<1>2. /\ run' \in [Runs -> Rows]
      /\ \A q \in Runs : /\ run'[q].status = run[q].status
                         /\ Created(q) => run'[q].project = run[q].project
  BY <1>1 DEF RunInv, RowsOK, Rows, CountFailure, Created
<1>3. RowsOK' /\ OneActiveRun'
  BY <1>2, ActiveIsCreated DEF RunInv, RowsOK, OneActiveRun
<1>4. ControllerOK' /\ StopOK'
  BY <1>2, PointersKept DEF RunInv, Created
<1>5. ThreadsOK' /\ \A q \in Runs : Alive(q)' => Alive(q)
  BY Names DEF RunInv, ThreadsOK, Alive
<1> QED
  BY <1>2, <1>3, <1>4, <1>5 DEF RunInv, AliveIsActive
-----------------------------------------------------------------------------
(* The steps of a worker: they move its thread and leave the rows. *)
LEMMA WorkerSteps ==
  ASSUME RunInv, NEW w \in Workers, WorkerStep(w)
  PROVE  RunInv'
<1> USE Names DEF WorkSteps, LoopSteps, Steps, Gone, Goto, End
<1>0. DOMAIN ctl = Fields
  BY DEF RunInv, ControllerOK
<1>1. CASE Claim(w)
  <2>1. \E step \in Steps : pc' = [pc EXCEPT ![w] = step]
    BY <1>1 DEF Claim
  <2> QED
    BY <1>0, <1>1, <2>1, ThreadMoves DEF Claim, Alive
<1>2. CASE Execute(w)
  BY <1>0, <1>2, ThreadMoves DEF Execute, Alive
<1>3. CASE FinalizeRelease(w)
  BY <1>0, <1>3, ThreadMoves DEF FinalizeRelease, Alive
<1>4. CASE FinalizeTask(w)
  <2>1. \E step \in Steps : pc' = [pc EXCEPT ![w] = step]
    BY <1>4 DEF FinalizeTask
  <2> QED
    BY <1>0, <1>4, <2>1, ThreadMoves DEF FinalizeTask, Alive
<1> QED
  BY <1>1, <1>2, <1>3, <1>4 DEF WorkerStep

(* Taking a task writes the status and counts the task in one step. *)
LEMMA ScanStep ==
  ASSUME RunInv, NEW r \in Runs, Scan(r)
  PROVE  RunInv'
<1> USE Names DEF Scan, Goto
<1>0. /\ DOMAIN ctl = Fields /\ Alive(r)
      /\ {"idle", "claim"} \subseteq Steps
  BY DEF RunInv, ControllerOK, Alive, Gone, Steps, LoopSteps, WorkSteps
<1>1. CASE pc' = [pc EXCEPT ![r] = "idle"] /\ UNCHANGED run
  BY <1>0, <1>1, ThreadMoves
<1>2. CASE /\ pc' = [pc EXCEPT ![r] = "claim"]
           /\ run' = [WithStatus(r, "executing") EXCEPT ![r].total = @ + 1]
  <2> DEFINE mid == WithStatus(r, "executing")
  <2>1. Created(r) /\ run[r].status \in Active /\ "executing" \in Active
    BY <1>0, AliveIsCreated DEF RunInv, AliveIsActive, Active
  <2>2. /\ mid \in [Runs -> Rows]
        /\ mid[r].status \in Active
        /\ \A q \in Runs : Created(q) => mid[q].status # "none"
        /\ \A q \in Runs \ {r} : mid[q] = run[q]
        /\ \A p, q \in Runs :
             /\ mid[p].status \in Active /\ mid[q].status \in Active
             /\ mid[p].project = mid[q].project
             => p = q
    BY <2>1, StatusWritten DEF RunInv
  <2>3. mid[r] \in [status : Active \cup Terminal, project : Projects,
                   total : Nat, failed : Nat]
    BY <2>2 DEF Rows, NoRun
  <2> HIDE DEF mid
  <2>4. run' = [mid EXCEPT ![r].total = @ + 1]
    BY <1>2 DEF mid
  <2>5. /\ run' \in [Runs -> Rows]
        /\ run'[r].status = mid[r].status /\ run'[r].project = mid[r].project
        /\ \A q \in Runs \ {r} : run'[q] = mid[q]
    BY <2>2, <2>3, <2>4 DEF Rows
  <2>6. RowsOK' /\ OneActiveRun'
    BY <2>2, <2>5 DEF RowsOK, OneActiveRun
  <2>7. ControllerOK' /\ StopOK'
    BY <2>2, <2>5, PointersKept DEF RunInv, ControllerOK, Created
  <2>8. ThreadsOK' /\ \A q \in Runs : Alive(q)' => Alive(q)
    BY <1>0, <1>2 DEF RunInv, ThreadsOK, Alive
  <2>9. AliveIsActive'
    BY <2>2, <2>5, <2>8 DEF RunInv, AliveIsActive
  <2> QED
    BY <2>6, <2>7, <2>8, <2>9 DEF RunInv
<1> QED
  BY <1>1, <1>2

(* The steps of a loop thread. *)
LEMMA LoopThreadSteps ==
  ASSUME RunInv, NEW r \in Runs, LoopStep(r)
  PROVE  RunInv'
<1> USE Names DEF Goto, End, SetStatus, Gone
<1>0. /\ DOMAIN ctl = Fields
      /\ r \in Workers /\ r # Solo
      /\ {"top", "waiting", "leaving", "scan", "idle", "denied", "spend",
          "execute", "account", Gone} \subseteq Steps
      /\ {"scanning", "paused"} \subseteq Active
      /\ {"completed", "blocked", "failed"} \subseteq Terminal
  BY DEF RunInv, ControllerOK, Steps, LoopSteps, WorkSteps, Active, Terminal
<1>1. CASE Boot(r)
  BY <1>0, <1>1, StatusMoves DEF Boot, Alive
<1>2. CASE TopLeave(r)
  BY <1>0, <1>2, ThreadMoves DEF TopLeave, Alive
<1>3. CASE TopPause(r)
  BY <1>0, <1>3, StatusMoves DEF TopPause, Alive
<1>4. CASE TopBudget(r)
  BY <1>0, <1>4, StatusMoves DEF TopBudget, Alive
<1>5. CASE TopScan(r)
  BY <1>0, <1>5, StatusMoves DEF TopScan, Alive
<1>6. CASE Wait(r)
  <2>1. CASE pc' = [pc EXCEPT ![r] = "leaving"] /\ UNCHANGED run
    BY <1>0, <1>6, <2>1, ThreadMoves DEF Wait, Alive
  <2>2. CASE pc' = [pc EXCEPT ![r] = "top"] /\ run' = WithStatus(r, "scanning")
    BY <1>0, <1>6, <2>2, StatusMoves DEF Wait, Alive
  <2> QED
    BY <1>6, <2>1, <2>2 DEF Wait
<1>7. CASE Leave(r)
  <2>1. CASE run' = WithStatus(r, "completed")
    BY <1>0, <1>7, <2>1, StatusMoves DEF Leave, Alive
  <2>2. CASE UNCHANGED run
    BY <1>0, <1>7, <2>2, ThreadMoves DEF Leave, Alive
  <2> QED
    BY <1>7, <2>1, <2>2 DEF Leave
<1>8. CASE Scan(r)
  BY <1>8, ScanStep
<1>9. CASE HandleNoRunnable(r)
  <2>1. \E s \in Terminal : run' = WithStatus(r, s)
    BY <1>0, <1>9 DEF HandleNoRunnable
  <2> QED
    BY <1>0, <1>9, <2>1, StatusMoves DEF HandleNoRunnable, Alive
<1>10. CASE ConsumeSelect(r)
  <2>1. \E step \in Steps : pc' = [pc EXCEPT ![r] = step]
    BY <1>0, <1>10 DEF ConsumeSelect
  <2> QED
    BY <1>0, <1>10, <2>1, ThreadMoves DEF ConsumeSelect, Alive
<1>11. CASE ConsumeUpdate(r)
  <2>1. \E step \in Steps : pc' = [pc EXCEPT ![r] = step]
    BY <1>0, <1>11 DEF ConsumeUpdate
  <2> QED
    BY <1>0, <1>11, <2>1, ThreadMoves DEF ConsumeUpdate, Alive
<1>12. CASE Denied(r)
  BY <1>0, <1>12, StatusMoves DEF Denied, Alive
<1>13. CASE FinalizeStats(r)
  <2>1. run' = run \/ run' = CountFailure(r)
    BY <1>13 DEF FinalizeStats
  <2> QED
    BY <1>0, <1>13, <2>1, ThreadMoves, CounterMoves DEF FinalizeStats, Alive
<1>14. CASE Account(r)
  <2>1. run' = run \/ run' = CountFailure(r)
    BY <1>14 DEF Account
  <2>2. DOMAIN ctl' = Fields /\ ctl'.run = ctl.run
    BY <1>0, <1>14 DEF Account, Remembered, Fields
  <2> QED
    BY <1>0, <1>14, <2>1, <2>2, ThreadMoves, CounterMoves DEF Account, Alive
<1>15. CASE LoopFails(r)
  BY <1>0, <1>15, StatusMoves, Names DEF LoopFails, Alive
<1> QED
  BY <1>1, <1>2, <1>3, <1>4, <1>5, <1>6, <1>7, <1>8, <1>9, <1>10, <1>11,
     <1>12, <1>13, <1>14, <1>15 DEF LoopStep
-----------------------------------------------------------------------------
(* start(): the one step that adds an active row, and it looks first. *)
LEMMA StartStep ==
  ASSUME RunInv, NEW p \in Projects, Start(p)
  PROVE  RunInv'
<1>1. PICK r \in Runs :
        /\ \A q \in Runs : Created(q) <=> q < r
        /\ run' = [run EXCEPT ![r] =
             [status |-> "starting", project |-> p, total |-> 0, failed |-> 0]]
        /\ pc' = [pc EXCEPT ![r] = "boot"]
        /\ ctl' = [FreshController EXCEPT !.run = r, !.counted = ctl.counted]
  BY DEF Start
<1>2. ~Created(r)
  BY <1>1 DEF Runs
<1>3. "starting" \in Active /\ "boot" \in Steps
  BY DEF Active, Steps, LoopSteps
<1>4. RowsOK'
  BY <1>1, <1>3 DEF RunInv, RowsOK, Rows
<1>5. ThreadsOK'
  BY <1>1, <1>3 DEF RunInv, ThreadsOK
<1>6. /\ run'[r].status = "starting" /\ run'[r].project = p
      /\ \A q \in Runs \ {r} : run'[q] = run[q]
  BY <1>1 DEF RunInv, RowsOK
<1>7. ControllerOK'
  BY <1>1, <1>6 DEF ControllerOK, FreshController, Fields, Created
<1>8. StopOK'
  BY <1>2, <1>6 DEF RunInv, StopOK, Start, Created
<1>9. AliveIsActive'
  <2> SUFFICES ASSUME NEW q \in Runs, Alive(q)' PROVE run'[q].status \in Active
    BY DEF AliveIsActive
  <2>1. CASE q = r
    BY <1>3, <1>6, <2>1
  <2>2. CASE q # r
    BY <1>1, <1>6, <2>2, Names DEF RunInv, ThreadsOK, AliveIsActive, Alive
  <2> QED
    BY <2>1, <2>2
<1>10. OneActiveRun'
  <2>1. \A q \in Runs : run[q].status \in Active => run[q].project # p
    BY DEF Start, MayStart, Decide, AuditOf, ActiveRuns
  <2> QED
    BY <1>6, <2>1 DEF RunInv, OneActiveRun
<1> QED
  BY <1>4, <1>5, <1>7, <1>8, <1>9, <1>10 DEF RunInv

LEMMA EndpointSteps ==
  ASSUME RunInv, Endpoints
  PROVE  RunInv'
<1>0. DOMAIN ctl = Fields /\ {"scanning", "stopping"} \subseteq Active
  BY DEF RunInv, ControllerOK, Active
<1>1. ASSUME NEW p \in Projects, Start(p) PROVE RunInv'
  BY <1>1, StartStep
<1>2. CASE Pause
  <2>1. DOMAIN ctl' = Fields /\ ctl'.run = ctl.run
    BY <1>0, <1>2 DEF Pause, Fields
  <2>2. ControllerOK' /\ StopOK'
    BY <1>2, <2>1, PointersKept DEF RunInv, Pause, Created
  <2> QED
    BY <1>2, <2>2, RowsKept DEF RunInv, Pause, ThreadsOK, Alive
<1>3. CASE Resume
  <2>1. DOMAIN ctl' = Fields /\ ctl'.run = ctl.run
    BY <1>0, <1>3 DEF Resume, Fields
  <2>2. ctl.run \in Runs /\ Created(ctl.run) /\ stopping.step = "none"
    BY <1>3 DEF RunInv, ControllerOK, Resume, EventLoopFree, NotStopping
  <2>3. run' = WithStatus(ctl.run, "scanning") /\ UNCHANGED <<pc, stopping>>
    BY <1>3 DEF Resume, SetStatus
  <2>4. /\ stopping' \in [run : Runs \cup {0}, step : {"none", "write", "signal"}]
        /\ stopping'.step # "none" => stopping'.run = ctl.run
    BY <2>2, <2>3 DEF RunInv, StopOK
  <2> QED
    BY <1>0, <2>1, <2>2, <2>3, <2>4, EndpointWrites
<1>4. CASE BeginStop
  <2>1. /\ ctl.run \in Runs /\ Created(ctl.run)
        /\ stopping' = [run |-> ctl.run, step |-> "write"]
    BY <1>4 DEF RunInv, ControllerOK, BeginStop
  <2>2. ControllerOK' /\ StopOK'
    BY <1>4, <2>1 DEF RunInv, ControllerOK, StopOK, BeginStop, Created
  <2> QED
    BY <1>4, <2>2, RowsKept DEF RunInv, BeginStop, ThreadsOK, Alive
<1>5. CASE WriteStopping
  <2>1. /\ stopping.run \in Runs /\ Created(stopping.run)
        /\ stopping' \in [run : Runs \cup {0}, step : {"none", "write", "signal"}]
        /\ stopping'.run = stopping.run
    BY <1>5 DEF RunInv, StopOK, WriteStopping
  <2>2. run' = WithStatus(stopping.run, "stopping") /\ UNCHANGED <<pc, ctl>>
    BY <1>5 DEF WriteStopping, SetStatus
  <2> QED
    BY <1>0, <2>1, <2>2, EndpointWrites
<1>6. CASE SignalStop
  <2>1. DOMAIN ctl' = Fields /\ ctl'.run = ctl.run
    BY <1>0, <1>6 DEF SignalStop, Fields
  <2>2. ControllerOK' /\ StopOK'
    BY <1>6, <2>1 DEF RunInv, ControllerOK, StopOK, SignalStop, NotStopping, Created
  <2> QED
    BY <1>6, <2>2, RowsKept DEF RunInv, SignalStop, ThreadsOK, Alive
<1>7. ASSUME NEW t \in Tasks, Retry(t) PROVE RunInv'
  BY <1>7, RowsKept DEF RunInv, Retry, ThreadsOK, ControllerOK, StopOK, Alive, Created
<1>8. ASSUME NEW t \in Tasks, RunOne(t) PROVE RunInv'
  <2>1. "claim" \in Steps /\ pc' = [pc EXCEPT ![Solo] = "claim"]
    BY <1>8, Names DEF RunOne, WorkSteps
  <2> QED
    BY <1>0, <1>8, <2>1, Names, ThreadMoves DEF RunOne
<1>9. CASE Approvals
  BY <1>9, RowsKept
  DEF RunInv, Approvals, loopVars, ThreadsOK, ControllerOK, StopOK, Alive, Created
<1> QED
  BY <1>1, <1>2, <1>3, <1>4, <1>5, <1>6, <1>7, <1>8, <1>9 DEF Endpoints

(* Leases and approvals lapse; a restart leaves no thread alive. *)
LEMMA EnvironmentSteps ==
  ASSUME RunInv, Environment
  PROVE  RunInv'
<1>1. ASSUME NEW t \in Tasks, LeaseExpires(t) PROVE RunInv'
  BY <1>1, RowsKept
  DEF RunInv, LeaseExpires, ThreadsOK, ControllerOK, StopOK, Alive, Created
<1>2. CASE ApprovalLapses
  BY <1>2, RowsKept
  DEF RunInv, ApprovalLapses, loopVars, ThreadsOK, ControllerOK, StopOK, Alive, Created
<1>3. CASE Crash
  <2>1. ThreadsOK' /\ \A r \in Runs : ~Alive(r)'
    BY <1>3, Names DEF Crash, ThreadsOK, Alive, Steps
  <2>2. ControllerOK' /\ StopOK'
    BY <1>3 DEF Crash, ControllerOK, StopOK, FreshController, NotStopping, Fields
  <2> QED
    BY <1>3, <2>1, <2>2, RowsKept DEF Crash
<1> QED
  BY <1>1, <1>2, <1>3 DEF Environment

LEMMA Initially == Init => RunInv
<1> SUFFICES ASSUME Init PROVE RunInv
  OBVIOUS
<1>1. RowsOK /\ ThreadsOK /\ ControllerOK /\ StopOK
  BY DEF Init, RowsOK, Rows, ThreadsOK, Steps, ControllerOK, StopOK,
         FreshController, NotStopping, Fields
<1>2. AliveIsActive /\ OneActiveRun
  BY Names DEF Init, AliveIsActive, OneActiveRun, NoRun, Alive
<1> QED
  BY <1>1, <1>2 DEF RunInv

LEMMA RunStep == RunInv /\ [Next]_lvars => RunInv'
<1> SUFFICES ASSUME RunInv, [Next]_lvars PROVE RunInv'
  OBVIOUS
<1>1. ASSUME NEW w \in Workers, Thread(w) PROVE RunInv'
  <2>1. CASE WorkerStep(w)
    BY <2>1, WorkerSteps
  <2>2. CASE w # Solo /\ LoopStep(w)
    BY <2>2, LoopThreadSteps DEF Workers
  <2> QED
    BY <1>1, <2>1, <2>2 DEF Thread
<1>2. CASE Endpoints
  BY <1>2, EndpointSteps
<1>3. CASE Environment
  BY <1>3, EnvironmentSteps
<1>4. CASE UNCHANGED lvars
  BY <1>4, RowsKept
  DEF RunInv, lvars, loopVars, ThreadsOK, ControllerOK, StopOK, Alive, Created
<1> QED
  BY <1>1, <1>2, <1>3, <1>4 DEF Next

(* The inductive invariant: a live thread has an active row, and no project
   has two (loop_controller.py, run_store.py and the index of migration 004). *)
THEOREM RunsHeld == Spec => []RunInv
BY Initially, RunStep, PTL DEF Spec

(* No two loops work on one project, whatever start, pause, resume, stop, a
   lapsed budget and a restart did before. *)
THEOREM NoTwoLoops == Spec => []OneLoopPerProject
<1>1. RunInv => OneLoopPerProject
  BY DEF RunInv, AliveIsActive, OneActiveRun, OneLoopPerProject
<1> QED
  BY <1>1, RunsHeld, PTL
-----------------------------------------------------------------------------
(* What a thread may do to the rows: give its own a status, count a failure
   in it, or take a task. *)
TakesTask(r) == [WithStatus(r, "executing") EXCEPT ![r].total = @ + 1]

WritesRow(w) ==
  /\ w \in Runs /\ Created(w)
  /\ \/ \E s \in Active \cup Terminal : run' = WithStatus(w, s)
     \/ run' = CountFailure(w)
     \/ run' = TakesTask(w)

LEMMA StatusesWritten ==
  /\ {"scanning", "paused", "executing"} \subseteq Active \cup Terminal
  /\ {"completed", "blocked", "failed"} \subseteq Active \cup Terminal
BY DEF Active, Terminal

LEMMA ThreadWrites ==
  ASSUME RunInv, NEW w \in Workers, Thread(w)
  PROVE  UNCHANGED run \/ WritesRow(w)
<1> USE StatusesWritten DEF SetStatus
<1>1. CASE WorkerStep(w)
  BY <1>1 DEF WorkerStep, Claim, Execute, FinalizeRelease, FinalizeTask
<1>2. CASE w # Solo /\ LoopStep(w)
  <2>0. w \in Runs
    BY <1>2 DEF Workers
  <2>1. Created(w)
    <3>1. pc[w] # Gone
      BY <1>2 DEF LoopStep, Boot, TopLeave, TopPause, TopBudget, TopScan, Wait, Leave,
                  Scan, HandleNoRunnable, LoopFails, ConsumeSelect, ConsumeUpdate,
                  Denied, FinalizeStats, Account, LoopSteps, Gone
    <3> QED
      BY <2>0, <3>1, AliveIsCreated DEF RunInv, Alive
  <2>2. CASE Boot(w) \/ TopLeave(w) \/ TopPause(w) \/ TopBudget(w) \/ TopScan(w)
    BY <2>0, <2>1, <2>2 DEF Boot, TopLeave, TopPause, TopBudget, TopScan, WritesRow
  <2>3. CASE Wait(w) \/ Leave(w) \/ HandleNoRunnable(w) \/ LoopFails(w)
    BY <2>0, <2>1, <2>3 DEF Wait, Leave, HandleNoRunnable, LoopFails, WritesRow
  <2>4. CASE Scan(w)
    BY <2>0, <2>1, <2>4 DEF Scan, WritesRow, TakesTask
  <2>5. CASE ConsumeSelect(w) \/ ConsumeUpdate(w) \/ Denied(w)
    BY <2>0, <2>1, <2>5 DEF ConsumeSelect, ConsumeUpdate, Denied, WritesRow
  <2>6. CASE FinalizeStats(w)
    BY <2>0, <2>1, <2>6 DEF FinalizeStats, WritesRow
  <2>7. CASE Account(w)
    BY <2>0, <2>1, <2>7 DEF Account, WritesRow
  <2> QED
    BY <1>2, <2>2, <2>3, <2>4, <2>5, <2>6, <2>7 DEF LoopStep
<1> QED
  BY <1>1, <1>2 DEF Thread

(* Its own row keeps its project and exists; the other rows are not touched. *)
LEMMA RowWritten ==
  ASSUME RunInv, NEW w \in Runs, WritesRow(w)
  PROVE  /\ \A q \in Runs \ {w} : run'[q] = run[q]
         /\ run'[w].project = run[w].project /\ run'[w].status # "none"
         /\ run[w].total \in Nat /\ run[w].failed \in Nat
<1>0. /\ Created(w) /\ "executing" \in Active \cup Terminal
      /\ run[w] \in [status : Active \cup Terminal, project : Projects,
                     total : Nat, failed : Nat]
  BY CreatedRow, StatusesWritten DEF WritesRow, RunInv
<1>1. CASE \E s \in Active \cup Terminal : run' = WithStatus(w, s)
  <2>1. PICK s \in Active \cup Terminal : run' = WithStatus(w, s)
    BY <1>1
  <2> QED
    BY <1>0, <2>1, StatusWritten DEF RunInv
<1>2. CASE run' = CountFailure(w)
  BY <1>0, <1>2, Names DEF CountFailure, RunInv, RowsOK
<1>3. CASE run' = TakesTask(w)
  <2> DEFINE mid == WithStatus(w, "executing")
  <2>1. /\ mid \in [Runs -> Rows] /\ mid[w].status # "none"
        /\ mid[w].project = run[w].project
        /\ \A q \in Runs \ {w} : mid[q] = run[q]
    BY <1>0, StatusWritten DEF RunInv
  <2>2. mid[w] \in [status : Active \cup Terminal, project : Projects,
                    total : Nat, failed : Nat]
    BY <2>1 DEF Rows, NoRun
  <2> HIDE DEF mid
  <2>3. run' = [mid EXCEPT ![w].total = @ + 1]
    BY <1>3 DEF mid, TakesTask
  <2> QED
    BY <1>0, <2>1, <2>2, <2>3
<1>4. run[w].total \in Nat /\ run[w].failed \in Nat
  BY <1>0
<1> QED
  BY <1>1, <1>2, <1>3, <1>4 DEF WritesRow

-----------------------------------------------------------------------------
(* The types of the rest: what is written in hand-to-hand steps of a thread
   is in place when the next step reads it. *)
ApprovalRows == {NoApproval} \cup
  [status : {"pending", "approved", "rejected", "consumed"}, project : Projects,
   scope : SUBSET Tasks, lapsed : BOOLEAN,
   run : Runs \cup {0}, task : Tasks \cup {0}]

ApprovalsOK == approval \in [ApprovalIds -> ApprovalRows]
JobsOK ==
  job \in [Workers -> [task : Tasks \cup {0}, approval : ApprovalIds \cup {0},
                       outcome : OUTCOMES \cup {"none"}]]
TasksOK == task \in [Tasks -> TASK_STATUSES]
LeasesOK ==
  lease \in [Tasks -> [holder : Workers, status : {"free", "active", "expired"}]]
SeenOK == seen \in [Runs -> [total : Nat, failed : Nat]]
FieldsOK ==
  ctl \in [run : Runs \cup {0}, stop : BOOLEAN, pause : BOOLEAN, consumed : BOOLEAN,
           scope : SUBSET (Tasks \cup {0}), counted : SUBSET Tasks]
SpentOK == spent \in [solo : Nat, expiries : Nat, faults : Nat, crashes : Nat]
DoneOK ==
  done \in [begun : SUBSET (Runs \X Tasks), failed : [Runs -> Nat],
            overlap : BOOLEAN, astray : BOOLEAN]
Hand(w) ==
  /\ pc[w] \in WorkSteps => job[w].task \in Tasks
  /\ pc[w] \in {"release", "mark"} => job[w].outcome \in {"completed", "blocked", "failed"}
  /\ pc[w] = "spend" => job[w].approval \in ApprovalIds
InHand == \A w \in Workers : Hand(w)

TypeInv ==
  /\ ApprovalsOK /\ JobsOK /\ TasksOK /\ LeasesOK /\ SeenOK
  /\ FieldsOK /\ SpentOK /\ DoneOK /\ InHand

(* A thread moves itself and nobody else. *)
LEMMA Bystanders ==
  ASSUME RunInv, TypeInv, NEW w \in Workers, Thread(w), NEW x \in Workers \ {w}
  PROVE  pc'[x] = pc[x] /\ job'[x] = job[x] /\ (x \in Runs => seen'[x] = seen[x])
<1> USE DEF Goto, End
<1>0. DOMAIN pc = Workers /\ DOMAIN job = Workers /\ DOMAIN seen = Runs
  BY DEF RunInv, ThreadsOK, TypeInv, JobsOK, SeenOK
<1>1. CASE WorkerStep(w)
  BY <1>0, <1>1 DEF WorkerStep, Claim, Execute, FinalizeRelease, FinalizeTask
<1>2. CASE LoopStep(w)
  <2>1. CASE Boot(w) \/ TopLeave(w) \/ TopPause(w) \/ TopBudget(w) \/ TopScan(w)
    BY <1>0, <2>1 DEF Boot, TopLeave, TopPause, TopBudget, TopScan
  <2>2. CASE Wait(w) \/ Leave(w) \/ HandleNoRunnable(w) \/ LoopFails(w)
    BY <1>0, <2>2 DEF Wait, Leave, HandleNoRunnable, LoopFails
  <2>3. CASE Scan(w) \/ ConsumeSelect(w) \/ ConsumeUpdate(w) \/ Denied(w)
    BY <1>0, <2>3 DEF Scan, ConsumeSelect, ConsumeUpdate, Denied
  <2>4. CASE FinalizeStats(w) \/ Account(w)
    BY <1>0, <2>4 DEF FinalizeStats, Account
  <2> QED
    BY <1>2, <2>1, <2>2, <2>3, <2>4 DEF LoopStep
<1> QED
  BY <1>1, <1>2 DEF Thread

LEMMA Disturbed ==
  ASSUME SpentOK, NEW kind \in {"solo", "expiries", "faults", "crashes"},
         Disturbance(kind)
  PROVE  /\ SpentOK'
         /\ spent'[kind] = spent[kind] + 1
         /\ \A k \in {"solo", "expiries", "faults", "crashes"} : spent[k] <= spent'[k]
<1>1. spent' = [spent EXCEPT ![kind] = @ + 1]
  BY DEF Disturbance
<1>2. /\ spent[kind] \in Nat
      /\ \A k \in {"solo", "expiries", "faults", "crashes"} : spent[k] \in Nat
  BY DEF SpentOK
<1>3. /\ DOMAIN spent = {"solo", "expiries", "faults", "crashes"}
      /\ spent'[kind] = spent[kind] + 1
      /\ \A k \in {"solo", "expiries", "faults", "crashes"} :
           k # kind => spent'[k] = spent[k]
  BY <1>1 DEF SpentOK
<1>4. SpentOK'
  BY <1>1, <1>2 DEF SpentOK
<1> QED
  BY <1>2, <1>3, <1>4

LEMMA Ended ==
  ASSUME JobsOK, SeenOK, NEW w \in Workers, End(w)
  PROVE  JobsOK' /\ SeenOK'
BY DEF JobsOK, SeenOK, End, NoJob, NothingSeen, Workers

(* What the others have in hand stays in their hands. *)
LEMMA HandsKept ==
  ASSUME RunInv, TypeInv, NEW w \in Workers, Thread(w), Hand(w)'
  PROVE  InHand'
<1> SUFFICES ASSUME NEW x \in Workers \ {w} PROVE Hand(x)'
  BY DEF InHand
<1>1. pc'[x] = pc[x] /\ job'[x] = job[x]
  BY Bystanders
<1> QED
  BY <1>1 DEF TypeInv, InHand, Hand

(* A thread that is not at work has nothing to answer for. *)
LEMMA EmptyHand ==
  ASSUME RunInv, NEW w \in Workers, NEW s \in LoopSteps \cup {Gone},
         pc' = [pc EXCEPT ![w] = s]
  PROVE  Hand(w)'
<1>1. pc'[w] = s
  BY DEF RunInv, ThreadsOK
<1>2. s \notin WorkSteps
  BY DEF LoopSteps, WorkSteps, Gone
<1> QED
  BY <1>1, <1>2 DEF Hand, WorkSteps

(* There is a first among the runnable tasks: their ids are numbers. *)
LEMMA LeastIn ==
  ASSUME NEW S \in SUBSET Nat, S # {}
  PROVE  Min(S) \in S /\ \A y \in S : Min(S) <= y
<1> DEFINE Below(x) == 0 .. x
           T == {Below(x) : x \in S}
<1>1. \A x \in S : Below(x) \in FiniteSubsetsOf(Nat)
  BY FS_Interval DEF FiniteSubsetsOf
<1>2. PICK U \in T : \A V \in T : <<V, U>> \notin StrictSubsetOrdering(Nat)
  <2>1. T \subseteq FiniteSubsetsOf(Nat) /\ T # {}
    BY <1>1
  <2> HIDE DEF T
  <2> QED
    BY <2>1, FS_StrictSubsetOrderingWellFounded, WFMin
<1>3. PICK x \in S : U = Below(x)
  OBVIOUS
<1>4. ASSUME NEW y \in S PROVE x <= y
  <2>1. ~(Below(y) \subseteq Below(x) /\ Below(y) # Below(x))
    <3>1. <<Below(y), Below(x)>> \notin StrictSubsetOrdering(Nat)
      BY <1>2, <1>3
    <3>2. Below(y) \in SUBSET Nat /\ Below(x) \in SUBSET Nat
      BY <1>1 DEF FiniteSubsetsOf
    <3> HIDE DEF Below
    <3> QED
      BY <3>1, <3>2 DEF StrictSubsetOrdering
  <2>2. x \in Nat /\ y \in Nat
    OBVIOUS
  <2>3. CASE y < x
    <3>1. Below(y) \subseteq Below(x) /\ x \in Below(x) /\ x \notin Below(y)
      BY <2>2, <2>3
    <3> QED
      BY <2>1, <3>1
  <2> QED
    BY <2>2, <2>3
<1> QED
  BY <1>4 DEF Min

(* The steps of a loop thread between two executions, and its end. *)
LEMMA LoopMovesTyped ==
  ASSUME RunInv, TypeInv, NEW r \in Runs, LoopStep(r),
         NEW s \in LoopSteps \cup {Gone}, pc' = [pc EXCEPT ![r] = s],
         UNCHANGED <<approval, task, ctl, done>>,
         JobsOK', SeenOK', LeasesOK', SpentOK'
  PROVE  TypeInv'
<1>1. r \in Workers /\ Thread(r)
  BY Names DEF Thread
<1>2. InHand'
  BY <1>1, EmptyHand, HandsKept
<1> QED
  BY <1>2 DEF TypeInv, ApprovalsOK, TasksOK, FieldsOK, DoneOK

LEMMA LoopTypes ==
  ASSUME RunInv, TypeInv, NEW r \in Runs,
         \/ Boot(r) \/ TopLeave(r) \/ TopPause(r) \/ TopBudget(r) \/ TopScan(r)
         \/ Wait(r) \/ Leave(r) \/ HandleNoRunnable(r) \/ LoopFails(r) \/ Denied(r)
  PROVE  TypeInv'
<1>0. /\ LoopStep(r) /\ r \in Workers /\ r # Solo
      /\ {"top", "waiting", "leaving", "scan"} \subseteq LoopSteps
  BY Names DEF LoopStep, LoopSteps
<1>1. CASE \/ Boot(r) \/ TopLeave(r) \/ TopPause(r) \/ TopScan(r) \/ Wait(r)
  <2>1. \E s \in LoopSteps \cup {Gone} : pc' = [pc EXCEPT ![r] = s]
    BY <1>0, <1>1 DEF Boot, TopLeave, TopPause, TopScan, Wait, Goto
  <2>2. UNCHANGED <<approval, job, seen, task, lease, ctl, spent, done>>
    BY <1>1 DEF Boot, TopLeave, TopPause, TopScan, Wait
  <2>3. JobsOK' /\ SeenOK' /\ LeasesOK' /\ SpentOK'
    BY <2>2 DEF TypeInv, JobsOK, SeenOK, LeasesOK, SpentOK
  <2> QED
    BY <1>0, <2>1, <2>2, <2>3, LoopMovesTyped
<1>2. CASE TopBudget(r) \/ Leave(r) \/ HandleNoRunnable(r) \/ LoopFails(r) \/ Denied(r)
  <2>1. End(r) /\ pc' = [pc EXCEPT ![r] = Gone] /\ UNCHANGED <<approval, task, ctl, done>>
    BY <1>2 DEF TopBudget, Leave, HandleNoRunnable, LoopFails, Denied, End
  <2>2. JobsOK' /\ SeenOK'
    BY <1>0, <2>1, Ended DEF TypeInv
  <2>3. SpentOK'
    BY <1>2, Disturbed
    DEF TopBudget, Leave, HandleNoRunnable, LoopFails, Denied, TypeInv, SpentOK
  <2>4. LeasesOK'
    BY <1>2, Names
    DEF TopBudget, Leave, HandleNoRunnable, LoopFails, Denied, TypeInv, LeasesOK, NoLease
  <2> QED
    BY <1>0, <2>1, <2>2, <2>3, <2>4, LoopMovesTyped
<1> QED
  BY <1>1, <1>2

LEMMA FirstIsRunnable ==
  ASSUME NEW p
  PROVE  /\ InScope(p) \subseteq Runnable(p)
         /\ InScope(p) # {} => Min(InScope(p)) \in InScope(p)
<1>1. InScope(p) \subseteq Runnable(p)
  BY DEF InScope, InScopeByApproval
<1>2. InScope(p) \in SUBSET Nat
  BY <1>1, TasksAssumption DEF Runnable, ProjectTasks
<1> QED
  BY <1>1, <1>2, LeastIn

LEMMA ScanTypes ==
  ASSUME RunInv, TypeInv, NEW r \in Runs, Scan(r)
  PROVE  TypeInv'
<1>0. LoopStep(r) /\ r \in Workers /\ Thread(r) /\ "idle" \in LoopSteps
  BY Names DEF LoopStep, LoopSteps, Thread
<1>1. UNCHANGED <<approval, seen, task, lease, ctl, spent, done>>
  BY DEF Scan
<1>2. CASE pc' = [pc EXCEPT ![r] = "idle"] /\ UNCHANGED job
  <2>1. JobsOK' /\ SeenOK' /\ LeasesOK' /\ SpentOK'
    BY <1>1, <1>2 DEF TypeInv, JobsOK, SeenOK, LeasesOK, SpentOK
  <2> QED
    BY <1>0, <1>1, <1>2, <2>1, LoopMovesTyped
<1>3. ASSUME NEW t \in Tasks, job' = [job EXCEPT ![r] = [NoJob EXCEPT !.task = t]],
             pc' = [pc EXCEPT ![r] = "claim"]
      PROVE  TypeInv'
  <2>1. JobsOK'
    BY <1>3 DEF TypeInv, JobsOK, NoJob
  <2>2. pc'[r] = "claim" /\ job'[r].task = t
    BY <1>0, <1>3 DEF RunInv, ThreadsOK, TypeInv, JobsOK, NoJob
  <2>3. InHand'
    BY <1>0, <2>2, HandsKept DEF Hand
  <2> QED
    BY <1>1, <2>1, <2>3
    DEF TypeInv, ApprovalsOK, TasksOK, LeasesOK, SeenOK, FieldsOK, SpentOK, DoneOK
<1>4. ASSUME InScope(run[r].project) # {}
      PROVE  Min(InScope(run[r].project)) \in Tasks
  BY <1>4, FirstIsRunnable DEF Runnable, ProjectTasks
<1> QED
  BY <1>2, <1>3, <1>4 DEF Scan, Goto

LEMMA ConsumeTypes ==
  ASSUME RunInv, TypeInv, NEW r \in Runs, ConsumeSelect(r) \/ ConsumeUpdate(r)
  PROVE  TypeInv'
<1>0. /\ r \in Workers /\ r # Solo /\ Thread(r)
      /\ {"consume", "spend", "denied", "execute"} \subseteq WorkSteps
  BY Names DEF LoopStep, Thread, WorkSteps
<1>1. UNCHANGED <<seen, task, lease, ctl, spent>> /\ job[r].task \in Tasks
  BY <1>0 DEF ConsumeSelect, ConsumeUpdate, TypeInv, InHand, Hand
<1>2. CASE ConsumeSelect(r)
  <2>1. /\ JobsOK'
        /\ job'[r].task = job[r].task
        /\ \/ pc'[r] = "denied"
           \/ pc'[r] = "spend" /\ job'[r].approval \in ApprovalIds
    <3>1. CASE UNCHANGED job /\ pc' = [pc EXCEPT ![r] = "denied"]
      BY <1>0, <3>1 DEF RunInv, ThreadsOK, TypeInv, JobsOK
    <3>2. ASSUME NEW a \in ApprovalIds, job' = [job EXCEPT ![r].approval = a],
                 pc' = [pc EXCEPT ![r] = "spend"]
          PROVE  <2>1!2 /\ <2>1!3 /\ JobsOK'
      BY <1>0, <3>2 DEF RunInv, ThreadsOK, TypeInv, JobsOK
    <3> QED
      BY <1>2, <3>1, <3>2 DEF ConsumeSelect, Goto, Consumable, ValidApprovals
  <2>2. InHand'
    BY <1>0, <1>1, <2>1, HandsKept DEF Hand
  <2> QED
    BY <1>1, <1>2, <2>1, <2>2
    DEF ConsumeSelect, TypeInv, ApprovalsOK, TasksOK, LeasesOK, SeenOK, FieldsOK,
        SpentOK, DoneOK
<1>3. CASE ConsumeUpdate(r)
  <2>0. UNCHANGED job /\ job[r].approval \in ApprovalIds /\ JobsOK'
    BY <1>0, <1>3 DEF ConsumeUpdate, TypeInv, InHand, Hand, JobsOK
  <2>1. pc'[r] \in {"execute", "denied"}
    BY <1>0, <1>3 DEF ConsumeUpdate, Goto, RunInv, ThreadsOK
  <2>2. InHand'
    BY <1>0, <1>1, <2>0, <2>1, HandsKept DEF Hand
  <2>3. ApprovalsOK'
    <3>1. CASE UNCHANGED approval
      BY <3>1 DEF TypeInv, ApprovalsOK
    <3>2. CASE /\ approval[job[r].approval].status = "approved"
               /\ approval' = Consumed(job[r].approval, r, job[r].task)
      <4> DEFINE a == job[r].approval
      <4>1. approval[a] \in ApprovalRows /\ approval[a] # NoApproval
        BY <2>0, <3>2 DEF TypeInv, ApprovalsOK, NoApproval
      <4>2. [approval[a] EXCEPT !.status = "consumed", !.run = r, !.task = job[r].task]
              \in ApprovalRows
        BY <1>1, <4>1 DEF ApprovalRows
      <4> QED
        BY <3>2, <4>2 DEF Consumed, TypeInv, ApprovalsOK
    <3> QED
      BY <1>3, <3>1, <3>2 DEF ConsumeUpdate
  <2>4. DoneOK'
    <3>1. Begun(r, job[r].task) \in SUBSET (Runs \X Tasks)
      BY <1>1 DEF Begun, TypeInv, DoneOK
    <3> QED
      BY <1>3, <3>1 DEF ConsumeUpdate, TypeInv, DoneOK
  <2> QED
    BY <1>1, <2>0, <2>2, <2>3, <2>4
    DEF TypeInv, TasksOK, LeasesOK, SeenOK, FieldsOK, SpentOK
<1> QED
  BY <1>2, <1>3

LEMMA StatsTypes ==
  ASSUME RunInv, TypeInv, NEW r \in Runs, FinalizeStats(r)
  PROVE  TypeInv'
<1>0. r \in Workers /\ Thread(r) /\ {"stats", "account"} \subseteq WorkSteps
  BY Names DEF LoopStep, Thread, WorkSteps
<1>1. UNCHANGED <<approval, job, seen, task, lease, ctl>> /\ job[r].task \in Tasks
  BY <1>0 DEF FinalizeStats, TypeInv, InHand, Hand
<1>2. InHand'
  BY <1>0, <1>1, HandsKept DEF FinalizeStats, Goto, Hand, RunInv, ThreadsOK
<1>3. SpentOK'
  BY Disturbed DEF FinalizeStats, Fails, TypeInv, SpentOK
<1>4. DoneOK'
  BY DEF FinalizeStats, TypeInv, DoneOK
<1> QED
  BY <1>1, <1>2, <1>3, <1>4
  DEF TypeInv, ApprovalsOK, JobsOK, TasksOK, LeasesOK, SeenOK, FieldsOK

LEMMA AccountTypes ==
  ASSUME RunInv, TypeInv, NEW r \in Runs, Account(r)
  PROVE  TypeInv'
<1>0. r \in Workers /\ Thread(r) /\ LoopStep(r) /\ "account" \in WorkSteps
  BY Names DEF LoopStep, Thread, WorkSteps
<1>1. UNCHANGED <<approval, task, lease, spent, done>> /\ job[r].task \in Tasks
  BY <1>0 DEF Account, TypeInv, InHand, Hand
<1>2. JobsOK'
  BY <1>0 DEF Account, TypeInv, JobsOK, NoJob
<1>3. run'[r].total \in Nat /\ run'[r].failed \in Nat
  <2>1. RunInv'
    BY LoopThreadSteps, <1>0
  <2>2. Created(r)
    BY AliveIsCreated DEF Account, Alive, Gone, RunInv
  <2>3. Created(r)'
    <3>1. CASE UNCHANGED run
      BY <2>2, <3>1 DEF Created
    <3>2. CASE WritesRow(r)
      BY <3>2, RowWritten DEF Created
    <3> QED
      BY <1>0, <3>1, <3>2, ThreadWrites
  <2> QED
    BY <2>1, <2>3 DEF RunInv, RowsOK, Rows, NoRun, Created
<1>4. SeenOK'
  BY <1>3 DEF Account, TypeInv, SeenOK
<1>5. FieldsOK'
  <2>1. job[r].approval # 0 => approval[job[r].approval].scope \subseteq Tasks
    BY <1>0 DEF TypeInv, JobsOK, ApprovalsOK, ApprovalRows, NoApproval
  <2> DEFINE paid == job[r].outcome = "completed" /\ job[r].approval # 0
             of == IF job[r].outcome # "completed" \/ job[r].approval = 0 THEN ctl.scope
                   ELSE IF approval[job[r].approval].scope # {}
                        THEN approval[job[r].approval].scope ELSE {job[r].task}
             more == ctl.counted \cup {job[r].task}
  <2>2. /\ ctl.scope \subseteq Tasks \cup {0} /\ ctl.counted \subseteq Tasks
        /\ ctl.consumed \in BOOLEAN
    BY DEF TypeInv, FieldsOK
  <2>3. of \in SUBSET (Tasks \cup {0})
    BY <1>1, <2>1, <2>2
  <2>6. more \in SUBSET Tasks
    BY <1>1, <2>2
  <2>4. (ctl.consumed \/ paid) \in BOOLEAN
    OBVIOUS
  <2>5. ctl' = [ctl EXCEPT !.counted = more, !.consumed = ctl.consumed \/ paid, !.scope = of]
    BY DEF Account, Remembered
  <2> HIDE DEF of, more, paid
  <2> QED
    BY <2>3, <2>4, <2>5, <2>6 DEF TypeInv, FieldsOK
<1>6. InHand'
  BY <1>0, EmptyHand, HandsKept DEF Account, Goto, LoopSteps
<1> QED
  BY <1>1, <1>2, <1>4, <1>5, <1>6
  DEF TypeInv, ApprovalsOK, TasksOK, LeasesOK, SpentOK, DoneOK

LEMMA WorkerTypes ==
  ASSUME RunInv, TypeInv, NEW w \in Workers, WorkerStep(w)
  PROVE  TypeInv'
<1> USE DEF Goto
<1>0. /\ Thread(w) /\ UNCHANGED <<approval, run, ctl>>
      /\ {"claim", "consume", "execute", "release", "mark", "stats", "account"} \subseteq WorkSteps
      /\ {"completed", "blocked", "failed", "unclaimed"} \subseteq OUTCOMES
  BY DEF Thread, WorkSteps, OUTCOMES, WorkerStep, Claim, Execute, FinalizeRelease, FinalizeTask
<1>1. CASE Claim(w)
  <2>0. job[w].task \in Tasks /\ UNCHANGED <<task, spent>>
    BY <1>0, <1>1 DEF Claim, TypeInv, InHand, Hand
  <2>1. JobsOK' /\ SeenOK'
    <3>1. CASE UNCHANGED <<job, seen>>
      BY <3>1 DEF TypeInv, JobsOK, SeenOK
    <3>2. CASE End(w)
      BY <3>2, Ended DEF TypeInv
    <3>3. CASE job' = [job EXCEPT ![w].outcome = "unclaimed"] /\ UNCHANGED seen
      BY <1>0, <3>3 DEF TypeInv, JobsOK, SeenOK
    <3> QED
      BY <1>1, <3>1, <3>2, <3>3 DEF Claim
  <2>2. LeasesOK'
    BY <1>1 DEF Claim, TypeInv, LeasesOK
  <2>3. DoneOK'
    <3>1. CASE UNCHANGED done
      BY <3>1 DEF TypeInv, DoneOK
    <3>2. CASE done' = [done EXCEPT !.astray = @ \/ Astray(w),
                          !.begun = IF NeedsApproval(w) THEN @ ELSE Begun(w, job[w].task)]
      <4> DEFINE far == done.astray \/ Astray(w)
                 all == IF NeedsApproval(w) THEN done.begun ELSE Begun(w, job[w].task)
      <4>1. far \in BOOLEAN
        OBVIOUS
      <4>2. all \in SUBSET (Runs \X Tasks)
        BY <2>0 DEF Begun, TypeInv, DoneOK, Workers
      <4>3. done' = [done EXCEPT !.astray = far, !.begun = all]
        BY <3>2
      <4> HIDE DEF far, all
      <4> QED
        BY <4>1, <4>2, <4>3 DEF TypeInv, DoneOK
    <3> QED
      BY <1>1, <3>1, <3>2 DEF Claim
  <2>4. InHand'
    <3>1. CASE End(w)
      BY <1>0, <3>1, EmptyHand, HandsKept DEF End
    <3>2. CASE job'[w].task = job[w].task /\ pc'[w] \in {"consume", "execute", "account"}
      BY <1>0, <2>0, <3>2, HandsKept DEF Hand
    <3> QED
      BY <1>1, <3>1, <3>2 DEF Claim, RunInv, ThreadsOK, TypeInv, JobsOK
  <2> QED
    BY <1>0, <2>0, <2>1, <2>2, <2>3, <2>4
    DEF TypeInv, ApprovalsOK, TasksOK, FieldsOK, SpentOK
<1>2. CASE Execute(w)
  <2>0. job[w].task \in Tasks /\ UNCHANGED <<seen, task, lease, spent, done>>
    BY <1>0, <1>2 DEF Execute, TypeInv, InHand, Hand
  <2>1. PICK o \in {"completed", "blocked", "failed"} : job' = [job EXCEPT ![w].outcome = o]
    <3>1. PreparationEnds \cup VerificationEnds \subseteq {"completed", "blocked", "failed"}
      BY DEF PreparationEnds, VerificationEnds, ErrorEnds, ToolchainEnds, UntestedEnds,
             RepairEnds, TestedEnds, CommandFound
    <3> HIDE DEF PreparationEnds, VerificationEnds
    <3> QED
      BY <1>2, <3>1 DEF Execute
  <2>2. JobsOK' /\ job'[w].task = job[w].task /\ job'[w].outcome = o
    BY <1>0, <2>1 DEF TypeInv, JobsOK
  <2>3. pc'[w] = "release"
    BY <1>2 DEF Execute, RunInv, ThreadsOK
  <2>4. InHand'
    BY <1>0, <2>0, <2>2, <2>3, HandsKept DEF Hand
  <2> QED
    BY <1>0, <2>0, <2>2, <2>4
    DEF TypeInv, ApprovalsOK, TasksOK, LeasesOK, SeenOK, FieldsOK, SpentOK, DoneOK
<1>3. CASE FinalizeRelease(w)
  <2>0. job[w].task \in Tasks /\ UNCHANGED <<job, seen, task, done>>
    BY <1>0, <1>3 DEF FinalizeRelease, TypeInv, InHand, Hand
  <2>1. SpentOK'
    BY <1>3, Disturbed DEF FinalizeRelease, Fails, TypeInv, SpentOK
  <2>2. LeasesOK'
    BY <1>3, Names DEF FinalizeRelease, TypeInv, LeasesOK, NoLease
  <2>3. InHand'
    BY <1>0, <1>3, <2>0, HandsKept
    DEF FinalizeRelease, Hand, RunInv, ThreadsOK, TypeInv, InHand
  <2> QED
    BY <1>0, <2>0, <2>1, <2>2, <2>3
    DEF TypeInv, ApprovalsOK, JobsOK, TasksOK, SeenOK, FieldsOK, DoneOK
<1>4. CASE FinalizeTask(w)
  <2>0. /\ job[w].task \in Tasks /\ job[w].outcome \in TASK_STATUSES
        /\ UNCHANGED <<lease, done>>
    BY <1>0, <1>4 DEF FinalizeTask, TypeInv, InHand, Hand, TASK_STATUSES
  <2>1. SpentOK'
    BY <1>4, Disturbed DEF FinalizeTask, Fails, TypeInv, SpentOK
  <2>2. TasksOK'
    BY <1>4, <2>0 DEF FinalizeTask, TypeInv, TasksOK
  <2>3. JobsOK' /\ SeenOK' /\ InHand'
    <3>1. CASE End(w)
      BY <1>0, <3>1, Ended, EmptyHand, HandsKept DEF End, TypeInv
    <3>2. CASE pc' = [pc EXCEPT ![w] = "stats"] /\ UNCHANGED <<job, seen>>
      <4>1. pc'[w] = "stats"
        BY <3>2 DEF RunInv, ThreadsOK
      <4> QED
        BY <1>0, <2>0, <3>2, <4>1, HandsKept DEF Hand, TypeInv, JobsOK, SeenOK
    <3> QED
      BY <1>4, <3>1, <3>2 DEF FinalizeTask
  <2> QED
    BY <1>0, <2>0, <2>1, <2>2, <2>3 DEF TypeInv, ApprovalsOK, LeasesOK, FieldsOK, DoneOK
<1> QED
  BY <1>1, <1>2, <1>3, <1>4 DEF WorkerStep

(* What an endpoint leaves of the threads stays in their hands. *)
LEMMA HandsUntouched ==
  ASSUME TypeInv, UNCHANGED <<pc, job>>
  PROVE  InHand'
BY DEF TypeInv, InHand, Hand

(* A request writes a row that did not exist; the other decisions change the
   status of one, or let it lapse. *)
LEMMA ApprovalTypes ==
  ASSUME ApprovalsOK,
         \/ \E p \in Projects : \E scope \in Scopes : Request(p, scope)
         \/ \E a \in ApprovalIds : Approve(a) \/ Reject(a) \/ Lapse(a)
  PROVE  ApprovalsOK'
<1>1. ASSUME NEW p \in Projects, NEW scope \in Scopes, Request(p, scope)
      PROVE  ApprovalsOK'
  <2>1. [status |-> "pending", project |-> p, scope |-> scope,
         lapsed |-> FALSE, run |-> 0, task |-> 0] \in ApprovalRows
    BY ScopesAssumption DEF ApprovalRows
  <2> QED
    BY <1>1, <2>1 DEF Request, ApprovalsOK
<1>2. ASSUME NEW a \in ApprovalIds, approval[a].status # "none"
      PROVE  approval[a] \in ApprovalRows \ {NoApproval}
  BY <1>2 DEF ApprovalsOK, NoApproval
<1>3. ASSUME NEW a \in ApprovalIds, Approve(a) PROVE ApprovalsOK'
  <2>1. [approval[a] EXCEPT !.status = "approved"] \in ApprovalRows
    BY <1>2, <1>3 DEF Approve, ApprovalRows
  <2> QED
    BY <1>3, <2>1 DEF Approve, ApprovalsOK
<1>4. ASSUME NEW a \in ApprovalIds, Reject(a) PROVE ApprovalsOK'
  <2>1. [approval[a] EXCEPT !.status = "rejected"] \in ApprovalRows
    BY <1>2, <1>4 DEF Reject, ApprovalRows
  <2> QED
    BY <1>4, <2>1 DEF Reject, ApprovalsOK
<1>5. ASSUME NEW a \in ApprovalIds, Lapse(a) PROVE ApprovalsOK'
  <2>1. [approval[a] EXCEPT !.lapsed = TRUE] \in ApprovalRows
    BY <1>2, <1>5 DEF Lapse, ApprovalRows
  <2> QED
    BY <1>5, <2>1 DEF Lapse, ApprovalsOK
<1> QED
  BY <1>1, <1>3, <1>4, <1>5

LEMMA StartTypes ==
  ASSUME RunInv, TypeInv, NEW p \in Projects, Start(p)
  PROVE  TypeInv'
<1>1. PICK r \in Runs :
        /\ pc' = [pc EXCEPT ![r] = "boot"]
        /\ seen' = [seen EXCEPT ![r] = NothingSeen]
        /\ ctl' = [FreshController EXCEPT !.run = r, !.counted = ctl.counted]
  BY DEF Start
<1>2. UNCHANGED <<approval, job, task, lease, spent>>
  BY DEF Start
<1>3. InHand'
  <2> SUFFICES ASSUME NEW w \in Workers PROVE Hand(w)'
    BY DEF InHand
  <2>1. CASE w = r
    BY <1>1, <2>1, EmptyHand DEF LoopSteps
  <2>2. CASE w # r
    BY <1>1, <1>2, <2>2 DEF RunInv, ThreadsOK, TypeInv, InHand, Hand
  <2> QED
    BY <2>1, <2>2
<1>4. SeenOK'
  BY <1>1 DEF NothingSeen, TypeInv, SeenOK
<1>5. FieldsOK'
  BY <1>1 DEF FreshController, NoScope, TypeInv, FieldsOK
<1>6. DoneOK'
  <2> DEFINE met == done.overlap \/ \E q \in Runs : Alive(q)
  <2>1. met \in BOOLEAN
    OBVIOUS
  <2>2. done' = [done EXCEPT !.overlap = met]
    BY DEF Start
  <2> HIDE DEF met
  <2> QED
    BY <2>1, <2>2 DEF TypeInv, DoneOK
<1> QED
  BY <1>2, <1>3, <1>4, <1>5, <1>6
  DEF TypeInv, ApprovalsOK, JobsOK, TasksOK, LeasesOK, SpentOK

LEMMA EndpointTypes ==
  ASSUME RunInv, TypeInv, Endpoints
  PROVE  TypeInv'
<1>1. ASSUME NEW p \in Projects, Start(p) PROVE TypeInv'
  BY <1>1, StartTypes
<1>2. CASE Pause \/ Resume \/ BeginStop \/ WriteStopping \/ SignalStop
  <2>1. FieldsOK'
    BY <1>2 DEF Pause, Resume, BeginStop, WriteStopping, SignalStop, TypeInv, FieldsOK
  <2>2. UNCHANGED <<approval, pc, job, seen, task, lease, spent, done>>
    BY <1>2 DEF Pause, Resume, BeginStop, WriteStopping, SignalStop
  <2> QED
    BY <2>1, <2>2, HandsUntouched
    DEF TypeInv, ApprovalsOK, JobsOK, TasksOK, LeasesOK, SeenOK, SpentOK, DoneOK
<1>3. ASSUME NEW t \in Tasks, Retry(t) PROVE TypeInv'
  <2>1. LeasesOK' /\ TasksOK'
    BY <1>3, Names DEF Retry, TypeInv, LeasesOK, TasksOK, NoLease, TASK_STATUSES
  <2> QED
    BY <1>3, <2>1, HandsUntouched
    DEF Retry, TypeInv, ApprovalsOK, JobsOK, SeenOK, FieldsOK, SpentOK, DoneOK
<1>4. ASSUME NEW t \in Tasks, RunOne(t) PROVE TypeInv'
  <2>1. JobsOK' /\ job' = [job EXCEPT ![Solo] = [NoJob EXCEPT !.task = t]]
    BY <1>4, Names DEF RunOne, NoJob, TypeInv, JobsOK
  <2>2. InHand'
    <3> SUFFICES ASSUME NEW w \in Workers PROVE Hand(w)'
      BY DEF InHand
    <3>1. CASE w = Solo
      <4>1. pc'[w] = "claim" /\ job'[w].task = t
        BY <1>4, <2>1, <3>1 DEF RunOne, RunInv, ThreadsOK, TypeInv, JobsOK, NoJob
      <4> QED
        BY <4>1 DEF Hand
    <3>2. CASE w # Solo
      <4>1. pc'[w] = pc[w] /\ job'[w] = job[w]
        BY <1>4, <2>1, <3>2 DEF RunOne, RunInv, ThreadsOK, TypeInv, JobsOK
      <4> QED
        BY <4>1 DEF TypeInv, InHand, Hand
    <3> QED
      BY <3>1, <3>2
  <2>3. SpentOK'
    BY <1>4, Disturbed DEF RunOne, TypeInv
  <2> QED
    BY <1>4, <2>1, <2>2, <2>3
    DEF RunOne, TypeInv, ApprovalsOK, TasksOK, LeasesOK, SeenOK, FieldsOK, DoneOK
<1>5. CASE Approvals
  <2>1. ApprovalsOK'
    BY <1>5, ApprovalTypes DEF Approvals, TypeInv
  <2> QED
    BY <1>5, <2>1, HandsUntouched
    DEF Approvals, loopVars, TypeInv, JobsOK, TasksOK, LeasesOK, SeenOK, FieldsOK,
        SpentOK, DoneOK
<1> QED
  BY <1>1, <1>2, <1>3, <1>4, <1>5 DEF Endpoints

LEMMA EnvironmentTypes ==
  ASSUME RunInv, TypeInv, Environment
  PROVE  TypeInv'
<1>1. ASSUME NEW t \in Tasks, LeaseExpires(t) PROVE TypeInv'
  <2>1. LeasesOK' /\ SpentOK'
    BY <1>1, Disturbed DEF LeaseExpires, TypeInv, LeasesOK
  <2> QED
    BY <1>1, <2>1, HandsUntouched
    DEF LeaseExpires, TypeInv, ApprovalsOK, JobsOK, TasksOK, SeenOK, FieldsOK, DoneOK
<1>2. CASE ApprovalLapses
  <2>1. ApprovalsOK'
    BY <1>2, ApprovalTypes DEF ApprovalLapses, TypeInv
  <2> QED
    BY <1>2, <2>1, HandsUntouched
    DEF ApprovalLapses, loopVars, TypeInv, JobsOK, TasksOK, LeasesOK, SeenOK, FieldsOK,
        SpentOK, DoneOK
<1>3. CASE Crash
  <2>1. InHand'
    BY <1>3 DEF Crash, InHand, Hand, Gone, WorkSteps
  <2>2. JobsOK' /\ SeenOK' /\ FieldsOK'
    BY <1>3 DEF Crash, NoJob, NothingSeen, FreshController, NoScope, JobsOK, SeenOK, FieldsOK
  <2>3. SpentOK'
    BY <1>3, Disturbed DEF Crash, TypeInv
  <2> QED
    BY <1>3, <2>1, <2>2, <2>3 DEF Crash, TypeInv, ApprovalsOK, TasksOK, LeasesOK, DoneOK
<1> QED
  BY <1>1, <1>2, <1>3 DEF Environment

LEMMA TypeStep == RunInv /\ TypeInv /\ [Next]_lvars => TypeInv'
<1> SUFFICES ASSUME RunInv, TypeInv, [Next]_lvars PROVE TypeInv'
  OBVIOUS
<1>1. ASSUME NEW r \in Runs, LoopStep(r) PROVE TypeInv'
  BY <1>1, LoopTypes, ScanTypes, ConsumeTypes, StatsTypes, AccountTypes DEF LoopStep
<1>2. ASSUME NEW w \in Workers, Thread(w) PROVE TypeInv'
  BY <1>1, <1>2, WorkerTypes DEF Thread, Workers
<1>3. CASE UNCHANGED lvars
  BY <1>3, HandsUntouched
  DEF lvars, loopVars, TypeInv, ApprovalsOK, JobsOK, TasksOK, LeasesOK, SeenOK, FieldsOK,
      SpentOK, DoneOK
<1> QED
  BY <1>2, <1>3, EndpointTypes, EnvironmentTypes DEF Next

LEMMA TypesInitially == Init => TypeInv
<1> SUFFICES ASSUME Init PROVE TypeInv
  OBVIOUS
<1>1. ApprovalsOK /\ JobsOK /\ TasksOK /\ LeasesOK /\ SeenOK /\ SpentOK
  BY Names DEF Init, ApprovalsOK, ApprovalRows, JobsOK, NoJob, TasksOK, TASK_STATUSES,
     LeasesOK, NoLease, SeenOK, NothingSeen, SpentOK
<1>2. FieldsOK /\ DoneOK
  BY DEF Init, FieldsOK, FreshController, NoScope, DoneOK
<1>3. InHand
  BY DEF Init, InHand, Hand, Gone, WorkSteps
<1> QED
  BY <1>1, <1>2, <1>3 DEF TypeInv
-----------------------------------------------------------------------------
(* The leases.  LeaseOnlyWhileWorked is inductive once the threads are known
   to leave each other's jobs alone. *)
Holding == {"consume", "spend", "execute", "release", "denied"}
Counters == {"solo", "expiries", "faults", "crashes"}

LEMMA ThreadSpends ==
  ASSUME RunInv, TypeInv, NEW w \in Workers, Thread(w)
  PROVE  \A k \in Counters : spent[k] \in Nat /\ spent[k] <= spent'[k]
<1> USE DEF Counters
<1>1. \A k \in Counters : spent[k] \in Nat
  BY DEF TypeInv, SpentOK
<1>2. UNCHANGED spent \/ Disturbance("faults")
  <2>1. CASE WorkerStep(w)
    BY <2>1 DEF WorkerStep, Claim, Execute, FinalizeRelease, FinalizeTask, Fails
  <2>2. CASE LoopStep(w)
    BY <2>2 DEF LoopStep, Boot, TopLeave, TopPause, TopBudget, TopScan, Wait, Leave, Scan,
                HandleNoRunnable, LoopFails, ConsumeSelect, ConsumeUpdate, Denied,
                FinalizeStats, Account, Fails
  <2> QED
    BY <2>1, <2>2 DEF Thread
<1> QED
  BY <1>1, <1>2, Disturbed DEF TypeInv

(* A worker that lets go of a task has released its lease, or a step of the
   finalization has failed. *)
LEMMA LetsGo ==
  ASSUME RunInv, TypeInv, NEW w \in Workers, Thread(w), pc[w] \in Holding
  PROVE  \/ pc'[w] \in Holding /\ job'[w].task = job[w].task
         \/ lease'[job[w].task].status = "free"
         \/ spent'.faults > 0
<1>0. /\ DOMAIN pc = Workers /\ DOMAIN job = Workers /\ DOMAIN job[w] = DOMAIN NoJob
      /\ job[w].task \in Tasks /\ DOMAIN lease = Tasks
  BY DEF RunInv, ThreadsOK, TypeInv, JobsOK, NoJob, LeasesOK, InHand, Hand, Holding, WorkSteps
<1>1. CASE ConsumeSelect(w)
  BY <1>0, <1>1 DEF ConsumeSelect, Goto, Holding, NoJob
<1>2. CASE ConsumeUpdate(w)
  BY <1>0, <1>2 DEF ConsumeUpdate, Goto, Holding
<1>3. CASE Denied(w)
  BY <1>0, <1>3 DEF Denied, NoLease
<1>4. CASE Execute(w)
  BY <1>0, <1>4 DEF Execute, Goto, Holding, NoJob
<1>5. CASE FinalizeRelease(w)
  <2>1. CASE lease' = [lease EXCEPT ![job[w].task] = NoLease]
    BY <1>0, <2>1 DEF NoLease
  <2>2. CASE Fails
    <3>1. spent'.faults = spent.faults + 1 /\ spent.faults \in Nat
      BY <2>2, Disturbed DEF Fails, TypeInv, SpentOK
    <3> QED
      BY <3>1
  <2> QED
    BY <1>5, <2>1, <2>2 DEF FinalizeRelease
<1>6. CASE Claim(w) \/ FinalizeTask(w)
  BY <1>6 DEF Claim, FinalizeTask, Holding
<1>7. CASE \/ Boot(w) \/ TopLeave(w) \/ TopPause(w) \/ TopBudget(w) \/ TopScan(w) \/ Wait(w)
           \/ Leave(w) \/ Scan(w) \/ HandleNoRunnable(w) \/ LoopFails(w)
           \/ FinalizeStats(w) \/ Account(w)
  BY <1>7 DEF Boot, TopLeave, TopPause, TopBudget, TopScan, Wait, Leave, Scan,
              HandleNoRunnable, LoopFails, FinalizeStats, Account, LoopSteps, Holding
<1> QED
  BY <1>1, <1>2, <1>3, <1>4, <1>5, <1>6, <1>7 DEF Thread, WorkerStep, LoopStep

(* A lease becomes active in the hands of the worker that claims the task. *)
LEMMA TakesLease ==
  ASSUME RunInv, TypeInv, NEW w \in Workers, Thread(w), NEW t \in Tasks,
         HasActiveLease(t)'
  PROVE  HasActiveLease(t) \/ (job'[w].task = t /\ pc'[w] \in Holding)
<1>0. DOMAIN pc = Workers /\ DOMAIN lease = Tasks
  BY DEF RunInv, ThreadsOK, TypeInv, LeasesOK
<1>1. CASE Claim(w)
  BY <1>0, <1>1 DEF Claim, Goto, Holding, HasActiveLease
<1>2. CASE FinalizeRelease(w) \/ Denied(w)
  BY <1>0, <1>2 DEF FinalizeRelease, Denied, HasActiveLease, NoLease
<1>3. CASE Execute(w) \/ FinalizeTask(w)
  BY <1>3 DEF Execute, FinalizeTask, HasActiveLease
<1>4. CASE \/ Boot(w) \/ TopLeave(w) \/ TopPause(w) \/ TopBudget(w) \/ TopScan(w) \/ Wait(w)
           \/ Leave(w) \/ Scan(w) \/ HandleNoRunnable(w) \/ LoopFails(w)
           \/ ConsumeSelect(w) \/ ConsumeUpdate(w) \/ FinalizeStats(w) \/ Account(w)
  BY <1>4 DEF Boot, TopLeave, TopPause, TopBudget, TopScan, Wait, Leave, Scan,
              HandleNoRunnable, LoopFails, ConsumeSelect, ConsumeUpdate, FinalizeStats,
              Account, HasActiveLease
<1> QED
  BY <1>1, <1>2, <1>3, <1>4 DEF Thread, WorkerStep, LoopStep

LEMMA LeaseStep ==
  RunInv /\ TypeInv /\ LeaseOnlyWhileWorked /\ [Next]_lvars => LeaseOnlyWhileWorked'
<1> SUFFICES ASSUME RunInv, TypeInv, LeaseOnlyWhileWorked, [Next]_lvars,
                    spent'.faults = 0, spent'.crashes = 0,
                    NEW t \in Tasks, HasActiveLease(t)'
             PROVE  \E w \in Workers : job'[w].task = t /\ pc'[w] \in Holding
  BY DEF LeaseOnlyWhileWorked, Holding
<1>0. /\ spent.faults \in Nat /\ spent.crashes \in Nat /\ DOMAIN pc = Workers
      /\ DOMAIN job = Workers /\ DOMAIN lease = Tasks
  BY DEF TypeInv, SpentOK, RunInv, ThreadsOK, JobsOK, LeasesOK
<1>1. ASSUME spent.faults <= spent'.faults, spent.crashes <= spent'.crashes,
             HasActiveLease(t)
      PROVE  \E w \in Workers : job[w].task = t /\ pc[w] \in Holding
  BY <1>0, <1>1 DEF LeaseOnlyWhileWorked, Holding
<1>2. ASSUME NEW w \in Workers, Thread(w)
      PROVE  \E x \in Workers : job'[x].task = t /\ pc'[x] \in Holding
  <2>1. CASE ~HasActiveLease(t)
    BY <1>2, <2>1, TakesLease
  <2>2. CASE HasActiveLease(t)
    <3>1. PICK x \in Workers : job[x].task = t /\ pc[x] \in Holding
      BY <1>1, <1>2, <2>2, ThreadSpends DEF Counters
    <3>2. CASE x = w
      BY <1>2, <3>1, <3>2, LetsGo DEF HasActiveLease
    <3>3. CASE x # w
      BY <1>2, <3>1, <3>3, Bystanders
    <3> QED
      BY <3>2, <3>3
  <2> QED
    BY <2>1, <2>2
<1>3. CASE Endpoints
  <2>1. ASSUME NEW p \in Projects, Start(p)
        PROVE  \E w \in Workers : job'[w].task = t /\ pc'[w] \in Holding
    <3>1. PICK w \in Workers : job[w].task = t /\ pc[w] \in Holding
      BY <1>0, <1>1, <2>1 DEF Start, HasActiveLease
    <3>2. PICK r \in Runs : /\ \A q \in Runs : Created(q) <=> q < r
                            /\ pc' = [pc EXCEPT ![r] = "boot"]
      BY <2>1 DEF Start
    <3>3. ~Created(r) /\ ~Alive(r)
      <4>1. ~Created(r)
        BY <3>2 DEF Runs
      <4> QED
        BY <4>1, AliveIsCreated DEF RunInv
    <3>4. w # r
      BY <3>1, <3>3 DEF Alive, Gone, Holding
    <3> QED
      BY <1>0, <2>1, <3>1, <3>2, <3>4 DEF Start
  <2>2. CASE Pause \/ Resume \/ BeginStop \/ WriteStopping \/ SignalStop \/ Approvals
    <3>1. UNCHANGED <<pc, job, lease, spent>>
      BY <2>2 DEF Pause, Resume, BeginStop, WriteStopping, SignalStop, Approvals, loopVars
    <3> QED
      BY <1>0, <1>1, <3>1 DEF HasActiveLease
  <2>3. ASSUME NEW u \in Tasks, Retry(u)
        PROVE  \E w \in Workers : job'[w].task = t /\ pc'[w] \in Holding
    <3>1. UNCHANGED <<pc, job, spent>> /\ HasActiveLease(t)
      BY <1>0, <2>3 DEF Retry, HasActiveLease, NoLease
    <3> QED
      BY <1>0, <1>1, <3>1
  <2>4. ASSUME NEW u \in Tasks, RunOne(u)
        PROVE  \E w \in Workers : job'[w].task = t /\ pc'[w] \in Holding
    <3>1. \A k \in Counters : spent[k] <= spent'[k]
      BY <2>4, Disturbed DEF RunOne, TypeInv, Counters
    <3>2. PICK w \in Workers : job[w].task = t /\ pc[w] \in Holding
      BY <1>1, <2>4, <3>1 DEF RunOne, HasActiveLease, Counters
    <3>3. w # Solo
      BY <2>4, <3>2 DEF RunOne, Alive, Gone, Holding
    <3> QED
      BY <1>0, <2>4, <3>2, <3>3 DEF RunOne
  <2> QED
    BY <1>3, <2>1, <2>2, <2>3, <2>4 DEF Endpoints
<1>4. CASE Environment
  <2>1. ASSUME NEW u \in Tasks, LeaseExpires(u)
        PROVE  \E w \in Workers : job'[w].task = t /\ pc'[w] \in Holding
    <3>1. \A k \in Counters : spent[k] <= spent'[k]
      BY <2>1, Disturbed DEF LeaseExpires, TypeInv, Counters
    <3>2. HasActiveLease(t)
      BY <1>0, <2>1 DEF LeaseExpires, HasActiveLease, TypeInv, LeasesOK
    <3> QED
      BY <1>1, <2>1, <3>1, <3>2 DEF LeaseExpires, Counters
  <2>2. CASE ApprovalLapses
    BY <1>0, <1>1, <2>2 DEF ApprovalLapses, loopVars, HasActiveLease
  <2>3. CASE Crash
    <3>1. spent'.crashes = spent.crashes + 1
      BY <2>3, Disturbed DEF Crash, TypeInv
    <3> QED
      BY <1>0, <3>1
  <2> QED
    BY <1>4, <2>1, <2>2, <2>3 DEF Environment
<1>5. CASE UNCHANGED lvars
  BY <1>0, <1>1, <1>5 DEF lvars, loopVars, HasActiveLease
<1> QED
  BY <1>2, <1>3, <1>4, <1>5 DEF Next

LEMMA LeaseInitially == Init => LeaseOnlyWhileWorked
BY DEF Init, LeaseOnlyWhileWorked, HasActiveLease, NoLease

(* An active lease has a worker on its task that will release it, unless a
   release failed or the server restarted (task_worker.py, cleanup.py). *)
THEOREM LeasesAreWorked == Spec => []LeaseOnlyWhileWorked
<1>1. Init => RunInv /\ TypeInv /\ LeaseOnlyWhileWorked
  BY Initially, TypesInitially, LeaseInitially
<1>2. RunInv /\ TypeInv /\ LeaseOnlyWhileWorked /\ [Next]_lvars
        => RunInv' /\ TypeInv' /\ LeaseOnlyWhileWorked'
  BY RunStep, TypeStep, LeaseStep
<1> QED
  BY <1>1, <1>2, PTL DEF Spec
-----------------------------------------------------------------------------
(* The budget.  The loop decides on a copy of the row; what is counted in the
   row between two looks at the budget is at most one task and two failures
   of it. *)
CountedRow(r) ==
  /\ ~Created(r) => done.failed[r] = 0
  /\ Created(r) => /\ run[r].total <= MaxTasksPerRun
                   /\ run[r].failed <= 2 * run[r].total
  /\ spent.faults = 0 =>
       done.failed[r] <= MaxFailures /\ (Created(r) => done.failed[r] <= run[r].failed)

CountedStep(r) ==
  /\ pc[r] \in LoopSteps =>
       seen[r].total = run[r].total /\ seen[r].failed = run[r].failed
  /\ pc[r] = "scan" => run[r].total < MaxTasksPerRun
  /\ pc[r] \in {"scan"} \cup (WorkSteps \ {"account"}) => run[r].failed < MaxFailures
  /\ pc[r] \in WorkSteps \ {"account"} => run[r].failed + 2 <= 2 * run[r].total
  /\ pc[r] = "account" => run[r].failed < 2 * run[r].total

Counted(r) == CountedRow(r) /\ CountedStep(r)

BudgetInv == \A r \in Runs : Counted(r)

(* The counters of a run, and the failures it really had, as they were. *)
SameCounts(r) ==
  /\ Created(r) <=> Created(r)'
  /\ run'[r].total = run[r].total /\ run'[r].failed = run[r].failed
  /\ done'.failed[r] = done.failed[r]
  /\ spent.faults \in Nat /\ spent.faults <= spent'.faults /\ spent'.faults \in Nat

LEMMA RowKept ==
  ASSUME NEW r \in Runs, CountedRow(r), SameCounts(r)
  PROVE  CountedRow(r)'
BY DEF CountedRow, SameCounts

LEMMA UntouchedCounted ==
  ASSUME NEW r \in Runs, Counted(r), SameCounts(r), pc'[r] = pc[r], seen'[r] = seen[r]
  PROVE  Counted(r)'
<1>1. CountedRow(r)'
  BY RowKept DEF Counted
<1> QED
  BY <1>1 DEF Counted, CountedStep, SameCounts

LEMMA GoneCounted ==
  ASSUME NEW r \in Runs, Counted(r), SameCounts(r), pc'[r] = Gone
  PROVE  Counted(r)'
<1>1. CountedRow(r)'
  BY RowKept DEF Counted
<1> QED
  BY <1>1 DEF Counted, CountedStep, Gone, LoopSteps, WorkSteps

LEMMA LoopingCounted ==
  ASSUME NEW r \in Runs, Counted(r), SameCounts(r), UNCHANGED seen,
         pc[r] \in LoopSteps, pc'[r] \in LoopSteps \ {"scan"}
  PROVE  Counted(r)'
<1>1. CountedRow(r)'
  BY RowKept DEF Counted
<1> QED
  BY <1>1 DEF Counted, CountedStep, SameCounts, LoopSteps, WorkSteps

LEMMA WorkingCounted ==
  ASSUME NEW r \in Runs, Counted(r), SameCounts(r), UNCHANGED seen,
         pc[r] \in WorkSteps \ {"account"}, pc'[r] \in WorkSteps,
         run[r].failed \in Nat, run[r].total \in Nat
  PROVE  Counted(r)'
<1>1. CountedRow(r)'
  BY RowKept DEF Counted
<1> QED
  BY <1>1 DEF Counted, CountedStep, SameCounts, LoopSteps, WorkSteps

LEMMA Numbers ==
  ASSUME RunInv, TypeInv, NEW r \in Runs
  PROVE  /\ done.failed[r] \in Nat /\ seen[r].total \in Nat /\ seen[r].failed \in Nat
         /\ Created(r) => /\ run[r].total \in Nat /\ run[r].failed \in Nat
                          /\ run[r].project \in Projects
         /\ DOMAIN pc = Workers /\ DOMAIN run = Runs /\ DOMAIN seen = Runs
         /\ DOMAIN done.failed = Runs /\ DOMAIN job = Workers
BY CreatedRow DEF TypeInv, DoneOK, SeenOK, RunInv, ThreadsOK, RowsOK, JobsOK

(* A status written in its row leaves the counters of a run alone. *)
LEMMA StatusCounts ==
  ASSUME RunInv, TypeInv, NEW r \in Runs, Thread(r), Created(r),
         done' = done,
         UNCHANGED run \/ \E s \in Active \cup Terminal : run' = WithStatus(r, s)
  PROVE  SameCounts(r)
<1>1. /\ spent.faults \in Nat /\ spent.faults <= spent'.faults /\ spent'.faults \in Nat
  <2>1. TypeInv'
    BY Names, TypeStep DEF Next
  <2> QED
    BY <2>1, Names, ThreadSpends DEF Counters, TypeInv, SpentOK
<1>2. CASE UNCHANGED run
  BY <1>1, <1>2 DEF SameCounts, Created
<1>3. ASSUME NEW s \in Active \cup Terminal, run' = WithStatus(r, s) PROVE SameCounts(r)
  BY <1>1, <1>3, StatusWritten DEF SameCounts, Created, RunInv
<1> QED
  BY <1>2, <1>3

LEMMA LoopCounts ==
  ASSUME RunInv, TypeInv, NEW r \in Runs, Counted(r), Created(r),
         \/ Boot(r) \/ TopLeave(r) \/ TopPause(r) \/ TopBudget(r) \/ TopScan(r)
         \/ Wait(r) \/ Leave(r) \/ HandleNoRunnable(r) \/ LoopFails(r) \/ Denied(r)
  PROVE  Counted(r)'
<1> USE DEF Goto, SetStatus
<1>0. /\ Thread(r) /\ r \in Workers /\ DOMAIN pc = Workers /\ DOMAIN run = Runs
      /\ run[r].total \in Nat /\ run[r].failed \in Nat
      /\ seen[r].total \in Nat /\ seen[r].failed \in Nat
      /\ {"boot", "top", "waiting", "leaving", "scan"} \subseteq LoopSteps
  BY Names, Numbers DEF Thread, LoopStep, LoopSteps
<1>1. /\ done' = done
      /\ UNCHANGED run \/ \E s \in Active \cup Terminal : run' = WithStatus(r, s)
  BY StatusesWritten
  DEF Boot, TopLeave, TopPause, TopBudget, TopScan, Wait, Leave, HandleNoRunnable,
      LoopFails, Denied
<1>2. SameCounts(r)
  BY <1>0, <1>1, StatusCounts
<1>3. CASE Boot(r) \/ TopLeave(r) \/ TopPause(r) \/ Wait(r)
  BY <1>0, <1>2, <1>3, LoopingCounted DEF Boot, TopLeave, TopPause, Wait
<1>4. CASE TopBudget(r) \/ Leave(r) \/ HandleNoRunnable(r) \/ LoopFails(r) \/ Denied(r)
  BY <1>0, <1>2, <1>4, GoneCounted
  DEF TopBudget, Leave, HandleNoRunnable, LoopFails, Denied, End
<1>5. CASE TopScan(r)
  <2>1. pc[r] = "top" /\ pc'[r] = "scan" /\ UNCHANGED seen /\ ~BudgetSpent(r)
    BY <1>0, <1>5 DEF TopScan
  <2>2. run[r].total < MaxTasksPerRun /\ run[r].failed < MaxFailures
    BY <1>0, <2>1 DEF Counted, CountedStep, BudgetSpent
  <2>3. CountedRow(r)'
    BY <1>2, RowKept DEF Counted
  <2> QED
    BY <1>0, <1>2, <2>1, <2>2, <2>3 DEF Counted, CountedStep, SameCounts, WorkSteps
<1> QED
  BY <1>3, <1>4, <1>5

(* A task is counted as it is taken; the budget was looked at just before. *)
LEMMA ScanCounts ==
  ASSUME RunInv, TypeInv, NEW r \in Runs, Counted(r), Created(r), Scan(r)
  PROVE  Counted(r)'
<1>0. /\ Thread(r) /\ r \in Workers /\ DOMAIN pc = Workers /\ DOMAIN run = Runs
      /\ run[r].total \in Nat /\ run[r].failed \in Nat
      /\ "scan" \in LoopSteps /\ "idle" \in LoopSteps /\ "claim" \in WorkSteps
  BY Names, Numbers DEF Thread, LoopStep, LoopSteps, WorkSteps
<1>1. pc[r] = "scan" /\ UNCHANGED <<seen, spent, done>>
  BY DEF Scan
<1>2. CASE pc' = [pc EXCEPT ![r] = "idle"] /\ UNCHANGED run
  <2>1. SameCounts(r)
    BY <1>0, <1>1, <1>2, StatusCounts
  <2> QED
    BY <1>0, <1>1, <1>2, <2>1, LoopingCounted
<1>3. CASE pc' = [pc EXCEPT ![r] = "claim"] /\ run' = TakesTask(r)
  <2> DEFINE mid == WithStatus(r, "executing")
  <2>1. /\ mid \in [Runs -> Rows] /\ mid[r].status # "none"
        /\ mid[r].total = run[r].total /\ mid[r].failed = run[r].failed
    BY StatusWritten, StatusesWritten DEF RunInv
  <2>2. mid[r] \in [status : Active \cup Terminal, project : Projects,
                    total : Nat, failed : Nat]
    BY <2>1 DEF Rows, NoRun
  <2> HIDE DEF mid
  <2>3. run' = [mid EXCEPT ![r].total = @ + 1]
    BY <1>3 DEF mid, TakesTask
  <2>4. /\ Created(r)' /\ run'[r].total = run[r].total + 1
        /\ run'[r].failed = run[r].failed /\ pc'[r] = "claim"
    BY <1>0, <1>3, <2>1, <2>2, <2>3 DEF Created
  <2>5. run[r].total < MaxTasksPerRun /\ run[r].failed < MaxFailures
    BY <1>1 DEF Counted, CountedStep
  <2>6. CountedRow(r)'
    BY <1>0, <1>1, <2>4, <2>5 DEF Counted, CountedRow
  <2>7. CountedStep(r)'
    BY <1>0, <1>1, <2>4, <2>5 DEF Counted, CountedRow, CountedStep, LoopSteps, WorkSteps
  <2> QED
    BY <2>6, <2>7 DEF Counted
<1> QED
  BY <1>2, <1>3 DEF Scan, Goto, TakesTask

LEMMA WorkCounts ==
  ASSUME RunInv, TypeInv, NEW r \in Runs, Counted(r), Created(r),
         \/ Claim(r) \/ Execute(r) \/ FinalizeRelease(r) \/ FinalizeTask(r)
         \/ ConsumeSelect(r) \/ ConsumeUpdate(r)
  PROVE  Counted(r)'
<1> USE DEF Goto
<1>0. /\ Thread(r) /\ r \in Workers /\ r # Solo /\ DOMAIN pc = Workers
      /\ run[r].total \in Nat /\ run[r].failed \in Nat
      /\ {"claim", "consume", "spend", "execute", "release", "mark"}
           \subseteq WorkSteps \ {"account"}
      /\ {"stats", "account", "denied"} \subseteq WorkSteps
  BY Names, Numbers DEF Thread, WorkerStep, LoopStep, WorkSteps
<1>1. /\ UNCHANGED <<run, seen>> /\ done'.failed = done.failed
      /\ pc[r] \in WorkSteps \ {"account"} /\ pc'[r] \in WorkSteps
  <2>1. CASE Claim(r)
    <3>1. UNCHANGED <<run, seen>> /\ pc[r] = "claim"
      BY <1>0, <2>1 DEF Claim
    <3>2. pc'[r] \in {"consume", "execute", "account"}
      BY <1>0, <2>1 DEF Claim
    <3>3. done'.failed = done.failed
      BY <2>1 DEF Claim, TypeInv, DoneOK
    <3> QED
      BY <1>0, <3>1, <3>2, <3>3
  <2>2. CASE Execute(r) \/ FinalizeRelease(r) \/ FinalizeTask(r) \/ ConsumeSelect(r)
    BY <1>0, <2>2 DEF Execute, FinalizeRelease, FinalizeTask, ConsumeSelect
  <2>3. CASE ConsumeUpdate(r)
    <3>1. UNCHANGED <<run, seen>> /\ pc[r] = "spend" /\ pc'[r] \in {"execute", "denied"}
      BY <1>0, <2>3 DEF ConsumeUpdate
    <3>2. done'.failed = done.failed
      BY <2>3 DEF ConsumeUpdate, TypeInv, DoneOK
    <3> QED
      BY <1>0, <3>1, <3>2
  <2> QED
    BY <2>1, <2>2, <2>3
<1>2. /\ spent.faults \in Nat /\ spent.faults <= spent'.faults /\ spent'.faults \in Nat
  <2>1. TypeInv'
    BY <1>0, TypeStep DEF Next
  <2> QED
    BY <1>0, <2>1, ThreadSpends DEF Counters, TypeInv, SpentOK
<1>3. SameCounts(r)
  BY <1>1, <1>2 DEF SameCounts, Created
<1> QED
  BY <1>0, <1>1, <1>3, WorkingCounted

(* The finalizer counts a failed execution, unless its write fails. *)
LEMMA StatsCounts ==
  ASSUME RunInv, TypeInv, NEW r \in Runs, Counted(r), Created(r), FinalizeStats(r)
  PROVE  Counted(r)'
<1>0. /\ Thread(r) /\ r \in Workers /\ DOMAIN pc = Workers
      /\ run[r] \in [status : Active \cup Terminal, project : Projects,
                     total : Nat, failed : Nat]
      /\ done.failed[r] \in Nat /\ DOMAIN run = Runs /\ DOMAIN done.failed = Runs
      /\ "stats" \in WorkSteps \ {"account"}
  BY Names, Numbers, CreatedRow DEF Thread, LoopStep, WorkSteps, RunInv
<1>1. pc[r] = "stats" /\ pc'[r] = "account" /\ UNCHANGED seen
  BY <1>0 DEF FinalizeStats, Goto
<1>2. run[r].failed < MaxFailures /\ run[r].failed + 2 <= 2 * run[r].total
  BY <1>0, <1>1 DEF Counted, CountedStep
<1>3. /\ Created(r)' /\ run'[r].total = run[r].total /\ run'[r].failed \in Nat
      /\ run[r].failed <= run'[r].failed /\ run'[r].failed <= run[r].failed + 1
  BY <1>0 DEF FinalizeStats, CountFailure, Created
<1>4. spent.faults \in Nat /\ spent'.faults \in Nat
      /\ \/ spent'.faults > 0
         \/ /\ spent' = spent
            /\ done'.failed[r] - done.failed[r] = run'[r].failed - run[r].failed
            /\ done'.failed[r] \in Nat
  <2>1. CASE UNCHANGED spent /\ run' = IF job[r].outcome = "failed" THEN CountFailure(r) ELSE run
    <3>1. spent.faults \in Nat
      BY DEF TypeInv, SpentOK
    <3>2. CASE job[r].outcome = "failed"
      <4>1. run'[r].failed = run[r].failed + 1 /\ done' = [done EXCEPT !.failed[r] = @ + 1]
        BY <1>0, <2>1, <3>2 DEF FinalizeStats, CountFailure
      <4>2. done'.failed[r] = done.failed[r] + 1
        BY <1>0, <4>1 DEF TypeInv, DoneOK
      <4> QED
        BY <1>0, <2>1, <3>1, <4>1, <4>2
    <3>3. CASE job[r].outcome # "failed"
      BY <1>0, <2>1, <3>1, <3>3 DEF FinalizeStats
    <3> QED
      BY <3>2, <3>3
  <2>2. CASE Fails
    BY <2>2, Disturbed DEF Fails, TypeInv, SpentOK
  <2> QED
    BY <2>1, <2>2 DEF FinalizeStats
<1>5. CountedRow(r)'
  BY <1>0, <1>2, <1>3, <1>4 DEF Counted, CountedRow
<1>6. CountedStep(r)'
  BY <1>0, <1>1, <1>2, <1>3 DEF CountedStep, LoopSteps, WorkSteps
<1> QED
  BY <1>5, <1>6 DEF Counted

(* Back in the loop a failure may be counted once more, and the copy of the
   row is made anew. *)
LEMMA AccountCounts ==
  ASSUME RunInv, TypeInv, NEW r \in Runs, Counted(r), Created(r), Account(r)
  PROVE  Counted(r)'
<1>0. /\ r \in Workers /\ DOMAIN pc = Workers /\ DOMAIN run = Runs /\ DOMAIN seen = Runs
      /\ run[r] \in [status : Active \cup Terminal, project : Projects,
                     total : Nat, failed : Nat]
      /\ done.failed[r] \in Nat /\ spent.faults \in Nat
      /\ "account" \in WorkSteps
  BY Names, Numbers, CreatedRow DEF WorkSteps, RunInv, TypeInv, SpentOK
<1>1. pc[r] = "account" /\ pc'[r] = "top" /\ UNCHANGED <<spent, done>>
  BY <1>0 DEF Account, Goto
<1>2. run[r].failed < 2 * run[r].total
  BY <1>1 DEF Counted, CountedStep
<1>3. /\ Created(r)' /\ run'[r].total = run[r].total /\ run'[r].failed \in Nat
      /\ run[r].failed <= run'[r].failed /\ run'[r].failed <= run[r].failed + 1
  <2>1. run' = run \/ run' = CountFailure(r)
    BY DEF Account
  <2> QED
    BY <1>0, <2>1 DEF CountFailure, Created
<1>4. seen'[r].total = run'[r].total /\ seen'[r].failed = run'[r].failed
  BY <1>0 DEF Account
<1>5. CountedRow(r)'
  BY <1>0, <1>1, <1>2, <1>3 DEF Counted, CountedRow
<1>6. CountedStep(r)'
  BY <1>1, <1>4 DEF CountedStep, WorkSteps
<1> QED
  BY <1>5, <1>6 DEF Counted

LEMMA FailuresOfOthers ==
  ASSUME RunInv, TypeInv, NEW w \in Workers, Thread(w), NEW q \in Runs \ {w}
  PROVE  done'.failed[q] = done.failed[q]
<1>0. DOMAIN done.failed = Runs
  BY DEF TypeInv, DoneOK
<1>1. CASE Claim(w) \/ ConsumeUpdate(w)
  BY <1>1 DEF Claim, ConsumeUpdate, TypeInv, DoneOK
<1>2. CASE FinalizeStats(w)
  <2>1. done' = [done EXCEPT !.failed[w] = @ + 1] \/ UNCHANGED done
    BY <1>2 DEF FinalizeStats
  <2> QED
    BY <1>0, <2>1 DEF TypeInv, DoneOK
<1>3. CASE \/ Execute(w) \/ FinalizeRelease(w) \/ FinalizeTask(w)
           \/ Boot(w) \/ TopLeave(w) \/ TopPause(w) \/ TopBudget(w) \/ TopScan(w) \/ Wait(w)
           \/ Leave(w) \/ Scan(w) \/ HandleNoRunnable(w) \/ LoopFails(w)
           \/ ConsumeSelect(w) \/ Denied(w) \/ Account(w)
  BY <1>3 DEF Execute, FinalizeRelease, FinalizeTask, Boot, TopLeave, TopPause, TopBudget,
              TopScan, Wait, Leave, Scan, HandleNoRunnable, LoopFails, ConsumeSelect,
              Denied, Account
<1> QED
  BY <1>1, <1>2, <1>3 DEF Thread, WorkerStep, LoopStep

(* A failed step of a finalization is not forgotten. *)
LEMMA SpentGrows ==
  ASSUME RunInv, TypeInv, [Next]_lvars
  PROVE  /\ spent.faults \in Nat /\ spent'.faults \in Nat
         /\ spent.faults <= spent'.faults
<1>1. spent.faults \in Nat /\ spent'.faults \in Nat
  BY TypeStep DEF TypeInv, SpentOK
<1>2. CASE UNCHANGED spent
  BY <1>1, <1>2
<1>3. ASSUME NEW kind \in Counters, Disturbance(kind) PROVE spent.faults <= spent'.faults
  BY <1>3, Disturbed DEF Counters, TypeInv
<1>4. CASE Endpoints
  <2>1. UNCHANGED spent \/ Disturbance("solo")
    BY <1>4
    DEF Endpoints, Start, Pause, Resume, BeginStop, WriteStopping, SignalStop,
        Retry, RunOne, Approvals, loopVars
  <2> QED
    BY <1>1, <1>2, <1>3, <2>1 DEF Counters
<1>5. CASE Environment
  <2>1. UNCHANGED spent \/ Disturbance("expiries") \/ Disturbance("crashes")
    BY <1>5 DEF Environment, LeaseExpires, ApprovalLapses, Crash, loopVars
  <2> QED
    BY <1>1, <1>2, <1>3, <2>1 DEF Counters
<1>6. CASE UNCHANGED lvars
  BY <1>2, <1>6 DEF lvars, loopVars
<1>7. ASSUME NEW w \in Workers, Thread(w) PROVE spent.faults <= spent'.faults
  BY <1>7, ThreadSpends DEF Counters
<1> QED
  BY <1>1, <1>4, <1>5, <1>6, <1>7 DEF Next

LEMMA ThreadCounts ==
  ASSUME RunInv, TypeInv, BudgetInv, NEW w \in Workers, Thread(w)
  PROVE  BudgetInv'
<1> SUFFICES ASSUME NEW r \in Runs PROVE Counted(r)'
  BY DEF BudgetInv
<1>0. Counted(r) /\ r \in Workers /\ Solo \notin Runs
  BY Names DEF BudgetInv
<1>1. CASE r # w
  <2>1. pc'[r] = pc[r] /\ seen'[r] = seen[r] /\ done'.failed[r] = done.failed[r]
    BY <1>0, <1>1, Bystanders, FailuresOfOthers
  <2>2. run'[r] = run[r]
    BY <1>1, ThreadWrites, RowWritten DEF WritesRow
  <2>3. SameCounts(r)
    BY <2>1, <2>2, SpentGrows DEF Next, SameCounts, Created
  <2> QED
    BY <1>0, <2>1, <2>3, UntouchedCounted
<1>2. CASE r = w
  <2>1. Created(r)
    <3>1. pc[r] # Gone
      BY <1>2
      DEF Thread, WorkerStep, Claim, Execute, FinalizeRelease, FinalizeTask,
          LoopStep, Boot, TopLeave, TopPause, TopBudget, TopScan, Wait, Leave, Scan,
          HandleNoRunnable, LoopFails, ConsumeSelect, ConsumeUpdate, Denied,
          FinalizeStats, Account, LoopSteps, Gone
    <3> QED
      BY <3>1, AliveIsCreated DEF RunInv, Alive
  <2>2. CASE WorkerStep(r)
    BY <1>0, <2>1, <2>2, WorkCounts DEF WorkerStep
  <2>3. CASE LoopStep(r)
    BY <1>0, <2>1, <2>3, LoopCounts, ScanCounts, WorkCounts, StatsCounts, AccountCounts
    DEF LoopStep
  <2> QED
    BY <1>2, <2>2, <2>3 DEF Thread
<1> QED
  BY <1>1, <1>2

LEMMA EndpointCounts ==
  ASSUME RunInv, TypeInv, BudgetInv, Endpoints
  PROVE  BudgetInv'
<1> SUFFICES ASSUME NEW r \in Runs PROVE Counted(r)'
  BY DEF BudgetInv
<1>0. /\ Counted(r) /\ r \in Workers /\ r # Solo
      /\ spent.faults \in Nat /\ spent'.faults \in Nat /\ spent.faults <= spent'.faults
      /\ DOMAIN pc = Workers /\ DOMAIN run = Runs /\ DOMAIN seen = Runs
  BY Names, Numbers, SpentGrows DEF BudgetInv, Next
<1>1. ASSUME run'[r] = run[r], pc'[r] = pc[r], seen'[r] = seen[r], UNCHANGED done
      PROVE  Counted(r)'
  <2>1. SameCounts(r)
    BY <1>0, <1>1 DEF SameCounts, Created
  <2> QED
    BY <1>0, <1>1, <2>1, UntouchedCounted
<1>2. ASSUME NEW q \in Runs, Created(q), NEW s \in Active, run' = WithStatus(q, s),
             UNCHANGED <<pc, seen, done>>
      PROVE  Counted(r)'
  <2>1. SameCounts(r)
    <3>1. /\ run'[r].total = run[r].total /\ run'[r].failed = run[r].failed
          /\ Created(r) <=> Created(r)'
      BY <1>2, StatusWritten DEF RunInv, Created
    <3> QED
      BY <1>0, <1>2, <3>1 DEF SameCounts
  <2> QED
    BY <1>0, <1>2, <2>1, UntouchedCounted
<1>3. ASSUME NEW p \in Projects, Start(p) PROVE Counted(r)'
  <2>1. PICK n \in Runs :
          /\ \A q \in Runs : Created(q) <=> q < n
          /\ run' = [run EXCEPT ![n] =
               [status |-> "starting", project |-> p, total |-> 0, failed |-> 0]]
          /\ pc' = [pc EXCEPT ![n] = "boot"]
          /\ seen' = [seen EXCEPT ![n] = NothingSeen]
    BY <1>3 DEF Start
  <2>2. done'.failed = done.failed
    BY <1>3 DEF Start, TypeInv, DoneOK
  <2>3. CASE r = n
    <3>1. ~Created(r)
      BY <2>1, <2>3 DEF Runs
    <3>2. /\ pc'[r] = "boot" /\ run'[r].total = 0 /\ run'[r].failed = 0
          /\ run'[r].status = "starting" /\ seen'[r] = NothingSeen
      BY <1>0, <2>1, <2>3
    <3>3. CountedRow(r)'
      BY <1>0, <2>2, <3>1, <3>2 DEF Counted, CountedRow, Created
    <3>4. CountedStep(r)'
      BY <3>2 DEF CountedStep, WorkSteps, NothingSeen
    <3> QED
      BY <3>3, <3>4 DEF Counted
  <2>4. CASE r # n
    <3>1. run'[r] = run[r] /\ pc'[r] = pc[r] /\ seen'[r] = seen[r]
      BY <1>0, <2>1, <2>4
    <3>2. SameCounts(r)
      BY <1>0, <2>2, <3>1 DEF SameCounts, Created
    <3> QED
      BY <1>0, <3>1, <3>2, UntouchedCounted
  <2> QED
    BY <2>3, <2>4
<1>4. CASE Pause \/ BeginStop \/ SignalStop \/ Approvals \/ \E t \in Tasks : Retry(t)
  BY <1>1, <1>4 DEF Pause, BeginStop, SignalStop, Approvals, Retry, loopVars
<1>5. CASE Resume
  <2>1. ctl.run \in Runs /\ Created(ctl.run)
    BY <1>5 DEF RunInv, ControllerOK, Resume
  <2>2. "scanning" \in Active
    BY DEF Active
  <2> QED
    BY <1>2, <1>5, <2>1, <2>2 DEF Resume, SetStatus
<1>6. CASE WriteStopping
  <2>1. stopping.run \in Runs /\ Created(stopping.run)
    BY <1>6 DEF RunInv, StopOK, WriteStopping
  <2>2. "stopping" \in Active
    BY DEF Active
  <2> QED
    BY <1>2, <1>6, <2>1, <2>2 DEF WriteStopping, SetStatus
<1>7. ASSUME NEW t \in Tasks, RunOne(t) PROVE Counted(r)'
  BY <1>0, <1>1, <1>7 DEF RunOne
<1> QED
  BY <1>3, <1>4, <1>5, <1>6, <1>7 DEF Endpoints

LEMMA BudgetStep == RunInv /\ TypeInv /\ BudgetInv /\ [Next]_lvars => BudgetInv'
<1> SUFFICES ASSUME RunInv, TypeInv, BudgetInv, [Next]_lvars PROVE BudgetInv'
  OBVIOUS
<1>0. spent.faults \in Nat /\ spent'.faults \in Nat /\ spent.faults <= spent'.faults
  BY SpentGrows
<1>1. ASSUME UNCHANGED <<run, pc, seen, done>> PROVE BudgetInv'
  <2> SUFFICES ASSUME NEW r \in Runs PROVE Counted(r)'
    BY DEF BudgetInv
  <2>1. SameCounts(r)
    BY <1>0, <1>1 DEF SameCounts, Created
  <2> QED
    BY <1>1, <2>1, UntouchedCounted DEF BudgetInv
<1>2. CASE Crash
  <2> SUFFICES ASSUME NEW r \in Runs PROVE Counted(r)'
    BY DEF BudgetInv
  <2>1. SameCounts(r) /\ pc'[r] = Gone
    BY <1>0, <1>2, Names DEF Crash, SameCounts, Created
  <2> QED
    BY <2>1, GoneCounted DEF BudgetInv
<1>3. CASE Environment
  BY <1>1, <1>2, <1>3 DEF Environment, LeaseExpires, ApprovalLapses, loopVars
<1>4. CASE UNCHANGED lvars
  BY <1>1, <1>4 DEF lvars, loopVars
<1> QED
  BY <1>3, <1>4, ThreadCounts, EndpointCounts DEF Next

LEMMA BudgetInitially == Init => BudgetInv
<1> SUFFICES ASSUME Init, NEW r \in Runs PROVE Counted(r)
  BY DEF BudgetInv
<1>1. pc[r] = Gone /\ ~Created(r) /\ done.failed[r] = 0
  BY Names DEF Init, Created, NoRun
<1> QED
  BY <1>1 DEF Counted, CountedRow, CountedStep, Gone, LoopSteps, WorkSteps

LEMMA TypesAndBudget == Spec => [](RunInv /\ TypeInv /\ BudgetInv)
<1>1. Init => RunInv /\ TypeInv /\ BudgetInv
  BY Initially, TypesInitially, BudgetInitially
<1>2. RunInv /\ TypeInv /\ BudgetInv /\ [Next]_lvars => RunInv' /\ TypeInv' /\ BudgetInv'
  BY RunStep, TypeStep, BudgetStep
<1> QED
  BY <1>1, <1>2, PTL DEF Spec

(* No run takes more tasks than its budget and, as long as no step of a
   finalization failed, none ends more of them in failure (loop_controller.py,
   budget_guard.py, cleanup.py). *)
THEOREM BudgetIsHeld == Spec => []BudgetHeld
<1>1. BudgetInv => BudgetHeld
  BY DEF BudgetInv, Counted, CountedRow, BudgetHeld
<1> QED
  BY <1>1, TypesAndBudget, PTL

(* Every variable holds a value of its kind, and the counters of a row stay
   within what the budget allows. *)
THEOREM RunTyped == Spec => []RunTypeOK
<1>1. ASSUME RunInv, TypeInv, BudgetInv PROVE RunTypeOK
  <2>1. ASSUME NEW r \in Runs, Created(r) PROVE run[r] \in RunRow
    <3>1. run[r] \in [status : Active \cup Terminal, project : Projects,
                      total : Nat, failed : Nat]
      BY <1>1, <2>1, CreatedRow DEF RunInv
    <3>2. run[r].total <= MaxTasksPerRun /\ run[r].failed <= 2 * run[r].total
      BY <1>1, <2>1 DEF BudgetInv, Counted, CountedRow
    <3>3. run[r].total \in 0 .. MaxTasksPerRun /\ run[r].failed \in 0 .. 2 * MaxTasksPerRun
      BY <3>1, <3>2
    <3> QED
      BY <3>1, <3>3 DEF RunRow
  <2>2. \A r \in Runs : run[r] = NoRun \/ run[r] \in RunRow
    BY <1>1, <2>1 DEF RunInv, RowsOK, Rows, Created, Active, Terminal
  <2> QED
    BY <1>1, <2>2
    DEF RunInv, ThreadsOK, Steps, TypeInv, TasksOK, LeasesOK, JobsOK, FieldsOK, RunTypeOK
<1> QED
  BY <1>1, TypesAndBudget, PTL
-----------------------------------------------------------------------------
(* The approvals.  What the controller remembers of a consumed approval is
   only right as long as the one loop it serves is the only one alive. *)
Lists(a, t) ==
  t \in approval[a].scope \/ (approval[a].scope = {} /\ approval[a].task = t)

ConsumedFor(a, r, t) ==
  /\ approval[a].status = "consumed" /\ approval[a].run = r
  /\ approval[a].project = ProjectOf[t] /\ Lists(a, t)

Underway == {"execute", "release", "mark", "stats", "account"}

LoneLoop == ~done.overlap => \A r \in Runs : Alive(r) => r = ctl.run

OwnTask(r) == pc[r] \in WorkSteps => ProjectOf[job[r].task] = run[r].project

(* The approval a worker has selected, and the one it has consumed. *)
Selects(a, r) ==
  /\ Requested(a) /\ approval[a].project = run[r].project
  /\ approval[a].scope = {} \/ job[r].task \in approval[a].scope

Pays(a, r) == ConsumedFor(a, r, job[r].task) /\ approval[a].task = job[r].task

Paid(r) ==
  /\ pc[r] \in {"claim", "consume"} => job[r].approval = 0
  /\ pc[r] = "spend" => Selects(job[r].approval, r)
  /\ pc[r] \in Underway /\ job[r].approval # 0 => Pays(job[r].approval, r)

(* The scope in the controller is that of an approval its run has consumed. *)
ScopeOf(a) == IF approval[a].scope # {} THEN approval[a].scope ELSE {approval[a].task}

Backs(a) ==
  /\ approval[a].status = "consumed" /\ approval[a].run = ctl.run
  /\ approval[a].project = run[ctl.run].project
  /\ ctl.scope = ScopeOf(a) /\ ctl.scope # NoScope

Remembers ==
  ~done.overlap /\ ctl.consumed => ctl.run \in Runs /\ \E a \in ApprovalIds : Backs(a)

WithinScope(r) ==
  ~done.overlap /\ ctl.consumed /\ pc[r] = "claim" => job[r].task \in ctl.scope

BegunApproved ==
  ~done.overlap =>
    /\ ~done.astray
    /\ \A r \in Runs, t \in Tasks :
         <<r, t>> \in done.begun => \E a \in ApprovalIds : ConsumedFor(a, r, t)

ApprovedInv ==
  /\ LoneLoop /\ Remembers /\ BegunApproved
  /\ \A r \in Runs : OwnTask(r) /\ Paid(r) /\ WithinScope(r)

(* What no step changes in an approval once it is requested, or consumed. *)
ApprovalKept(a) ==
  /\ Requested(a) => /\ Requested(a)'
                     /\ approval'[a].project = approval[a].project
                     /\ approval'[a].scope = approval[a].scope
  /\ approval[a].status = "consumed" => approval'[a] = approval[a]

LEMMA ApprovalsStay ==
  ASSUME RunInv, TypeInv, [Next]_lvars, NEW a \in ApprovalIds
  PROVE  ApprovalKept(a)
<1>0. /\ DOMAIN approval = ApprovalIds
      /\ Requested(a) =>
           approval[a] \in
             [status : {"pending", "approved", "rejected", "consumed"}, project : Projects,
              scope : SUBSET Tasks, lapsed : BOOLEAN,
              run : Runs \cup {0}, task : Tasks \cup {0}]
  BY DEF TypeInv, ApprovalsOK, ApprovalRows, Requested, NoApproval
<1>1. CASE UNCHANGED approval
  BY <1>1 DEF ApprovalKept, Requested
<1>2. ASSUME NEW w \in Workers, ConsumeUpdate(w) PROVE ApprovalKept(a)
  <2>1. CASE /\ approval[job[w].approval].status = "approved"
             /\ approval' = Consumed(job[w].approval, w, job[w].task)
    <3>1. CASE a = job[w].approval
      BY <1>0, <2>1, <3>1 DEF ApprovalKept, Requested, Consumed
    <3>2. CASE a # job[w].approval
      BY <1>0, <2>1, <3>2 DEF ApprovalKept, Requested, Consumed
    <3> QED
      BY <3>1, <3>2
  <2> QED
    BY <1>1, <1>2, <2>1 DEF ConsumeUpdate
<1>3. ASSUME NEW p \in Projects, NEW scope \in Scopes, Request(p, scope)
      PROVE  ApprovalKept(a)
  <2>1. PICK b \in ApprovalIds :
          /\ \A c \in ApprovalIds : Requested(c) <=> c < b
          /\ approval' = [approval EXCEPT ![b] =
               [status |-> "pending", project |-> p, scope |-> scope,
                lapsed |-> FALSE, run |-> 0, task |-> 0]]
    BY <1>3 DEF Request
  <2>2. ~Requested(b)
    BY <2>1 DEF ApprovalIds
  <2>3. CASE a = b
    BY <2>2, <2>3 DEF ApprovalKept, Requested
  <2>4. CASE a # b
    BY <1>0, <2>1, <2>4 DEF ApprovalKept, Requested
  <2> QED
    BY <2>3, <2>4
<1>4. ASSUME NEW b \in ApprovalIds, Approve(b) \/ Reject(b) \/ Lapse(b)
      PROVE  ApprovalKept(a)
  <2>1. CASE a = b
    BY <1>0, <1>4, <2>1 DEF Approve, Reject, Lapse, ApprovalKept, Requested
  <2>2. CASE a # b
    BY <1>0, <1>4, <2>2 DEF Approve, Reject, Lapse, ApprovalKept, Requested
  <2> QED
    BY <2>1, <2>2
<1>5. ASSUME NEW w \in Workers, Thread(w), ~ConsumeUpdate(w) PROVE UNCHANGED approval
  <2>1. CASE WorkerStep(w)
    BY <2>1 DEF WorkerStep, Claim, Execute, FinalizeRelease, FinalizeTask
  <2>2. CASE LoopStep(w)
    BY <1>5, <2>2 DEF LoopStep, Boot, TopLeave, TopPause, TopBudget, TopScan, Wait, Leave,
       Scan, HandleNoRunnable, LoopFails, ConsumeSelect, Denied, FinalizeStats, Account
  <2> QED
    BY <1>5, <2>1, <2>2 DEF Thread
<1>6. CASE Endpoints
  <2>1. CASE Approvals
    BY <1>3, <1>4, <2>1 DEF Approvals
  <2>2. CASE ~Approvals
    BY <1>1, <1>6, <2>2
    DEF Endpoints, Start, Pause, Resume, BeginStop, WriteStopping, SignalStop, Retry, RunOne
  <2> QED
    BY <2>1, <2>2
<1>7. CASE Environment
  BY <1>1, <1>4, <1>7 DEF Environment, LeaseExpires, ApprovalLapses, Crash
<1>8. CASE UNCHANGED lvars
  BY <1>1, <1>8 DEF lvars
<1> QED
  BY <1>1, <1>2, <1>5, <1>6, <1>7, <1>8 DEF Next

(* A run stays in the table, and in its project. *)
LEMMA RowsStay ==
  ASSUME RunInv, [Next]_lvars, NEW r \in Runs, Created(r)
  PROVE  Created(r)' /\ run'[r].project = run[r].project
<1>1. CASE UNCHANGED run
  BY <1>1 DEF Created
<1>2. ASSUME NEW w \in Workers, Thread(w) PROVE Created(r)' /\ run'[r].project = run[r].project
  BY <1>1, <1>2, ThreadWrites, RowWritten DEF WritesRow, Created
<1>3. ASSUME NEW p \in Projects, Start(p)
      PROVE  Created(r)' /\ run'[r].project = run[r].project
  <2>1. PICK n \in Runs :
          /\ \A q \in Runs : Created(q) <=> q < n
          /\ run' = [run EXCEPT ![n] =
               [status |-> "starting", project |-> p, total |-> 0, failed |-> 0]]
    BY <1>3 DEF Start
  <2>2. r # n
    BY <2>1 DEF Runs
  <2> QED
    BY <2>1, <2>2 DEF RunInv, RowsOK, Created
<1>4. ASSUME NEW q \in Runs, Created(q), NEW s \in Active, run' = WithStatus(q, s)
      PROVE  Created(r)' /\ run'[r].project = run[r].project
  BY <1>4, StatusWritten DEF RunInv, Created
<1>5. CASE Resume
  BY <1>4, <1>5 DEF Resume, SetStatus, RunInv, ControllerOK, Active
<1>6. CASE WriteStopping
  BY <1>4, <1>6 DEF WriteStopping, SetStatus, RunInv, StopOK, Active
<1>7. CASE Endpoints
  BY <1>1, <1>3, <1>5, <1>6, <1>7
  DEF Endpoints, Pause, BeginStop, SignalStop, Retry, RunOne, Approvals, loopVars
<1>8. CASE Environment \/ UNCHANGED lvars
  BY <1>1, <1>8 DEF Environment, LeaseExpires, ApprovalLapses, Crash, lvars, loopVars
<1> QED
  BY <1>2, <1>7, <1>8 DEF Next

LEMMA ConsumedStays ==
  ASSUME RunInv, TypeInv, [Next]_lvars, NEW a \in ApprovalIds, NEW r, NEW t,
         ConsumedFor(a, r, t)
  PROVE  ConsumedFor(a, r, t)'
BY ApprovalsStay DEF ApprovalKept, ConsumedFor, Lists

LEMMA PaysStays ==
  ASSUME RunInv, TypeInv, [Next]_lvars, NEW a \in ApprovalIds, NEW r \in Runs, Pays(a, r),
         job'[r].task = job[r].task
  PROVE  Pays(a, r)'
<1>1. approval'[a] = approval[a]
  BY ApprovalsStay DEF ApprovalKept, Pays, ConsumedFor
<1> QED
  BY <1>1 DEF Pays, ConsumedFor, Lists

LEMMA BacksStays ==
  ASSUME RunInv, TypeInv, [Next]_lvars, NEW a \in ApprovalIds, Backs(a),
         ctl.run \in Runs, ctl'.run = ctl.run, ctl'.scope = ctl.scope
  PROVE  Backs(a)'
<1>1. approval'[a] = approval[a]
  BY ApprovalsStay DEF ApprovalKept, Backs
<1>2. run'[ctl.run].project = run[ctl.run].project
  BY RowsStay, BoundsAssumption DEF RunInv, ControllerOK, Runs
<1> QED
  BY <1>1, <1>2 DEF Backs, ScopeOf, NoScope

LEMMA RemembersStays ==
  ASSUME RunInv, TypeInv, [Next]_lvars, Remembers, done'.overlap = done.overlap,
         ctl'.run = ctl.run, ctl'.scope = ctl.scope, ctl'.consumed = ctl.consumed
  PROVE  Remembers'
<1> SUFFICES ASSUME ~done.overlap, ctl.consumed
             PROVE  ctl.run \in Runs /\ \E a \in ApprovalIds : Backs(a)'
  BY DEF Remembers
<1> QED
  BY BacksStays DEF Remembers

(* A worker that is not moved stays with what it has selected or consumed. *)
LEMMA UntouchedPaid ==
  ASSUME RunInv, TypeInv, [Next]_lvars, NEW r \in Runs, OwnTask(r), Paid(r),
         pc'[r] = pc[r], job'[r] = job[r]
  PROVE  OwnTask(r)' /\ Paid(r)'
<1>0. /\ r \in Workers
      /\ job[r].approval # 0 => job[r].approval \in ApprovalIds
      /\ pc[r] # Gone => Created(r)
  BY Names, AliveIsCreated DEF TypeInv, JobsOK, RunInv, Alive
<1>1. pc[r] # Gone => run'[r].project = run[r].project
  BY <1>0, RowsStay
<1>2. OwnTask(r)'
  BY <1>1 DEF OwnTask, WorkSteps, Gone
<1>3. PICK a : a = job[r].approval
  OBVIOUS
<1>4. ASSUME pc[r] = "spend" PROVE Selects(a, r)'
  <2>1. a \in ApprovalIds
    BY <1>0, <1>3, <1>4 DEF TypeInv, InHand, Hand
  <2> QED
    BY <1>1, <1>3, <1>4, <2>1, ApprovalsStay DEF ApprovalKept, Paid, Selects, Gone
<1>5. ASSUME pc[r] \in Underway, a # 0 PROVE Pays(a, r)'
  BY <1>0, <1>3, <1>5, PaysStays DEF Paid
<1>6. job'[r].approval = a
  BY <1>3
<1>7. Paid(r)'
  BY <1>3, <1>4, <1>5, <1>6 DEF Paid
<1> QED
  BY <1>2, <1>7

LEMMA RestingPaid ==
  ASSUME NEW r \in Runs, pc'[r] \in LoopSteps \cup {Gone}
  PROVE  OwnTask(r)' /\ Paid(r)' /\ WithinScope(r)'
BY DEF OwnTask, Paid, WithinScope, LoopSteps, WorkSteps, Underway, Gone

LEMMA BegunKept ==
  ASSUME RunInv, TypeInv, [Next]_lvars, BegunApproved,
         ~done'.overlap => ~done.overlap /\ done'.begun = done.begun /\ ~done'.astray
  PROVE  BegunApproved'
BY ConsumedStays DEF BegunApproved

(* A task is taken within the remembered scope. *)
LEMMA ScanPaid ==
  ASSUME RunInv, TypeInv, ApprovedInv, NEW r \in Runs, Scan(r)
  PROVE  OwnTask(r)' /\ Paid(r)' /\ WithinScope(r)'
<1>0. /\ Thread(r) /\ r \in Workers /\ Next /\ DOMAIN pc = Workers
      /\ DOMAIN job = Workers /\ "idle" \in LoopSteps
  BY Names DEF Thread, LoopStep, Next, LoopSteps, RunInv, ThreadsOK, TypeInv, JobsOK
<1>1. CASE pc' = [pc EXCEPT ![r] = "idle"]
  BY <1>0, <1>1, RestingPaid
<1>2. CASE /\ InScope(run[r].project) # {}
           /\ job' = [job EXCEPT ![r] = [NoJob EXCEPT !.task = Min(InScope(run[r].project))]]
           /\ pc' = [pc EXCEPT ![r] = "claim"]
  <2> DEFINE t == Min(InScope(run[r].project))
  <2>1. t \in InScope(run[r].project) /\ ProjectOf[t] = run[r].project
    BY <1>2, FirstIsRunnable DEF Runnable, ProjectTasks
  <2>2. job'[r].task = t /\ job'[r].approval = 0 /\ pc'[r] = "claim"
    BY <1>0, <1>2 DEF NoJob
  <2>3. run'[r].project = run[r].project
    <3>1. Created(r)
      BY AliveIsCreated DEF Scan, Alive, Gone, RunInv
    <3> QED
      BY <1>0, <3>1, RowsStay
  <2>4. ASSUME ~done.overlap, ctl.consumed PROVE t \in ctl.scope
    <3>1. ctl.scope # NoScope
      BY <2>4 DEF ApprovedInv, Remembers, Backs
    <3> QED
      BY <2>1, <3>1 DEF InScope
  <2> HIDE DEF t
  <2>5. WithinScope(r)'
    BY <2>2, <2>4 DEF WithinScope, Scan
  <2> QED
    BY <2>1, <2>2, <2>3, <2>5 DEF OwnTask, Paid, Underway
<1> QED
  BY <1>1, <1>2 DEF Scan, Goto

LEMMA ConsumePaid ==
  ASSUME RunInv, TypeInv, ApprovedInv, NEW r \in Runs, ConsumeSelect(r) \/ ConsumeUpdate(r)
  PROVE  OwnTask(r)' /\ Paid(r)' /\ WithinScope(r)'
<1> USE DEF Goto
<1>0. /\ r \in Workers /\ DOMAIN pc = Workers /\ DOMAIN job = Workers
      /\ DOMAIN job[r] = DOMAIN NoJob /\ DOMAIN approval = ApprovalIds
      /\ UNCHANGED run /\ job'[r].task = job[r].task
      /\ OwnTask(r) /\ Paid(r)
  BY Names DEF RunInv, ThreadsOK, TypeInv, JobsOK, NoJob, ApprovalsOK, ApprovedInv,
               ConsumeSelect, ConsumeUpdate
<1>1. CASE pc' = [pc EXCEPT ![r] = "denied"]
  <2>1. pc'[r] = "denied" /\ pc[r] \in WorkSteps
    BY <1>0, <1>1 DEF ConsumeSelect, ConsumeUpdate, WorkSteps
  <2> QED
    BY <1>0, <2>1 DEF OwnTask, Paid, WithinScope, Underway
<1>2. ASSUME NEW a \in Consumable(run[r].project, job[r].task), ConsumeSelect(r),
             job' = [job EXCEPT ![r].approval = a], pc' = [pc EXCEPT ![r] = "spend"]
      PROVE  OwnTask(r)' /\ Paid(r)' /\ WithinScope(r)'
  <2>1. pc'[r] = "spend" /\ pc[r] \in WorkSteps /\ job'[r].approval = a
    BY <1>0, <1>2 DEF ConsumeSelect, WorkSteps, NoJob
  <2>2. Selects(a, r)'
    BY <1>0, <1>2 DEF ConsumeSelect, Consumable, ValidApprovals, Selects, Requested
  <2> QED
    BY <1>0, <2>1, <2>2 DEF OwnTask, Paid, WithinScope, Underway
<1>3. CASE /\ ConsumeUpdate(r) /\ pc' = [pc EXCEPT ![r] = "execute"]
           /\ approval' = Consumed(job[r].approval, r, job[r].task)
  <2>0. PICK a : a = job[r].approval
    OBVIOUS
  <2>1. /\ pc'[r] = "execute" /\ pc[r] = "spend" /\ "spend" \in WorkSteps
        /\ UNCHANGED job /\ a \in ApprovalIds /\ Selects(a, r)
    BY <1>0, <1>3, <2>0 DEF ConsumeUpdate, WorkSteps, Paid, TypeInv, InHand, Hand
  <2>2. approval[a] \in
          [status : {"pending", "approved", "rejected", "consumed"}, project : Projects,
           scope : SUBSET Tasks, lapsed : BOOLEAN,
           run : Runs \cup {0}, task : Tasks \cup {0}]
    BY <2>1 DEF TypeInv, ApprovalsOK, ApprovalRows, NoApproval, Selects, Requested
  <2>3. approval'[a] = [approval[a] EXCEPT !.status = "consumed", !.run = r,
                                           !.task = job[r].task]
    BY <1>0, <1>3, <2>0, <2>1 DEF Consumed
  <2>4. /\ approval'[a].status = "consumed" /\ approval'[a].run = r
        /\ approval'[a].task = job[r].task
        /\ approval'[a].project = approval[a].project
        /\ approval'[a].scope = approval[a].scope
    BY <2>2, <2>3
  <2>5. approval[a].project = ProjectOf[job[r].task]
    BY <1>0, <2>1 DEF OwnTask, Selects
  <2>6. job'[r].approval = a /\ Pays(a, r)'
    BY <2>0, <2>1, <2>4, <2>5 DEF Pays, ConsumedFor, Lists, Selects
  <2> QED
    BY <1>0, <2>1, <2>6 DEF OwnTask, Paid, WithinScope
<1> QED
  BY <1>1, <1>2, <1>3 DEF ConsumeSelect, ConsumeUpdate

LEMMA WorkPaid ==
  ASSUME RunInv, TypeInv, ApprovedInv, NEW r \in Runs,
         \/ Claim(r) \/ Execute(r) \/ FinalizeRelease(r) \/ FinalizeTask(r)
         \/ FinalizeStats(r)
  PROVE  OwnTask(r)' /\ Paid(r)' /\ WithinScope(r)'
<1> USE DEF Goto
<1>0. /\ r \in Workers /\ r # Solo /\ DOMAIN pc = Workers /\ DOMAIN job = Workers
      /\ DOMAIN job[r] = DOMAIN NoJob /\ Thread(r) /\ Next
      /\ OwnTask(r) /\ Paid(r)
      /\ job[r].approval # 0 => job[r].approval \in ApprovalIds
  BY Names DEF RunInv, ThreadsOK, TypeInv, JobsOK, NoJob, ApprovedInv,
               Thread, WorkerStep, LoopStep, Next
<1>1. /\ job'[r].task = job[r].task /\ job'[r].approval = job[r].approval
      /\ pc'[r] \in Underway \cup {"consume"}
      /\ \/ pc[r] = "claim"
         \/ pc[r] \in Underway /\ pc'[r] \in Underway
  BY <1>0 DEF Claim, Execute, FinalizeRelease, FinalizeTask, FinalizeStats, Underway, NoJob
<1>2. run'[r].project = run[r].project
  <2>1. Created(r)
    BY <1>1, AliveIsCreated DEF Alive, Gone, Underway, RunInv
  <2> QED
    BY <1>0, <2>1, RowsStay
<1>3. OwnTask(r)'
  BY <1>0, <1>1, <1>2 DEF OwnTask, Underway, WorkSteps
<1>4. PICK a : a = job[r].approval
  OBVIOUS
<1>5. ASSUME pc[r] \in Underway, a # 0 PROVE Pays(a, r)'
  BY <1>0, <1>1, <1>4, <1>5, PaysStays DEF Paid
<1>6. pc[r] = "claim" => a = 0
  BY <1>0, <1>4 DEF Paid
<1>7. job'[r].approval = a
  BY <1>1, <1>4
<1>8. Paid(r)'
  BY <1>1, <1>5, <1>6, <1>7 DEF Paid, Underway
<1>9. WithinScope(r)'
  BY <1>1 DEF WithinScope, Underway
<1> QED
  BY <1>3, <1>8, <1>9

(* Only the steps of an execution begin one, and each has an approval: the one
   the controller remembers, or the one consumed for it just now. *)
LEMMA ThreadBegins ==
  ASSUME RunInv, TypeInv, ApprovedInv, NEW w \in Workers, Thread(w), Next
  PROVE  BegunApproved'
<1>0. BegunApproved /\ LoneLoop /\ Remembers
  BY DEF ApprovedInv
<1>1. ASSUME ~done'.overlap => /\ ~done.overlap /\ ~done'.astray
                               /\ done'.begun = done.begun
      PROVE  BegunApproved'
  BY <1>0, <1>1, BegunKept
<1>2. CASE UNCHANGED done
  BY <1>0, <1>1, <1>2 DEF BegunApproved
<1>3. CASE Claim(w) /\ ~UNCHANGED done
  <2> DEFINE t == job[w].task
  <2>1. /\ t \in Tasks /\ pc[w] = "claim"
        /\ done' = [done EXCEPT !.astray = @ \/ Astray(w),
                                !.begun = IF NeedsApproval(w) THEN @ ELSE Begun(w, t)]
    BY <1>3 DEF Claim, TypeInv, InHand, Hand, WorkSteps
  <2>2. /\ done'.overlap = done.overlap
        /\ done'.astray <=> done.astray \/ Astray(w)
        /\ done'.begun = IF NeedsApproval(w) THEN done.begun ELSE Begun(w, t)
    BY <2>1 DEF TypeInv, DoneOK
  <2>3. ASSUME ~done.overlap, w # Solo PROVE w = ctl.run /\ w \in Runs
    BY <1>0, <2>1, <2>3 DEF LoneLoop, Workers, Alive, Gone
  <2>4. ~done.overlap => ~done'.astray
    BY <1>0, <2>2, <2>3 DEF BegunApproved, Astray
  <2>5. CASE NeedsApproval(w) \/ w = Solo
    <3>1. Begun(Solo, t) = done.begun
      BY <2>1 DEF Begun
    <3> QED
      BY <1>1, <2>2, <2>4, <2>5, <3>1
  <2>6. CASE ~NeedsApproval(w) /\ w # Solo
    <3>1. done'.begun \subseteq done.begun \cup {<<w, t>>}
      BY <2>2, <2>6 DEF Begun
    <3>2. ASSUME ~done.overlap PROVE \E a \in ApprovalIds : ConsumedFor(a, w, t)
      <4>1. w = ctl.run /\ w \in Runs /\ ctl.consumed
        BY <2>3, <2>6, <3>2 DEF NeedsApproval
      <4>2. PICK a \in ApprovalIds : Backs(a)
        BY <1>0, <3>2, <4>1 DEF Remembers
      <4>3. t \in ctl.scope /\ ProjectOf[t] = run[w].project
        BY <2>1, <3>2, <4>1 DEF ApprovedInv, WithinScope, OwnTask, WorkSteps
      <4>4. ConsumedFor(a, w, t)
        BY <4>1, <4>2, <4>3 DEF ConsumedFor, Backs, ScopeOf, Lists
      <4> QED
        BY <4>4
    <3> HIDE DEF t
    <3>3. ASSUME NEW r \in Runs, NEW u \in Tasks, ~done.overlap, <<r, u>> \in done'.begun
          PROVE  \E a \in ApprovalIds : ConsumedFor(a, r, u)'
      <4>1. \E a \in ApprovalIds : ConsumedFor(a, r, u)
        <5>1. CASE <<r, u>> \in done.begun
          BY <1>0, <3>3, <5>1 DEF BegunApproved
        <5>2. CASE <<r, u>> \notin done.begun
          BY <3>1, <3>2, <3>3, <5>2
        <5> QED
          BY <5>1, <5>2
      <4> QED
        BY <4>1, ConsumedStays
    <3> QED
      BY <2>2, <2>4, <3>3 DEF BegunApproved
  <2> QED
    BY <2>5, <2>6
<1>4. CASE ConsumeUpdate(w) /\ ~UNCHANGED done
  <2>0. PICK t : t = job[w].task
    OBVIOUS
  <2>1. /\ t \in Tasks /\ pc[w] = "spend" /\ "spend" \in WorkSteps /\ w # Solo
        /\ done' = [done EXCEPT !.begun = Begun(w, t)]
        /\ pc' = [pc EXCEPT ![w] = "execute"] /\ UNCHANGED job
        /\ approval' = Consumed(job[w].approval, w, t)
        /\ job[w].approval \in ApprovalIds
    BY <1>4, <2>0, Names
    DEF ConsumeUpdate, Goto, TypeInv, InHand, Hand, WorkSteps, Thread, WorkerStep,
        Claim, Execute, FinalizeRelease, FinalizeTask
  <2>2. /\ done'.overlap = done.overlap /\ done'.astray = done.astray
        /\ done'.begun \subseteq done.begun \cup {<<w, t>>}
    BY <2>1 DEF TypeInv, DoneOK, Begun
  <2>3. w \in Runs /\ Paid(w)' /\ pc'[w] = "execute"
    BY <1>4, <2>1, ConsumePaid DEF Workers, RunInv, ThreadsOK
  <2>4. PICK a \in ApprovalIds : a = job[w].approval
    BY <2>1
  <2>5. a # 0 /\ Pays(a, w)'
    BY <2>1, <2>3, <2>4 DEF Paid, Underway, ApprovalIds
  <2>6. ConsumedFor(a, w, t)'
    BY <2>0, <2>1, <2>5 DEF Pays
  <2>7. ASSUME NEW r \in Runs, NEW u \in Tasks, ~done.overlap, <<r, u>> \in done'.begun
        PROVE  \E b \in ApprovalIds : ConsumedFor(b, r, u)'
    <3>1. CASE <<r, u>> \in done.begun
      BY <1>0, <2>7, <3>1, ConsumedStays DEF BegunApproved
    <3>2. CASE r = w /\ u = t
      BY <2>6, <3>2
    <3> QED
      BY <2>2, <2>7, <3>1, <3>2
  <2> QED
    BY <1>0, <2>2, <2>7 DEF BegunApproved
<1>5. CASE FinalizeStats(w)
  <2>1. /\ done'.overlap = done.overlap /\ done'.astray = done.astray
        /\ done'.begun = done.begun
    BY <1>5 DEF FinalizeStats, TypeInv, DoneOK
  <2> QED
    BY <1>0, <1>1, <2>1 DEF BegunApproved
<1>6. ASSUME ~Claim(w), ~ConsumeUpdate(w), ~FinalizeStats(w) PROVE UNCHANGED done
  BY <1>6 DEF Thread, WorkerStep, LoopStep, Execute, FinalizeRelease, FinalizeTask, Boot,
     TopLeave, TopPause, TopBudget, TopScan, Wait, Leave, Scan, HandleNoRunnable,
     LoopFails, ConsumeSelect, Denied, Account
<1> QED
  BY <1>2, <1>3, <1>4, <1>5, <1>6

(* What the controller remembers changes when an execution is accounted for. *)
LEMMA ThreadRemembers ==
  ASSUME RunInv, TypeInv, ApprovedInv, NEW w \in Workers, Thread(w), Next
  PROVE  Remembers' /\ ctl'.run = ctl.run /\ done'.overlap = done.overlap
<1>1. done'.overlap = done.overlap
  <2>1. CASE Claim(w) \/ ConsumeUpdate(w) \/ FinalizeStats(w)
    BY <2>1 DEF Claim, ConsumeUpdate, FinalizeStats, TypeInv, DoneOK
  <2>2. CASE ~(Claim(w) \/ ConsumeUpdate(w) \/ FinalizeStats(w))
    BY <2>2 DEF Thread, WorkerStep, LoopStep, Execute, FinalizeRelease, FinalizeTask, Boot,
       TopLeave, TopPause, TopBudget, TopScan, Wait, Leave, Scan, HandleNoRunnable,
       LoopFails, ConsumeSelect, Denied, Account
  <2> QED
    BY <2>1, <2>2
<1>2. CASE UNCHANGED ctl
  BY <1>1, <1>2, RemembersStays DEF ApprovedInv
<1>3. CASE Account(w) /\ w \in Runs
  <2> DEFINE paid == job[w].outcome = "completed" /\ job[w].approval # 0
             of == IF job[w].outcome # "completed" \/ job[w].approval = 0 THEN ctl.scope
                   ELSE IF approval[job[w].approval].scope # {}
                        THEN approval[job[w].approval].scope ELSE {job[w].task}
             more == ctl.counted \cup {job[w].task}
  <2>0. /\ w \in Workers /\ pc[w] = "account" /\ job[w].task \in Tasks
        /\ job[w].approval # 0 => job[w].approval \in ApprovalIds
        /\ UNCHANGED approval /\ Paid(w) /\ OwnTask(w) /\ Created(w)
    BY <1>3, Names, AliveIsCreated
    DEF Account, TypeInv, InHand, Hand, JobsOK, WorkSteps, ApprovedInv, RunInv, Alive, Gone
  <2>1. ctl' = [ctl EXCEPT !.counted = more, !.consumed = ctl.consumed \/ paid, !.scope = of]
    BY <1>3 DEF Account, Remembered
  <2>2. /\ ctl'.run = ctl.run /\ ctl'.scope = of
        /\ ctl'.consumed <=> (ctl.consumed \/ paid)
    <3> HIDE DEF of, more, paid
    <3> QED
      BY <2>1 DEF TypeInv, FieldsOK
  <2>3. CASE ~paid
    <3>1. of = ctl.scope
      BY <2>3
    <3>2. ASSUME ~done.overlap, ctl.consumed
          PROVE  ctl.run \in Runs /\ \E a \in ApprovalIds : Backs(a)'
      BY <2>2, <3>1, <3>2, BacksStays DEF ApprovedInv, Remembers
    <3> HIDE DEF of, paid
    <3> QED
      BY <1>1, <2>2, <2>3, <3>2 DEF Remembers
  <2>4. CASE paid
    <3>1. PICK a \in ApprovalIds : a = job[w].approval /\ Pays(a, w)
      BY <2>0, <2>4 DEF Paid, Underway
    <3>2. of = ScopeOf(a) /\ of # NoScope
      <4>1. job[w].task # 0 /\ approval[a].scope \subseteq Tasks /\ 0 \notin Tasks
        BY <2>0, <3>1, TasksAssumption
        DEF TypeInv, ApprovalsOK, ApprovalRows, NoApproval
      <4>2. of = ScopeOf(a)
        BY <2>4, <3>1 DEF ScopeOf, Pays
      <4> HIDE DEF of
      <4> QED
        BY <3>1, <4>1, <4>2 DEF ScopeOf, NoScope, Pays
    <3>3. ASSUME ~done.overlap PROVE ctl.run \in Runs /\ Backs(a)'
      <4>1. w = ctl.run
        BY <1>3, <2>0, <3>3 DEF ApprovedInv, LoneLoop, Alive, Gone
      <4>2. run'[w].project = run[w].project
        BY <1>3, <2>0, RowsStay
      <4>3. /\ approval[a].status = "consumed" /\ approval[a].run = w
            /\ approval[a].project = run[w].project
        BY <2>0, <3>1 DEF Pays, ConsumedFor, OwnTask, WorkSteps
      <4> HIDE DEF of
      <4> QED
        BY <1>3, <2>0, <2>2, <3>2, <4>1, <4>2, <4>3 DEF Backs, ScopeOf, NoScope
    <3> QED
      BY <1>1, <2>2, <3>3 DEF Remembers
  <2> QED
    BY <2>2, <2>3, <2>4, <1>1
<1>4. ASSUME ~Account(w) PROVE UNCHANGED ctl
  BY <1>4 DEF Thread, WorkerStep, LoopStep, Claim, Execute, FinalizeRelease, FinalizeTask,
     Boot, TopLeave, TopPause, TopBudget, TopScan, Wait, Leave, Scan, HandleNoRunnable,
     LoopFails, ConsumeSelect, ConsumeUpdate, Denied, FinalizeStats
<1>5. Account(w) => w \in Runs
  <2>1. ASSUME w = Solo, Account(w) PROVE FALSE
    BY <2>1 DEF Thread, WorkerStep, Claim, Execute, FinalizeRelease, FinalizeTask, Account
  <2> QED
    BY <2>1 DEF Workers
<1> QED
  BY <1>1, <1>2, <1>3, <1>4, <1>5

(* Every step of a thread. *)
LEMMA ThreadApproved ==
  ASSUME RunInv, TypeInv, ApprovedInv, NEW w \in Workers, Thread(w), Next
  PROVE  ApprovedInv'
<1>0. /\ Remembers' /\ BegunApproved' /\ ctl'.run = ctl.run
      /\ done'.overlap = done.overlap
  BY ThreadRemembers, ThreadBegins
<1>1. pc[w] # Gone
  BY DEF Thread, WorkerStep, Claim, Execute, FinalizeRelease, FinalizeTask,
     LoopStep, Boot, TopLeave, TopPause, TopBudget, TopScan, Wait, Leave, Scan,
     HandleNoRunnable, LoopFails, ConsumeSelect, ConsumeUpdate, Denied,
     FinalizeStats, Account, LoopSteps, Gone
<1>2. LoneLoop'
  <2> SUFFICES ASSUME ~done.overlap, NEW r \in Runs, Alive(r)' PROVE r = ctl.run
    BY <1>0 DEF LoneLoop
  <2>1. Alive(r)
    BY <1>1, Names, Bystanders DEF Alive
  <2> QED
    BY <2>1 DEF ApprovedInv, LoneLoop
<1>3. ASSUME NEW r \in Runs, r # w PROVE OwnTask(r)' /\ Paid(r)' /\ WithinScope(r)'
  <2>1. pc'[r] = pc[r] /\ job'[r] = job[r]
    BY <1>3, Names, Bystanders
  <2>2. OwnTask(r)' /\ Paid(r)'
    BY <2>1, UntouchedPaid DEF ApprovedInv
  <2>3. WithinScope(r)'
    <3>1. CASE UNCHANGED ctl
      BY <1>0, <2>1, <3>1 DEF ApprovedInv, WithinScope
    <3>2. CASE w \in Runs
      <4>1. ASSUME ~done.overlap PROVE pc[r] = Gone
        BY <1>1, <1>3, <3>2, <4>1 DEF ApprovedInv, LoneLoop, Alive
      <4> QED
        BY <1>0, <2>1, <4>1 DEF WithinScope, Gone
    <3>3. CASE w = Solo
      BY <3>1, <3>3
      DEF Thread, WorkerStep, Claim, Execute, FinalizeRelease, FinalizeTask
    <3> QED
      BY <3>2, <3>3 DEF Workers
  <2> QED
    BY <2>2, <2>3
<1>4. ASSUME w \in Runs PROVE OwnTask(w)' /\ Paid(w)' /\ WithinScope(w)'
  <2>1. CASE Claim(w) \/ Execute(w) \/ FinalizeRelease(w) \/ FinalizeTask(w) \/ FinalizeStats(w)
    BY <1>4, <2>1, WorkPaid
  <2>2. CASE ConsumeSelect(w) \/ ConsumeUpdate(w)
    BY <1>4, <2>2, ConsumePaid
  <2>3. CASE Scan(w)
    BY <1>4, <2>3, ScanPaid
  <2>4. CASE \/ Boot(w) \/ TopLeave(w) \/ TopPause(w) \/ TopBudget(w) \/ TopScan(w) \/ Wait(w)
             \/ Leave(w) \/ HandleNoRunnable(w) \/ LoopFails(w) \/ Denied(w) \/ Account(w)
    <3>1. pc'[w] \in LoopSteps \cup {Gone}
      BY <2>4 DEF Boot, TopLeave, TopPause, TopBudget, TopScan, Wait, Leave,
         HandleNoRunnable, LoopFails, Denied, Account, Goto, End, LoopSteps, RunInv, ThreadsOK
    <3> QED
      BY <1>4, <3>1, RestingPaid
  <2> QED
    BY <2>1, <2>2, <2>3, <2>4 DEF Thread, WorkerStep, LoopStep
<1>5. \A r \in Runs : OwnTask(r)' /\ Paid(r)' /\ WithinScope(r)'
  BY <1>3, <1>4
<1> QED
  BY <1>0, <1>2, <1>5 DEF ApprovedInv

(* A step that moves no loop thread and leaves what the controller remembers. *)
LEMMA QuietApproved ==
  ASSUME RunInv, TypeInv, ApprovedInv, [Next]_lvars, UNCHANGED done,
         ctl'.run = ctl.run, ctl'.scope = ctl.scope, ctl'.consumed = ctl.consumed,
         \A r \in Runs : pc'[r] = pc[r] /\ job'[r] = job[r]
  PROVE  ApprovedInv'
<1>1. Remembers'
  BY RemembersStays DEF ApprovedInv
<1>2. BegunApproved'
  BY BegunKept DEF ApprovedInv, BegunApproved
<1>3. LoneLoop'
  BY DEF ApprovedInv, LoneLoop, Alive
<1>4. ASSUME NEW r \in Runs PROVE OwnTask(r)' /\ Paid(r)' /\ WithinScope(r)'
  <2>1. OwnTask(r)' /\ Paid(r)'
    BY UntouchedPaid DEF ApprovedInv
  <2>2. WithinScope(r)'
    BY DEF ApprovedInv, WithinScope
  <2> QED
    BY <2>1, <2>2
<1> QED
  BY <1>1, <1>2, <1>3, <1>4 DEF ApprovedInv

LEMMA StartApproved ==
  ASSUME RunInv, TypeInv, ApprovedInv, NEW p \in Projects, Start(p), Next
  PROVE  ApprovedInv'
<1>1. PICK n \in Runs :
        /\ pc' = [pc EXCEPT ![n] = "boot"]
        /\ ctl' = [FreshController EXCEPT !.run = n, !.counted = ctl.counted]
  BY DEF Start
<1>2. UNCHANGED <<approval, job>> /\ DOMAIN pc = Workers
  BY DEF Start, RunInv, ThreadsOK
<1>3. /\ ~done'.overlap => ~done.overlap /\ \A q \in Runs : ~Alive(q)
      /\ done'.begun = done.begun /\ done'.astray = done.astray
  BY DEF Start, TypeInv, DoneOK
<1>4. ctl'.run = n /\ ~ctl'.consumed
  BY <1>1 DEF FreshController
<1>5. LoneLoop' /\ Remembers'
  BY <1>1, <1>2, <1>3, <1>4, Names DEF LoneLoop, Remembers, Alive
<1>6. BegunApproved'
  BY <1>3, BegunKept DEF ApprovedInv, BegunApproved
<1>7. ASSUME NEW r \in Runs PROVE OwnTask(r)' /\ Paid(r)' /\ WithinScope(r)'
  <2>1. CASE r = n
    BY <1>1, <1>2, <2>1, Names, RestingPaid DEF LoopSteps
  <2>2. CASE r # n
    <3>1. pc'[r] = pc[r] /\ job'[r] = job[r]
      BY <1>1, <1>2, <2>2, Names
    <3> QED
      BY <1>4, <3>1, UntouchedPaid DEF ApprovedInv, WithinScope
  <2> QED
    BY <2>1, <2>2
<1> QED
  BY <1>5, <1>6, <1>7 DEF ApprovedInv

LEMMA CrashApproved ==
  ASSUME RunInv, TypeInv, ApprovedInv, Crash, Next
  PROVE  ApprovedInv'
<1>1. /\ \A r \in Runs : pc'[r] = Gone /\ ~Alive(r)'
      /\ ~ctl'.consumed /\ UNCHANGED done
  BY Names DEF Crash, FreshController, Alive
<1>2. LoneLoop' /\ Remembers'
  BY <1>1 DEF LoneLoop, Remembers
<1>3. BegunApproved'
  BY <1>1, BegunKept DEF ApprovedInv, BegunApproved
<1> QED
  BY <1>1, <1>2, <1>3, RestingPaid DEF ApprovedInv

LEMMA ApprovedStep ==
  RunInv /\ TypeInv /\ ApprovedInv /\ [Next]_lvars => ApprovedInv'
<1> SUFFICES ASSUME RunInv, TypeInv, ApprovedInv, [Next]_lvars PROVE ApprovedInv'
  OBVIOUS
<1>1. ASSUME NEW w \in Workers, Thread(w) PROVE ApprovedInv'
  BY <1>1, ThreadApproved DEF Next
<1>2. CASE Endpoints
  <2>1. ASSUME NEW p \in Projects, Start(p) PROVE ApprovedInv'
    BY <1>2, <2>1, StartApproved DEF Next
  <2>2. CASE Pause \/ Resume \/ BeginStop \/ WriteStopping \/ SignalStop \/ Approvals
             \/ \E t \in Tasks : Retry(t)
    <3>1. UNCHANGED <<pc, job, done>>
      BY <2>2 DEF Pause, Resume, BeginStop, WriteStopping, SignalStop, Approvals, Retry,
                  loopVars
    <3>2. ctl'.run = ctl.run /\ ctl'.scope = ctl.scope /\ ctl'.consumed = ctl.consumed
      BY <2>2 DEF Pause, Resume, BeginStop, WriteStopping, SignalStop, Approvals, Retry,
                  loopVars, TypeInv, FieldsOK
    <3> QED
      BY <3>1, <3>2, QuietApproved
  <2>3. ASSUME NEW t \in Tasks, RunOne(t) PROVE ApprovedInv'
    <3>1. /\ UNCHANGED <<done, ctl>>
          /\ \A r \in Runs : pc'[r] = pc[r] /\ job'[r] = job[r]
      BY <2>3, Names DEF RunOne, RunInv, ThreadsOK, TypeInv, JobsOK
    <3> QED
      BY <3>1, QuietApproved
  <2> QED
    BY <1>2, <2>1, <2>2, <2>3 DEF Endpoints
<1>3. CASE Environment
  <2>1. CASE Crash
    BY <1>3, <2>1, CrashApproved DEF Next
  <2>2. CASE ~Crash
    BY <1>3, <2>2, QuietApproved DEF Environment, LeaseExpires, ApprovalLapses, loopVars
  <2> QED
    BY <2>1, <2>2
<1>4. CASE UNCHANGED lvars
  BY <1>4, QuietApproved DEF lvars, loopVars
<1> QED
  BY <1>1, <1>2, <1>3, <1>4 DEF Next

LEMMA ApprovedInitially == Init => ApprovedInv
<1> SUFFICES ASSUME Init PROVE ApprovedInv
  OBVIOUS
<1>1. \A r \in Runs : pc[r] = Gone /\ ~Alive(r)
  BY Names DEF Init, Alive
<1>2. LoneLoop /\ Remembers /\ BegunApproved
  BY <1>1 DEF Init, LoneLoop, Remembers, BegunApproved, FreshController
<1>3. ASSUME NEW r \in Runs PROVE OwnTask(r) /\ Paid(r) /\ WithinScope(r)
  BY <1>1 DEF OwnTask, Paid, WithinScope, WorkSteps, Underway, Gone
<1> QED
  BY <1>2, <1>3 DEF ApprovedInv

(* As long as loops do not overlap, what a loop executes is in the workspace of
   its own project and covered by an approval its run has consumed
   (loop_controller.py, execution_approval_service.py). *)
THEOREM ExecutionsApproved == Spec => []ExecutionIsApproved
<1>1. ApprovedInv => ExecutionIsApproved
  BY DEF ApprovedInv, BegunApproved, ConsumedFor, Lists, ExecutionIsApproved
<1>2. Init => RunInv /\ TypeInv /\ ApprovedInv
  BY Initially, TypesInitially, ApprovedInitially
<1>3. RunInv /\ TypeInv /\ ApprovedInv /\ [Next]_lvars => RunInv' /\ TypeInv' /\ ApprovedInv'
  BY RunStep, TypeStep, ApprovedStep
<1> QED
  BY <1>1, <1>2, <1>3, PTL DEF Spec
=============================================================================
