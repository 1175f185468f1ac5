---------------------- MODULE ParallelExecution_proofs ----------------------
(***************************************************************************)
(* Parallel execution, proved for any tasks, files and spellings, any      *)
(* number of executions and any number of mishaps: threads stay apart, a   *)
(* task is executed once, the lock table implements ExclusiveLocks, and    *)
(* master loses nothing and gains only what was tested.                    *)
(*                                                                         *)
(* None of these is inductive.  That two threads stay apart rests on every *)
(* thread that was heard of having a live row for each file of its task    *)
(* (NeedsHeld), which no other step takes away because a file has one row  *)
(* (OneRow) and because a recovery runs without threads (QuietBoot).  That *)
(* a merge stays rests on the commit an undo goes back to (UnderTest), and *)
(* that only tested work lands on what the branches were cut from          *)
(* (TestedOnly).                                                           *)
(***************************************************************************)
EXTENDS ParallelExecution, FiniteSetTheorems, SequenceTheorems, TLAPS

Finalizing == {"locks", "lease", "tree", "mark"}

(* Types of what the claims, the locks and the worker threads write. *)
LockTypes ==
  /\ locks \subseteq LockRow
  /\ lease \in [Tasks -> LEASE_STATUSES]
  /\ exec \in [Execs -> Tasks \cup {0}]
  /\ task \in [Tasks -> TASK_STATUSES \cup {"pending"}]
  /\ phase \in [Execs -> PHASES]
  /\ runRow \in {"active", "blocked"} /\ boot \in 0 .. 4
  /\ mishaps \in 0 .. MaxMishaps

(* executions rows are numbered in the order of their claims. *)
Numbered == \E n \in 0 .. MaxExecs : \A e \in Execs : exec[e] # 0 <=> e <= n

(* An execution that was never claimed has no thread. *)
UnclaimedIdle == \A e \in Execs : exec[e] = 0 => phase[e] = "none"

(* Claimed once, a task has its row of task_leases for ever. *)
LeaseStays == \A e \in Execs : exec[e] # 0 => lease[exec[e]] # "none"

(* The unique index on the active rows. *)
OneRow == \A p, q \in locks : p.res = q.res => p = q

(* No thread survives the restart that recover_on_startup() follows. *)
QuietBoot == boot # Up => \A e \in Execs : phase[e] \in {"none", "over"}

(* Who was never silent has a live row for every file its task needs. *)
NeedsHeld ==
  \A e \in Execs :
    phase[e] \in {"claimed", "working"} /\ e \notin tardy =>
      \A r \in Needs(exec[e]) :
        \E row \in locks :
          row.res = r /\ row.exec = e /\ ~row.silent /\ ~row.lapsed

LockInv ==
  /\ LockTypes /\ Numbered /\ UnclaimedIdle /\ LeaseStays
  /\ ExecutedOnce /\ OneRow /\ QuietBoot /\ NeedsHeld
-----------------------------------------------------------------------------
(* A merge under test, when no command failed and HEAD has not strayed: the
   undo goes back to a master that holds all that was merged before. *)
UnderTest ==
  ~blame.faults /\ ~blame.strayed /\ At("test") =>
    head = "master" /\ IsPrefix(landed, merge.before)

MergeTypes ==
  /\ pool \subseteq Execs
  /\ head \in Local /\ refs \in [Local -> Commits] /\ landed \in Commits
  /\ merged \subseteq Execs
  /\ queue \in Seq(Execs)
  /\ merge \in [item : Execs \cup {0}, step : {"none", "start", "test"},
                before : Commits, orig : Commits]
  /\ branch \in [Execs -> (SUBSET Execs) \cup {NoBranch}]
  /\ \A e \in Execs : phase[e] = "working" => branch[e] # NoBranch
  /\ blame \in [strayed : BOOLEAN, faults : BOOLEAN, crashed : BOOLEAN, early : BOOLEAN]

MergeInv == MergeTypes /\ UnderTest /\ UndoneAlone

(* Master, the branches cut from it and what an undo goes back to hold what
   was merged, a branch its own work besides. *)
Blameless == ~blame.faults /\ ~blame.strayed /\ ~blame.crashed /\ ~blame.early

TestedOnly ==
  Blameless =>
    /\ \A e \in Work(refs["master"]) : e \in merged \/ (At("test") /\ e = merge.item)
    /\ At("test") => Work(merge.before) \subseteq merged
    /\ \A e \in Execs : branch[e] # NoBranch => branch[e] \subseteq merged \cup {e}
-----------------------------------------------------------------------------
(***************************************************************************)
(* Lemmas about the claim of a group.                                      *)
(***************************************************************************)

(* Ids of rows are never 0. *)
LEMMA Ids == Execs \subseteq Nat \ {0} /\ 0 \notin Tasks /\ Tasks \subseteq Nat
BY LockTasksAssumption, MaxExecsAssumption DEF Execs

(* A group has one or two members, with no file in common. *)
LEMMA GroupShape ==
  ASSUME NEW g \in Groups
  PROVE  /\ DOMAIN g = {1} \/ DOMAIN g = {1, 2}
         /\ \A i \in DOMAIN g : g[i] \in Tasks
         /\ \A i, j \in DOMAIN g : i # j =>
              g[i] # g[j] /\ Needs(g[i]) \cap Needs(g[j]) = {}
<1>1. CASE \E t \in Tasks : g = <<t>>
  BY <1>1
<1>2. CASE \E t, u \in Tasks : g = <<t, u>> /\ t < u /\ ~Conflict(t, u)
  BY <1>2, Ids DEF Conflict
<1> QED
  BY <1>1, <1>2 DEF Groups

(* The executions that exist are counted by the last one's number. *)
LEMMA Counted ==
  ASSUME NEW n \in 0 .. MaxExecs, \A e \in Execs : exec[e] # 0 <=> e <= n
  PROVE  Cardinality({f \in Execs : exec[f] # 0}) = n
<1>1. {f \in Execs : exec[f] # 0} = 1 .. n
  BY MaxExecsAssumption DEF Execs
<1>2. Cardinality(1 .. n) = n
  BY FS_Interval
<1> QED
  BY <1>1, <1>2, Zenon

(* What a claim writes: the next numbers go to the members of the group, in
   their order; a file they need has their row and no other; every other
   execution and row stays. *)
Claimed(g, n) ==
  /\ boot = Up /\ UNCHANGED <<task, runRow, boot, tardy, mishaps>>
  /\ \A e \in Execs : exec[e] # 0 <=> e <= n
  /\ \A i \in DOMAIN g :
       /\ n + i \in Execs /\ exec[n + i] = 0
       /\ lease[g[i]] = "none" /\ lease'[g[i]] = "active"
       /\ exec'[n + i] = g[i] /\ phase'[n + i] = "claimed"
  /\ \A e \in Execs : (\A i \in DOMAIN g : e # n + i) =>
       exec'[e] = exec[e] /\ phase'[e] = phase[e]
  /\ \A t \in Tasks : (\A i \in DOMAIN g : t # g[i]) => lease'[t] = lease[t]
  /\ exec' \in [Execs -> Tasks \cup {0}] /\ phase' \in [Execs -> PHASES]
  /\ lease' \in [Tasks -> LEASE_STATUSES]
  /\ \A row \in locks : ~row.lapsed =>
       \A i \in DOMAIN g : row.res \notin Needs(g[i])
  /\ locks' = {row \in locks : \A i \in DOMAIN g : row.res \notin Needs(g[i])}
       \cup UNION {{NewRow(r, n + i) : r \in Needs(g[i])} : i \in DOMAIN g}

LEMMA ClaimWrites ==
  ASSUME LockInv, NEW g \in Groups, ClaimGroup(g)
  PROVE  \E n \in 0 .. MaxExecs : Claimed(g, n)
<1>1. PICK n \in 0 .. MaxExecs : \A e \in Execs : exec[e] # 0 <=> e <= n
  BY DEF LockInv, Numbered
<1>2. Cardinality({f \in Execs : exec[f] # 0}) = n
  BY <1>1, Counted
<1> DEFINE to == [i \in DOMAIN g |-> Cardinality({f \in Execs : exec[f] # 0}) + i]
           mine(e, i) == i \in DOMAIN g /\ to[i] = e
           new(e) == \E i \in DOMAIN g : mine(e, i)
           rows == UNION {{NewRow(r, to[i]) : r \in Needs(g[i])} : i \in DOMAIN g}
<1>3. /\ boot = Up
      /\ Range(to) \subseteq Execs
      /\ \A t \in Range(g) : Claimable(t)
      /\ locks' = Swept(locks, UNION {Needs(t) : t \in Range(g)}) \cup rows
      /\ lease' = [t \in Tasks |-> IF t \in Range(g) THEN "active" ELSE lease[t]]
      /\ exec' = [e \in Execs |-> IF new(e) THEN g[CHOOSE i \in DOMAIN g : mine(e, i)] ELSE exec[e]]
      /\ phase' = [e \in Execs |-> IF new(e) THEN "claimed" ELSE phase[e]]
      /\ UNCHANGED <<task, runRow, boot, tardy, mishaps>>
  BY DEF ClaimGroup
<1>4. to = [i \in DOMAIN g |-> n + i]
  BY <1>2
<1> HIDE DEF to
<1>5. /\ DOMAIN g = {1} \/ DOMAIN g = {1, 2}
      /\ \A i \in DOMAIN g : g[i] \in Tasks
      /\ \A i, j \in DOMAIN g : i # j =>
              g[i] # g[j] /\ Needs(g[i]) \cap Needs(g[j]) = {}
  BY GroupShape
<1>6. \A i \in DOMAIN g :
        n + i \in Execs /\ g[i] \in Range(g) /\ Claimable(g[i])
  BY <1>3, <1>4 DEF Range
<1>7. \A i \in DOMAIN g : ~ (n + i <= n)
  BY <1>5
<1>8. \A i \in DOMAIN g : (CHOOSE j \in DOMAIN g : mine(n + i, j)) = i
  BY <1>5, <1>4
<1>9. \A i \in DOMAIN g :
        /\ exec[n + i] = 0 /\ exec'[n + i] = g[i] /\ phase'[n + i] = "claimed"
  BY <1>1, <1>3, <1>6, <1>7, <1>8, <1>4
<1>10. \A e \in Execs : (\A i \in DOMAIN g : e # n + i) =>
        exec'[e] = exec[e] /\ phase'[e] = phase[e]
  BY <1>3, <1>4
<1>11. /\ \A i \in DOMAIN g : lease[g[i]] = "none" /\ lease'[g[i]] = "active"
       /\ \A t \in Tasks : (\A i \in DOMAIN g : t # g[i]) => lease'[t] = lease[t]
  <2>1. \A t : t \in Range(g) <=> \E i \in DOMAIN g : t = g[i]
    BY DEF Range
  <2> QED
    BY <1>3, <1>5, <1>6, <2>1 DEF Claimable, NeverLeased
<1>12. /\ exec' \in [Execs -> Tasks \cup {0}] /\ phase' \in [Execs -> PHASES]
       /\ lease' \in [Tasks -> LEASE_STATUSES]
  <2>1. exec' \in [Execs -> Tasks \cup {0}]
    <3>1. ASSUME NEW e \in Execs
          PROVE  exec'[e] \in Tasks \cup {0}
      BY <1>5, <1>9, <1>10 DEF LockInv, LockTypes
    <3> QED
      BY <1>3, <3>1
  <2> QED
    BY <1>3, <2>1 DEF LockInv, LockTypes, PHASES, LEASE_STATUSES
<1>13. \A row \in locks : ~row.lapsed =>
         \A i \in DOMAIN g : row.res \notin Needs(g[i])
  BY <1>6 DEF Claimable, Acquirable, Swept
<1>14. Swept(locks, UNION {Needs(t) : t \in Range(g)})
         = {row \in locks : \A i \in DOMAIN g : row.res \notin Needs(g[i])}
  <2>1. \A r : r \in UNION {Needs(t) : t \in Range(g)}
                 <=> \E i \in DOMAIN g : r \in Needs(g[i])
    BY DEF Range
  <2> QED
    BY <1>13, <2>1 DEF Swept
<1>15. rows = UNION {{NewRow(r, n + i) : r \in Needs(g[i])} : i \in DOMAIN g}
  BY <1>4
<1>16. Claimed(g, n)
  BY <1>1, <1>3, <1>6, <1>9, <1>10, <1>11, <1>12, <1>13, <1>14, <1>15 DEF Claimed
<1> QED
  BY <1>16
-----------------------------------------------------------------------------
(***************************************************************************)
(* The lock table: each step keeps LockInv.                                *)
(***************************************************************************)

(* A step of the claims, the rows or their clocks, without what it must show
   itself: that the index holds and that who was heard of keeps its files. *)
LEMMA RowsWritten ==
  ASSUME LockInv, UNCHANGED <<lease, exec, task, runRow, phase, boot>>,
         mishaps' \in 0 .. MaxMishaps,
         locks' \subseteq LockRow, OneRow', NeedsHeld'
  PROVE  LockInv'
BY DEF LockInv, LockTypes, Numbered, UnclaimedIdle, LeaseStays, ExecutedOnce,
       QuietBoot, LEASE_STATUSES, TASK_STATUSES, Execs, LockRow, PHASES

(* One row is rewritten for the same file. *)
LEMMA RowReplaced ==
  ASSUME LockTypes, OneRow, NEW row \in locks, NEW new \in LockRow,
         new.res = row.res, locks' = (locks \ {row}) \cup {new}
  PROVE  locks' \subseteq LockRow /\ OneRow'
BY DEF LockTypes, OneRow

(* Rows are withdrawn that are lapsed, or whose owner has no claim or no
   thread any more. *)
LEMMA RowsWithdrawn ==
  ASSUME LockInv, locks' \subseteq locks, UNCHANGED <<exec, phase, tardy>>,
         \A row \in locks \ locks' :
           row.lapsed \/ phase[row.exec] \notin {"claimed", "working"}
  PROVE  locks' \subseteq LockRow /\ OneRow' /\ NeedsHeld'
<1>1. locks' \subseteq LockRow /\ OneRow'
  BY DEF LockInv, LockTypes, OneRow
<1>2. NeedsHeld'
  BY DEF LockInv, NeedsHeld
<1> QED
  BY <1>1, <1>2

LEMMA ClaimKeeps ==
  ASSUME LockInv, NEW g \in Groups, ClaimGroup(g)
  PROVE  LockInv'
<1>1. PICK n \in 0 .. MaxExecs : Claimed(g, n)
  BY ClaimWrites
<1>2. /\ DOMAIN g = {1} \/ DOMAIN g = {1, 2}
      /\ \A i \in DOMAIN g : g[i] \in Tasks
      /\ \A i, j \in DOMAIN g : i # j =>
              g[i] # g[j] /\ Needs(g[i]) \cap Needs(g[j]) = {}
  BY GroupShape
<1> DEFINE new(e) == \E i \in DOMAIN g : e = n + i
<1>3. \A e \in Execs : ~new(e) => exec'[e] = exec[e] /\ phase'[e] = phase[e]
  BY <1>1 DEF Claimed
<1>4. \A e \in Execs : \A i \in DOMAIN g : e = n + i =>
        /\ exec[e] = 0 /\ exec'[e] = g[i] /\ phase'[e] = "claimed"
        /\ lease[g[i]] = "none" /\ lease'[g[i]] = "active"
  BY <1>1 DEF Claimed
<1>5. Numbered'
  <2>1. \A e \in Execs : e <= n + 1 => e <= n \/ e = n + 1
    BY <1>1, Ids
  <2>2. \A e \in Execs : e <= n + 2 => e <= n + 1 \/ e = n + 2
    BY <1>1, Ids
  <2>3. \A i \in DOMAIN g : n + i \in Execs
    BY <1>1 DEF Claimed
  <2>4. CASE DOMAIN g = {1}
    <3>1. \A e \in Execs : exec'[e] # 0 <=> e <= n + 1
      BY <1>1, <1>2, <1>3, <1>4, <2>1, <2>4, Ids DEF Claimed
    <3>2. n + 1 \in 0 .. MaxExecs
      BY <2>3, <2>4 DEF Execs
    <3> QED
      BY <3>1, <3>2 DEF Numbered, Execs
  <2>5. CASE DOMAIN g = {1, 2}
    <3>1. \A e \in Execs : exec'[e] # 0 <=> e <= n + 2
      BY <1>1, <1>2, <1>3, <1>4, <2>1, <2>2, <2>5, Ids DEF Claimed
    <3>2. n + 2 \in 0 .. MaxExecs
      BY <2>3, <2>5 DEF Execs
    <3> QED
      BY <3>1, <3>2 DEF Numbered, Execs
  <2> QED
    BY <1>2, <2>4, <2>5
<1>6. UnclaimedIdle'
  BY <1>2, <1>3, <1>4, Ids DEF UnclaimedIdle, LockInv
<1>7. LeaseStays'
  <2>1. \A t \in Tasks : lease[t] # "none" => lease'[t] # "none"
    BY <1>1 DEF Claimed
  <2> QED
    BY <1>3, <1>4, <2>1 DEF LeaseStays, LockInv, LockTypes
<1>8. ExecutedOnce'
  <2> SUFFICES ASSUME NEW e \in Execs, NEW f \in Execs, e # f,
                      exec'[e] # 0, exec'[e] = exec'[f]
               PROVE  FALSE
    BY DEF ExecutedOnce
  <2>1. CASE new(e) /\ new(f)
    BY <1>2, <1>4, <2>1
  <2>2. CASE ~new(e) /\ ~new(f)
    BY <1>3, <2>2 DEF LockInv, ExecutedOnce
  <2>3. CASE new(e) /\ ~new(f)
    BY <1>3, <1>4, <2>3 DEF LockInv, LeaseStays
  <2>4. CASE ~new(e) /\ new(f)
    BY <1>3, <1>4, <2>4 DEF LockInv, LeaseStays
  <2> QED
    BY <2>1, <2>2, <2>3, <2>4
<1>9. QuietBoot'
  BY <1>1 DEF Claimed, QuietBoot
<1>10. LockTypes'
  <2>1. \A i \in DOMAIN g : Needs(g[i]) \subseteq Resources
    BY <1>2, NormalAssumption, DeclaresAssumption DEF Needs
  <2>2. \A i \in DOMAIN g : \A r \in Needs(g[i]) : NewRow(r, n + i) \in LockRow
    BY <1>1, <2>1, MaxExecsAssumption, MaxMishapsAssumption
    DEF Claimed, NewRow, LockRow, Execs
  <2>3. locks' \subseteq LockRow
    BY <1>1, <2>2 DEF Claimed, LockInv, LockTypes
  <2>4. \A e \in Execs : phase'[e] \in Finalizing => phase[e] \in Finalizing
    BY <1>3, <1>4 DEF Finalizing
  <2> QED
    BY <1>1, <2>3, <2>4 DEF Claimed, LockInv, LockTypes
<1>11. \A p \in locks' :
         \/ p \in locks /\ \A i \in DOMAIN g : p.res \notin Needs(g[i])
         \/ \E i \in DOMAIN g : p.res \in Needs(g[i]) /\ p = NewRow(p.res, n + i)
  BY <1>1 DEF Claimed, NewRow
<1>12. OneRow'
  BY <1>2, <1>11 DEF LockInv, OneRow
<1>13. NeedsHeld'
  <2> SUFFICES ASSUME NEW e \in Execs, phase'[e] \in {"claimed", "working"},
                      e \notin tardy, NEW r \in Needs(exec'[e])
               PROVE  \E row \in locks' : /\ row.res = r /\ row.exec = e
                                          /\ ~row.silent /\ ~row.lapsed
    BY <1>1 DEF Claimed, NeedsHeld
  <2>1. CASE new(e)
    <3>1. PICK i \in DOMAIN g : e = n + i
      BY <2>1
    <3>2. NewRow(r, e) \in locks'
      BY <1>1, <1>4, <3>1 DEF Claimed
    <3> QED
      BY <3>2 DEF NewRow
  <2>2. CASE ~new(e)
    <3>1. PICK row \in locks : /\ row.res = r /\ row.exec = e
                               /\ ~row.silent /\ ~row.lapsed
      BY <1>3, <2>2 DEF LockInv, NeedsHeld
    <3>2. row \in locks'
      BY <1>1, <3>1 DEF Claimed
    <3> QED
      BY <3>1, <3>2
  <2> QED
    BY <2>1, <2>2
<1> QED
  BY <1>5, <1>6, <1>7, <1>8, <1>9, <1>10, <1>12, <1>13 DEF LockInv

(* renew, heartbeat and takeover: a row stays a row of its file. *)
LEMMA RenewKeeps ==
  ASSUME LockInv, NEW e \in Execs, Renew(e)
  PROVE  LockInv'
<1>1. PICK row \in Held(e) : locks' = (locks \ {row}) \cup {Renewed(row)}
  BY DEF Renew, Write
<1>2. /\ row \in locks /\ row \in LockRow /\ row.exec = e
      /\ Renewed(row) \in LockRow
      /\ Renewed(row).res = row.res /\ Renewed(row).exec = e
      /\ ~Renewed(row).silent /\ ~Renewed(row).lapsed
  BY DEF Held, Renewed, LockInv, LockTypes, LockRow
<1>3. locks' \subseteq LockRow /\ OneRow'
  BY <1>1, <1>2, RowReplaced DEF LockInv
<1>4. NeedsHeld'
  BY <1>1, <1>2 DEF Renew, OnlyLocks, LockInv, NeedsHeld
<1> QED
  BY <1>3, <1>4, RowsWritten DEF Renew, OnlyLocks, LockInv, LockTypes

LEMMA RenewAllKeeps ==
  ASSUME LockInv, NEW e \in Execs, RenewAll(e)
  PROVE  LockInv'
<1>1. locks' = (locks \ RowsOf(e)) \cup {Renewed(row) : row \in RowsOf(e)}
  BY DEF RenewAll, Write
<1>2. \A row \in RowsOf(e) :
        /\ row \in locks /\ row \in LockRow /\ row.exec = e
        /\ Renewed(row) \in LockRow
        /\ Renewed(row).res = row.res /\ Renewed(row).exec = e
        /\ ~Renewed(row).silent /\ ~Renewed(row).lapsed
  BY DEF RowsOf, Renewed, LockInv, LockTypes, LockRow
<1>3. locks' \subseteq LockRow
  BY <1>1, <1>2 DEF LockInv, LockTypes
<1>4. \A new \in locks' : \E row \in locks :
        row.res = new.res /\ new = IF row \in RowsOf(e) THEN Renewed(row) ELSE row
  BY <1>1, <1>2
<1>5. OneRow'
  BY <1>4 DEF LockInv, OneRow
<1>6. NeedsHeld'
  <2> SUFFICES ASSUME NEW f \in Execs, phase[f] \in {"claimed", "working"},
                      f \notin tardy, NEW r \in Needs(exec[f])
               PROVE  \E row \in locks' : /\ row.res = r /\ row.exec = f
                                          /\ ~row.silent /\ ~row.lapsed
    BY DEF RenewAll, OnlyLocks, NeedsHeld
  <2>1. PICK row \in locks : /\ row.res = r /\ row.exec = f
                             /\ ~row.silent /\ ~row.lapsed
    BY DEF LockInv, NeedsHeld
  <2>2. CASE row \in RowsOf(e)
    BY <1>1, <1>2, <2>1, <2>2
  <2>3. CASE row \notin RowsOf(e)
    BY <1>1, <2>1, <2>3
  <2> QED
    BY <2>2, <2>3
<1> QED
  BY <1>3, <1>5, <1>6, RowsWritten DEF RenewAll, OnlyLocks, LockInv, LockTypes

LEMMA TakeOverKeeps ==
  ASSUME LockInv, NEW e \in Execs, TakeOver(e)
  PROVE  LockInv'
<1> DEFINE taken(row) == [row EXCEPT !.token = MaxExecs + mishaps, !.exec = e,
                                     !.silent = FALSE, !.aged = TRUE]
<1>1. PICK row \in locks : row.silent /\ locks' = (locks \ {row}) \cup {taken(row)}
  BY DEF TakeOver, Write
<1>2. MaxExecs + mishaps \in 1 .. MaxExecs + MaxMishaps
  BY MaxExecsAssumption, MaxMishapsAssumption DEF LockInv, LockTypes, Execs
<1>3. taken(row) \in LockRow /\ taken(row).res = row.res
  BY <1>2 DEF LockInv, LockTypes, LockRow
<1>4. locks' \subseteq LockRow /\ OneRow'
  BY <1>1, <1>3, RowReplaced DEF LockInv
<1>5. NeedsHeld'
  BY <1>1 DEF TakeOver, OnlyLocks, LockInv, NeedsHeld
<1> QED
  BY <1>4, <1>5, RowsWritten DEF TakeOver, OnlyLocks, LockInv, LockTypes

(* A clock runs out for a row, and its owner is noted as tardy. *)
LEMMA AgingKeeps ==
  ASSUME LockInv, mishaps' \in 0 .. MaxMishaps,
         NEW row \in locks, NEW aged \in LockRow, aged.res = row.res,
         Aging(row, aged)
  PROVE  LockInv'
<1>1. locks' \subseteq LockRow /\ OneRow'
  BY RowReplaced DEF Aging, LockInv
<1>2. NeedsHeld'
  BY DEF Aging, LockInv, NeedsHeld
<1> QED
  BY <1>1, <1>2, RowsWritten DEF Aging

LEMMA ClockKeeps ==
  ASSUME LockInv, Clock
  PROVE  LockInv'
<1>1. CASE Silence
  <2>1. PICK row \in locks : Aging(row, [row EXCEPT !.silent = TRUE])
    BY <1>1 DEF Silence
  <2>2. [row EXCEPT !.silent = TRUE] \in LockRow
    BY DEF LockInv, LockTypes, LockRow
  <2>3. [row EXCEPT !.silent = TRUE].res = row.res
    BY DEF LockInv, LockTypes, LockRow
  <2>4. mishaps' \in 0 .. MaxMishaps
    BY <1>1, MaxMishapsAssumption DEF Silence, Mishap, LockInv, LockTypes
  <2> QED
    BY <2>1, <2>2, <2>3, <2>4, AgingKeeps
<1>2. CASE Lapse
  <2>1. PICK row \in locks : Aging(row, [row EXCEPT !.lapsed = TRUE])
    BY <1>2 DEF Lapse
  <2>2. [row EXCEPT !.lapsed = TRUE] \in LockRow
    BY DEF LockInv, LockTypes, LockRow
  <2>3. [row EXCEPT !.lapsed = TRUE].res = row.res
    BY DEF LockInv, LockTypes, LockRow
  <2> QED
    BY <1>2, <2>1, <2>2, <2>3, AgingKeeps DEF Lapse, LockInv, LockTypes
<1>3. ASSUME NEW t \in Tasks, LeaseLapses(t)
      PROVE  LockInv'
  <2>1. lease' = [lease EXCEPT ![t] = "lapsed"] /\ lease'[t] # "none"
    BY <1>3 DEF LeaseLapses, LockInv, LockTypes
  <2>2. LeaseStays'
    BY <1>3, <2>1 DEF LeaseLapses, LeaseStays, LockInv, LockTypes
  <2>3. LockTypes'
    BY <1>3, MaxMishapsAssumption
    DEF LeaseLapses, Mishap, LockInv, LockTypes, LEASE_STATUSES
  <2> QED
    BY <1>3, <2>2, <2>3
    DEF LeaseLapses, LockInv, Numbered, UnclaimedIdle, ExecutedOnce, OneRow,
        QuietBoot, NeedsHeld
<1> QED
  BY <1>1, <1>2, <1>3 DEF Clock

(* A group is released whose executions have no thread. *)
LEMMA ReleaseKeeps ==
  ASSUME LockInv, NEW e \in Execs, ReleaseGroup(e)
  PROVE  LockInv'
<1>1. exec[e] \in Tasks /\ phase[e] \in {"none", "claimed", "over"}
  BY DEF ReleaseGroup, Alive, LockInv, LockTypes
<1>2. /\ locks' = locks \ RowsOf(e) /\ phase' = [phase EXCEPT ![e] = "over"]
      /\ UNCHANGED <<exec, task, runRow, boot, tardy, mishaps>>
      /\ lease' = [lease EXCEPT ![exec[e]] = IF @ = "none" THEN @ ELSE "released"]
  BY DEF ReleaseGroup, Write
<1>3. \A f \in Execs : phase'[f] = IF f = e THEN "over" ELSE phase[f]
  BY <1>2 DEF LockInv, LockTypes
<1>4. \A t \in Tasks : lease[t] # "none" => lease'[t] # "none"
  BY <1>1, <1>2 DEF LockInv, LockTypes
<1>5. LockTypes'
  BY <1>2, <1>3 DEF LockInv, LockTypes, Finalizing, PHASES, LEASE_STATUSES
<1>6. OneRow'
  BY <1>2 DEF LockInv, OneRow
<1>7. LeaseStays'
  BY <1>2, <1>4 DEF LockInv, LeaseStays, LockTypes
<1>8. NeedsHeld'
  BY <1>2, <1>3 DEF LockInv, NeedsHeld, RowsOf
<1>9. UnclaimedIdle' /\ QuietBoot' /\ ExecutedOnce' /\ Numbered'
  BY <1>2, <1>3 DEF ReleaseGroup, LockInv, UnclaimedIdle, QuietBoot, ExecutedOnce, Numbered
<1> QED
  BY <1>5, <1>6, <1>7, <1>8, <1>9 DEF LockInv

LEMMA SweepKeeps ==
  ASSUME LockInv, CleanupExpired
  PROVE  LockInv'
<1>1. locks' \subseteq LockRow /\ OneRow' /\ NeedsHeld'
  BY RowsWithdrawn DEF CleanupExpired, Write, OnlyLocks
<1> QED
  BY <1>1, RowsWritten DEF CleanupExpired, OnlyLocks, LockInv, LockTypes

(* recover_on_startup() withdraws every row only while no thread runs. *)
LEMMA RecoverKeeps ==
  ASSUME LockInv, Recover
  PROVE  LockInv'
<1>1. /\ boot # Up /\ UNCHANGED <<exec, task, phase, tardy>>
      /\ boot' = (boot + 1) % 5
  BY DEF Recover
<1>2. boot' \in 0 .. 4
  BY <1>1 DEF LockInv, LockTypes
<1>3. mishaps' \in 0 .. MaxMishaps
  BY MaxMishapsAssumption DEF Recover, Mishap, LockInv, LockTypes
<1>4. \A e \in Execs : phase[e] \in {"none", "over"}
  BY <1>1 DEF LockInv, QuietBoot
<1>5. locks' \subseteq locks
  BY DEF Recover, RecoverStep
<1>6. locks' \subseteq LockRow /\ OneRow' /\ NeedsHeld'
  BY <1>1, <1>4, <1>5, RowsWithdrawn DEF LockInv, LockTypes, LockRow
<1>7. /\ lease' \in [Tasks -> LEASE_STATUSES]
      /\ \A t \in Tasks : lease[t] # "none" => lease'[t] # "none"
      /\ runRow' \in {"active", "blocked"}
  BY DEF Recover, RecoverStep, LockInv, LockTypes, LEASE_STATUSES
<1>8. LeaseStays' /\ QuietBoot' /\ UnclaimedIdle' /\ ExecutedOnce' /\ Numbered'
  BY <1>1, <1>4, <1>7 
  DEF LockInv, LockTypes, LeaseStays, QuietBoot, UnclaimedIdle, ExecutedOnce, Numbered
<1>9. LockTypes'
  BY <1>1, <1>2, <1>3, <1>6, <1>7 DEF LockInv, LockTypes
<1> QED
  BY <1>6, <1>8, <1>9 DEF LockInv

LEMMA LockTableKeeps ==
  ASSUME LockInv, LockTable
  PROVE  LockInv'
<1> QED
  BY ClaimKeeps, RenewKeeps, RenewAllKeeps, TakeOverKeeps, ReleaseKeeps,
     SweepKeeps, ClockKeeps, RecoverKeeps DEF LockTable, LockStep
-----------------------------------------------------------------------------
(***************************************************************************)
(* The worker threads and the finalizer: each step keeps LockInv.          *)
(***************************************************************************)

(* A thread moves on, and leaves the lock table and the clocks alone. *)
LEMMA ThreadMoves ==
  ASSUME LockInv, NEW e \in Execs, NEW p \in PHASES \ {"none", "claimed"},
         phase[e] \notin {"none", "over"}, phase[e] = "claimed" \/ p # "working",
         phase' = [phase EXCEPT ![e] = p],
         locks' = locks \/ (locks' \subseteq locks /\ p # "working"),
         \A row \in locks \ locks' : row.exec = e,
         lease' \in [Tasks -> LEASE_STATUSES],
         \A t \in Tasks : lease[t] # "none" => lease'[t] # "none",
         task' \in [Tasks -> TASK_STATUSES \cup {"pending"}],
         mishaps' \in 0 .. MaxMishaps,
         UNCHANGED <<exec, runRow, boot, tardy>>
  PROVE  LockInv'
<1>1. \A f \in Execs : phase'[f] = IF f = e THEN p ELSE phase[f]
  BY DEF LockInv, LockTypes
<1>2. LockTypes'
  BY <1>1 DEF LockInv, LockTypes
<1>3. OneRow' /\ LeaseStays'
  BY DEF LockInv, LockTypes, OneRow, LeaseStays
<1>4. NeedsHeld'
  BY <1>1 DEF LockInv, NeedsHeld
<1>5. UnclaimedIdle' /\ ExecutedOnce' /\ Numbered'
  BY <1>1 DEF LockInv, UnclaimedIdle, ExecutedOnce, Numbered
<1>6. QuietBoot'
  BY <1>1 DEF LockInv, QuietBoot
<1> QED
  BY <1>2, <1>3, <1>4, <1>5, <1>6 DEF LockInv

(* What a step of finalize_execution() that fails leaves behind. *)
LEMMA Bounded ==
  ASSUME LockInv, NoMishap \/ PassedOver
  PROVE  mishaps' \in 0 .. MaxMishaps
BY MaxMishapsAssumption DEF NoMishap, PassedOver, Mishap, LockInv, LockTypes

LEMMA FinalizeKeeps ==
  ASSUME LockInv, NEW e \in Execs, Finalize(e)
  PROVE  LockInv'
<1>1. exec[e] \in Tasks
  BY DEF Finalize, FinalizeLocks, FinalizeLease, FinalizeTree, FinalizeTask,
         LockInv, LockTypes, UnclaimedIdle
<1>2. CASE FinalizeLocks(e)
  <2>1. locks' \subseteq locks /\ \A row \in locks \ locks' : row.exec = e
    BY <1>2 DEF FinalizeLocks, Held, RowsOf
  <2>2. mishaps' \in 0 .. MaxMishaps
    BY <1>2, Bounded DEF FinalizeLocks
  <2>3. /\ phase[e] = "locks" /\ phase' = [phase EXCEPT ![e] = "lease"]
        /\ UNCHANGED <<exec, lease, task, runRow, boot, tardy>>
    BY <1>2 DEF FinalizeLocks, Goto, Untouched
  <2> QED
    BY <2>1, <2>2, <2>3, ThreadMoves DEF LockInv, LockTypes, Finalizing, PHASES
<1>3. CASE FinalizeLease(e)
  <2>1. /\ lease' \in [Tasks -> LEASE_STATUSES]
        /\ \A t \in Tasks : lease[t] # "none" => lease'[t] # "none"
    BY <1>1, <1>3 DEF FinalizeLease, LockInv, LockTypes, LEASE_STATUSES
  <2> QED
    BY <1>3, <2>1, Bounded, ThreadMoves
    DEF FinalizeLease, Goto, Untouched, LockInv, LockTypes, Finalizing, PHASES
<1>4. CASE FinalizeTree(e)
  BY <1>4, Bounded, ThreadMoves
  DEF FinalizeTree, Goto, Untouched, LockInv, LockTypes, Finalizing, PHASES
<1>5. CASE FinalizeTask(e)
  <2>1. task' \in [Tasks -> TASK_STATUSES \cup {"pending"}]
    BY <1>1, <1>5 DEF FinalizeTask, ExitStatuses, TaskStatus, TASK_STATUSES, LockInv, LockTypes
  <2> QED
    BY <1>5, <2>1, Bounded, ThreadMoves
    DEF FinalizeTask, Goto, Untouched, LockInv, LockTypes, Finalizing, PHASES
<1> QED
  BY <1>2, <1>3, <1>4, <1>5 DEF Finalize

LEMMA WorkerKeeps ==
  ASSUME LockInv, NEW e \in Execs, Spawn(e) \/ FinishWork(e)
  PROVE  LockInv'
<1>1. CASE Spawn(e)
  BY <1>1, ThreadMoves
  DEF Spawn, OnlyLockTable, LockInv, LockTypes, Finalizing, PHASES
<1>2. CASE FinishWork(e)
  BY <1>2, ThreadMoves
  DEF FinishWork, OnlyLockTable, Working, LockInv, LockTypes, Finalizing, PHASES
<1> QED
  BY <1>1, <1>2

LEMMA RestartKeeps ==
  ASSUME LockInv, Restart
  PROVE  LockInv'
<1>1. \A e \in Execs : phase'[e] \in {"none", "over"} /\ (phase[e] = "none" => phase'[e] = "none")
  BY DEF Restart
<1>2. LockTypes'
  BY <1>1, MaxMishapsAssumption
  DEF Restart, Mishap, LockInv, LockTypes, Finalizing, PHASES
<1>3. QuietBoot' /\ NeedsHeld' /\ UnclaimedIdle'
  BY <1>1 DEF Restart, QuietBoot, NeedsHeld, UnclaimedIdle, LockInv
<1>4. OneRow' /\ LeaseStays' /\ ExecutedOnce' /\ Numbered'
  BY DEF Restart, LockInv, OneRow, LeaseStays, ExecutedOnce, Numbered
<1> QED
  BY <1>2, <1>3, <1>4 DEF LockInv

(* The merge queue does not touch the lock table. *)
LEMMA LocksUntouched ==
  ASSUME LockInv, UNCHANGED lockVars, mishaps' \in 0 .. MaxMishaps
  PROVE  LockInv'
<1>1. UNCHANGED <<locks, lease, exec, task, runRow, phase, boot, tardy>>
  BY DEF lockVars
<1> QED
  BY <1>1 DEF LockInv, LockTypes, Numbered, UnclaimedIdle, LeaseStays, ExecutedOnce,
     OneRow, QuietBoot, NeedsHeld

LEMMA MergesBounded ==
  ASSUME LockInv, Merges \/ \E e \in Execs : QueueMerge(e) \/ CreateWorktree(e)
  PROVE  mishaps' \in 0 .. MaxMishaps
BY MaxMishapsAssumption
DEF Merges, QueueMerge, CreateWorktree, Enqueue, ProcessNext, MergeStep, Land, Verdict, UndoMerge,
    NothingFails, Fault, LogFails, HeadMoves, Mishap, LockInv, LockTypes

LEMMA LockStepKeeps ==
  ASSUME LockInv, [Next]_pvars
  PROVE  LockInv'
<1>1. CASE LockTable
  BY <1>1, LockTableKeeps
<1>2. ASSUME NEW e \in Execs, Spawn(e) \/ FinishWork(e) \/ Finalize(e)
      PROVE  LockInv'
  BY <1>2, WorkerKeeps, FinalizeKeeps
<1>3. CASE Merges \/ \E e \in Execs : QueueMerge(e) \/ CreateWorktree(e)
  BY <1>3, MergesBounded, LocksUntouched DEF Merges, QueueMerge, CreateWorktree
<1>4. CASE Restart
  BY <1>4, RestartKeeps
<1>5. CASE UNCHANGED pvars
  BY <1>5, LocksUntouched DEF pvars, poolVars, LockInv, LockTypes
<1> QED
  BY <1>1, <1>2, <1>3, <1>4, <1>5 DEF Next

LEMMA LockInitially == Init => LockInv
<1> SUFFICES ASSUME Init PROVE LockInv
  OBVIOUS
<1>1. LockTypes
  BY MaxMishapsAssumption
  DEF Init, LockInit, LockTypes, LEASE_STATUSES, PHASES, Finalizing, Up
<1>2. Numbered
  BY Ids, MaxExecsAssumption DEF Init, LockInit, Numbered
<1> QED
  BY <1>1, <1>2
  DEF Init, LockInit, LockInv, UnclaimedIdle, LeaseStays, ExecutedOnce, OneRow,
      QuietBoot, NeedsHeld

(* The claims, the lock table and the worker threads keep their invariant, for
   any tasks, files, executions and mishaps. *)
THEOREM LocksHeld == Spec => []LockInv
<1>1. LockInv /\ [Next]_pvars => LockInv'
  BY LockStepKeeps
<1> QED
  BY <1>1, LockInitially, PTL DEF Spec

(* Two threads that have been heard of never work on one file, however it is
   spelled in their plans. *)
THEOREM WorkersStayApart == Spec => []WorkersApart
<1>1. LockInv => WorkersApart
  <2> SUFFICES ASSUME LockInv, NEW e \in Execs, NEW f \in Execs,
                      e # f, Working(e), Working(f), e \notin tardy, f \notin tardy,
                      NEW r \in Needs(exec[e]) \cap Needs(exec[f])
               PROVE  FALSE
    BY DEF WorkersApart, Conflict
  <2>1. PICK p \in locks : p.res = r /\ p.exec = e
    BY DEF LockInv, NeedsHeld, Working
  <2>2. PICK q \in locks : q.res = r /\ q.exec = f
    BY DEF LockInv, NeedsHeld, Working
  <2> QED
    BY <2>1, <2>2 DEF LockInv, OneRow
<1> QED
  BY <1>1, LocksHeld, PTL

(* No task is given to a second execution. *)
THEOREM TasksExecutedOnce == Spec => []ExecutedOnce
<1>1. LockInv => ExecutedOnce
  BY DEF LockInv
<1> QED
  BY <1>1, LocksHeld, PTL
-----------------------------------------------------------------------------
(***************************************************************************)
(* The merges.                                                             *)
(***************************************************************************)

LEMMA ItemsAreExecs == Items = Execs /\ 0 \notin Execs /\ NoBranch \notin SUBSET Execs
BY ItemsAssumption, Ids DEF NoBranch

LEMMA CommitTyped ==
  ASSUME NEW c \in Commits
  PROVE  /\ c \in Seq(SUBSET Execs) /\ Len(c) \in Nat \ {0}
         /\ Work(c) \in SUBSET Execs /\ Work(c) # NoBranch
<1>1. c \in Seq(SUBSET Execs) /\ c # <<>>
  BY ItemsAreExecs DEF Commits
<1>2. Len(c) \in Nat \ {0}
  BY <1>1, EmptySeq
<1>3. c[Len(c)] \in SUBSET Execs
  BY <1>1, <1>2, ElementOfSeq
<1> QED
  BY <1>1, <1>2, <1>3, ItemsAreExecs DEF Work, Last

LEMMA RootTyped == Root \in Commits /\ Work(Root) = {}
BY DEF Root, Commits, Work, Last

LEMMA ParentTyped ==
  ASSUME NEW c \in Commits
  PROVE  Parent(c) \in Commits
<1>1. CASE Len(c) = 1
  BY <1>1 DEF Parent
<1>2. CASE Len(c) # 1
  <2> DEFINE n == Len(c)
  <2>1. c \in Seq(SUBSET Execs) /\ n \in Nat \ {0} /\ n # 1
    BY <1>2, CommitTyped
  <2>2. \A i \in 1 .. n : c[i] \in SUBSET Execs
    BY <2>1, ElementOfSeq
  <2> HIDE DEF n
  <2>3. n - 1 \in Int /\ 1 <= n - 1 /\ (n - 1) - 1 + 1 # 0
    BY <2>1
  <2>4. \A i \in 1 .. n - 1 : c[i] \in SUBSET Execs
    BY <2>1, <2>2
  <2>5. /\ SubSeq(c, 1, n - 1) \in Seq(SUBSET Execs)
        /\ Len(SubSeq(c, 1, n - 1)) = (n - 1) - 1 + 1
    BY <2>3, <2>4, SubSeqProperties
  <2>6. SubSeq(c, 1, n - 1) # <<>>
    BY <2>3, <2>5, EmptySeq
  <2> QED
    BY <1>2, <2>5, <2>6, ItemsAreExecs DEF Parent, Front, Commits, n
<1> QED
  BY <1>1, <1>2

(* One history is the beginning of another when they agree as far as it goes. *)
LEMMA PrefixPointwise ==
  ASSUME NEW c \in Commits, NEW d \in Commits
  PROVE  IsPrefix(c, d) <=>
           Len(c) <= Len(d) /\ \A i \in 1 .. Len(c) : c[i] = d[i]
<1>1. /\ c \in Seq(SUBSET Execs) /\ Len(c) \in Nat
      /\ d \in Seq(SUBSET Execs) /\ Len(d) \in Nat
  BY CommitTyped
<1> SUFFICES ASSUME Len(c) <= Len(d)
             PROVE  SubSeq(c, 1, Len(c)) = SubSeq(d, 1, Len(c)) <=>
                      \A i \in 1 .. Len(c) : c[i] = d[i]
  BY DEF IsPrefix
<1> DEFINE cc == SubSeq(c, 1, Len(c))
           dd == SubSeq(d, 1, Len(c))
<1>2. /\ \A i \in 1 .. Len(c) : c[i] \in SUBSET Execs
      /\ \A i \in 1 .. Len(c) : d[i] \in SUBSET Execs
  BY <1>1, ElementOfSeq
<1>3. /\ cc \in Seq(SUBSET Execs) /\ Len(cc) = Len(c)
      /\ \A i \in 1 .. Len(c) : cc[i] = c[i]
  BY <1>1, <1>2, SubSeqProperties
<1>4. /\ dd \in Seq(SUBSET Execs) /\ Len(dd) = Len(c)
      /\ \A i \in 1 .. Len(c) : dd[i] = d[i]
  BY <1>1, <1>2, SubSeqProperties
<1>5. ASSUME \A i \in 1 .. Len(c) : c[i] = d[i]
      PROVE  cc = dd
  <2> HIDE DEF cc, dd
  <2> QED
    BY <1>3, <1>4, <1>5, SeqEqual
<1>6. ASSUME cc = dd
      PROVE  \A i \in 1 .. Len(c) : c[i] = d[i]
  <2> HIDE DEF cc, dd
  <2> QED
    BY <1>3, <1>4, <1>6
<1> QED
  BY <1>5, <1>6

(* A merge adds what the branch contains, and takes nothing out of the
   history; with nothing new it is no commit. *)
LEMMA JoinedExtends ==
  ASSUME NEW c \in Commits, NEW work \in SUBSET Execs
  PROVE  /\ Joined(c, work) \in Commits
         /\ Work(Joined(c, work)) = Work(c) \cup work
         /\ \A d \in Commits : IsPrefix(d, c) => IsPrefix(d, Joined(c, work))
<1>1. /\ c \in Seq(SUBSET Execs) /\ Len(c) \in Nat \ {0} /\ Work(c) \in SUBSET Execs
  BY CommitTyped
<1>2. CASE work \subseteq Work(c)
  BY <1>1, <1>2 DEF Joined
<1>3. CASE ~(work \subseteq Work(c))
  <2> DEFINE new == Append(c, Work(c) \cup work)
  <2>1. /\ new \in Seq(SUBSET Execs) /\ Len(new) = Len(c) + 1
        /\ \A i \in 1 .. Len(c) : new[i] = c[i]
        /\ new[Len(c) + 1] = Work(c) \cup work
    BY <1>1, AppendProperties
  <2>2. new \in Commits
    BY <1>1, <2>1, EmptySeq, ItemsAreExecs DEF Commits
  <2>3. Work(new) = Work(c) \cup work
    BY <2>1 DEF Work, Last
  <2>4. ASSUME NEW d \in Commits, IsPrefix(d, c)
        PROVE  IsPrefix(d, new)
    <3>1. Len(d) \in Nat /\ Len(d) <= Len(c) /\ \A i \in 1 .. Len(d) : d[i] = c[i]
      BY <2>4, CommitTyped, PrefixPointwise
    <3>2. Len(d) <= Len(new) /\ \A i \in 1 .. Len(d) : d[i] = new[i]
      BY <1>1, <2>1, <3>1
    <3> HIDE DEF new
    <3> QED
      BY <2>2, <3>2, PrefixPointwise
  <2> QED
    BY <1>3, <2>2, <2>3, <2>4 DEF Joined
<1> QED
  BY <1>2, <1>3

LEMMA SamePrefix ==
  ASSUME NEW c \in Commits
  PROVE  IsPrefix(c, c)
BY CommitTyped, PrefixPointwise

(* Wherever an undo ends, it is a commit. *)
LEMMA FallBacksTyped ==
  ASSUME MergeInv, NEW b \in Local, NEW c \in FallBacks(refs[b])
  PROVE  c \in Commits
<1> DEFINE here == [at |-> refs[b], orig |-> merge.orig]
<1>1. refs[b] \in Commits /\ merge.orig \in Commits /\ merge.before \in Commits
  BY DEF MergeInv, MergeTypes
<1>2. PICK s \in Failed(here, merge.before) :
        \E u \in Failed(s, Parent(s.at)) : c \in {u.at, u.orig}
  BY DEF FallBacks
<1>3. s.at \in Commits /\ s.orig \in Commits
  BY <1>1, <1>2 DEF Failed
<1>4. PICK u \in Failed(s, Parent(s.at)) : c \in {u.at, u.orig}
  BY <1>2
<1>5. u.at \in Commits /\ u.orig \in Commits
  BY <1>3, <1>4, ParentTyped DEF Failed
<1> QED
  BY <1>4, <1>5

(* Nothing but Spawn starts a thread. *)
LEMMA ThreadsOnward ==
  ASSUME LockInv, LockTable \/ Restart, NEW e \in Execs, phase'[e] = "working"
  PROVE  phase[e] = "working"
<1>1. ASSUME NEW g \in Groups, ClaimGroup(g)
      PROVE  phase[e] = "working"
  <2>1. PICK n \in 0 .. MaxExecs : Claimed(g, n)
    BY <1>1, ClaimWrites
  <2> QED
    BY <2>1 DEF Claimed, LockInv, LockTypes
<1>2. ASSUME NEW f \in Execs, ReleaseGroup(f)
      PROVE  phase[e] = "working"
  BY <1>2 DEF ReleaseGroup, LockInv, LockTypes
<1>3. CASE Restart
  BY <1>3 DEF Restart
<1>4. ASSUME NEW f \in Execs, Renew(f) \/ RenewAll(f) \/ TakeOver(f)
      PROVE  phase' = phase
  BY <1>4 DEF Renew, RenewAll, TakeOver, OnlyLocks
<1>5. ASSUME CleanupExpired \/ Clock \/ Recover
      PROVE  phase' = phase
  BY <1>5 DEF CleanupExpired, OnlyLocks, Clock, Silence, Lapse, Aging, LeaseLapses, Recover
<1> QED
  BY <1>1, <1>2, <1>3, <1>4, <1>5 DEF LockTable, LockStep

(* Neither the lock table nor the finalizer's other steps touch the merges. *)
LEMMA MergesUntouched ==
  ASSUME MergeInv,
         UNCHANGED <<queue, merge, head, refs, branch, merged, landed, blame>>,
         pool' \subseteq Execs,
         \A e \in Execs : phase'[e] = "working" => phase[e] = "working"
  PROVE  MergeInv'
BY DEF MergeInv, MergeTypes, UnderTest, UndoneAlone, At, IsMerging

LEMMA CreateWorktreeKeepsMerges ==
  ASSUME MergeInv, NEW e \in Execs, CreateWorktree(e)
  PROVE  MergeInv'
<1>1. /\ UNCHANGED <<queue, merge, head, refs, merged, landed, pool, phase>>
      /\ branch' = [branch EXCEPT ![e] = Work(refs["master"])]
      /\ blame' = [blame EXCEPT !.early = @ \/ At("test")]
  BY DEF CreateWorktree, lockVars, poolVars
<1>2. Work(refs["master"]) \in SUBSET Execs /\ Work(refs["master"]) # NoBranch
  BY CommitTyped DEF MergeInv, MergeTypes, Local
<1>3. /\ branch' \in [Execs -> (SUBSET Execs) \cup {NoBranch}]
      /\ \A f \in Execs : branch[f] # NoBranch => branch'[f] # NoBranch
  BY <1>1, <1>2 DEF MergeInv, MergeTypes
<1>4. /\ blame' \in [strayed : BOOLEAN, faults : BOOLEAN, crashed : BOOLEAN, early : BOOLEAN]
      /\ blame'.strayed = blame.strayed /\ blame'.faults = blame.faults
  BY <1>1 DEF MergeInv, MergeTypes, At, IsMerging
<1>5. MergeTypes'
  BY <1>1, <1>3, <1>4 DEF MergeInv, MergeTypes
<1> QED
  BY <1>1, <1>4, <1>5 DEF MergeInv, UnderTest, UndoneAlone, At, IsMerging

LEMMA SpawnKeepsMerges ==
  ASSUME LockInv, MergeInv, NEW e \in Execs, Spawn(e)
  PROVE  MergeInv'
<1>1. /\ UNCHANGED <<queue, merge, head, refs, branch, merged, landed, blame>>
      /\ branch[e] # NoBranch /\ phase' = [phase EXCEPT ![e] = "working"]
      /\ pool' = pool \cup {e}
  BY DEF Spawn, mergeVars
<1>2. \A f \in Execs : phase'[f] = "working" => f = e \/ phase[f] = "working"
  BY <1>1 DEF LockInv, LockTypes
<1>3. MergeTypes'
  BY <1>1, <1>2 DEF MergeInv, MergeTypes
<1> QED
  BY <1>1, <1>3 DEF MergeInv, UnderTest, UndoneAlone, At, IsMerging

LEMMA WorkKeepsMerges ==
  ASSUME LockInv, MergeInv, NEW e \in Execs, FinishWork(e)
  PROVE  MergeInv'
<1>1. /\ UNCHANGED <<queue, merge, head, refs, merged, landed, blame, pool>>
      /\ phase[e] = "working" /\ phase' = [phase EXCEPT ![e] = "locks"]
      /\ branch' = branch \/ branch' = [branch EXCEPT ![e] = @ \cup {e}]
  BY DEF FinishWork, Working
<1>2. branch[e] \cup {e} \in SUBSET Execs
  BY <1>1 DEF MergeInv, MergeTypes
<1>3. /\ branch' \in [Execs -> (SUBSET Execs) \cup {NoBranch}]
      /\ \A f \in Execs : f # e => branch'[f] = branch[f]
  BY <1>1, <1>2 DEF MergeInv, MergeTypes
<1>4. \A f \in Execs : phase'[f] = "working" => f # e /\ phase[f] = "working"
  BY <1>1 DEF LockInv, LockTypes
<1>5. MergeTypes'
  BY <1>1, <1>3, <1>4 DEF MergeInv, MergeTypes
<1> QED
  BY <1>1, <1>5 DEF MergeInv, UnderTest, UndoneAlone, At, IsMerging

LEMMA FinalizeKeepsMerges ==
  ASSUME LockInv, MergeInv, NEW e \in Execs, Finalize(e)
  PROVE  MergeInv'
<1>1. UNCHANGED <<queue, merge, head, refs, merged, landed, pool>>
  BY DEF Finalize, FinalizeLocks, FinalizeLease, FinalizeTree, FinalizeTask, Untouched
<1>2. blame' = blame
  BY DEF Finalize, FinalizeLocks, FinalizeLease, FinalizeTree, FinalizeTask,
         NoMishap, PassedOver
<1>3. \E p \in Finalizing \cup {"over"} : phase' = [phase EXCEPT ![e] = p]
  BY DEF Finalize, FinalizeLocks, FinalizeLease, FinalizeTree, FinalizeTask, Goto, Finalizing
<1>4. \A f \in Execs : phase'[f] = "working" => f # e /\ phase[f] = "working"
  BY <1>3 DEF LockInv, LockTypes, Finalizing
<1>5. branch' = branch \/ branch' = [branch EXCEPT ![e] = NoBranch]
  BY DEF Finalize, FinalizeLocks, FinalizeLease, FinalizeTree, FinalizeTask, RemoveTree
<1>6. /\ branch' \in [Execs -> (SUBSET Execs) \cup {NoBranch}]
      /\ \A f \in Execs : f # e => branch'[f] = branch[f]
  BY <1>5 DEF MergeInv, MergeTypes
<1>7. MergeTypes'
  BY <1>1, <1>2, <1>4, <1>6 DEF MergeInv, MergeTypes
<1> QED
  BY <1>1, <1>2, <1>7 DEF MergeInv, UnderTest, UndoneAlone, At, IsMerging

LEMMA QueueMergeKeeps ==
  ASSUME MergeInv, NEW e \in Execs, QueueMerge(e)
  PROVE  MergeInv'
<1>1. /\ queue' = Append(queue, e)
      /\ UNCHANGED <<merge, head, refs, branch, merged, landed, blame, pool, phase>>
  BY DEF QueueMerge, Enqueue, lockVars, poolVars
<1>2. queue' \in Seq(Execs)
  BY <1>1, AppendProperties DEF MergeInv, MergeTypes
<1>3. MergeTypes'
  BY <1>1, <1>2 DEF MergeInv, MergeTypes
<1> QED
  BY <1>1, <1>3 DEF MergeInv, UnderTest, UndoneAlone, At, IsMerging

LEMMA ProcessNextKeeps ==
  ASSUME MergeInv, ProcessNext, UNCHANGED <<pool, phase>>
  PROVE  MergeInv'
<1>1. /\ queue # <<>> /\ queue' = Tail(queue)
      /\ merge' = [item |-> Head(queue), step |-> "start", before |-> Root, orig |-> Root]
      /\ UNCHANGED <<head, refs, branch, merged, landed, blame>>
  BY DEF ProcessNext, NotMerging
<1>2. Head(queue) \in Execs /\ queue' \in Seq(Execs)
  BY <1>1, HeadTailProperties DEF MergeInv, MergeTypes
<1>3. MergeTypes'
  BY <1>1, <1>2, RootTyped DEF MergeInv, MergeTypes
<1>4. UnderTest'
  BY <1>1 DEF UnderTest, At
<1> QED
  BY <1>1, <1>3, <1>4 DEF MergeInv, UndoneAlone

LEMMA LandKeeps ==
  ASSUME MergeInv, Land, UNCHANGED <<pool, phase>>
  PROVE  MergeInv'
<1>1. /\ merge.item \in Execs
      /\ head' \in Local /\ UNCHANGED <<queue, branch>>
  BY DEF Land, At, IsMerging, MergeInv, MergeTypes, Local
<1>2. CASE /\ head' = "master" /\ branch[merge.item] # NoBranch
           /\ refs' = [refs EXCEPT !["master"] = Joined(@, branch[merge.item])]
           /\ \/ /\ merge' = [merge EXCEPT !.step = "test", !.before = refs[head],
                                           !.orig = refs["master"]]
                 /\ blame' = [blame EXCEPT !.strayed = @ \/ head # "master"]
                 /\ UNCHANGED <<merged, landed, mishaps>>
              \/ Refuse /\ Fault
  <2> DEFINE m == refs["master"]
  <2>1. branch[merge.item] \in SUBSET Execs /\ m \in Commits /\ refs[head] \in Commits
    BY <1>1, <1>2 DEF MergeInv, MergeTypes, Local
  <2>2. /\ refs' \in [Local -> Commits] /\ refs'["master"] = Joined(m, branch[merge.item])
        /\ \A d \in Commits : IsPrefix(d, m) => IsPrefix(d, refs'["master"])
    BY <1>2, <2>1, JoinedExtends DEF MergeInv, MergeTypes, Local
  <2>3. CASE /\ merge' = [merge EXCEPT !.step = "test", !.before = refs[head], !.orig = m]
             /\ blame' = [blame EXCEPT !.strayed = @ \/ head # "master"]
             /\ UNCHANGED <<merged, landed, mishaps>>
    <3>1. /\ blame' \in [strayed : BOOLEAN, faults : BOOLEAN, crashed : BOOLEAN, early : BOOLEAN]
          /\ blame'.faults = blame.faults
          /\ ~blame'.strayed => ~blame.strayed /\ head = "master"
      BY <2>3 DEF MergeInv, MergeTypes
    <3>2. /\ merge' \in [item : Execs \cup {0}, step : {"none", "start", "test"},
                         before : Commits, orig : Commits]
          /\ merge'.before = refs[head]
      BY <2>1, <2>3 DEF MergeInv, MergeTypes
    <3>3. MergeTypes'
      BY <1>1, <2>2, <2>3, <3>1, <3>2 DEF MergeInv, MergeTypes
    <3>4. UnderTest'
      BY <1>2, <2>3, <3>1, <3>2 DEF MergeInv, UnderTest, UndoneAlone
    <3>5. UndoneAlone'
      BY <2>2, <2>3, <3>1 DEF MergeInv, MergeTypes, UndoneAlone
    <3> QED
      BY <3>3, <3>4, <3>5 DEF MergeInv
  <2>4. CASE Refuse /\ Fault
    <3>1. /\ blame' \in [strayed : BOOLEAN, faults : BOOLEAN, crashed : BOOLEAN, early : BOOLEAN]
          /\ blame'.faults
      BY <2>4 DEF Fault, Blame, MergeInv, MergeTypes
    <3>2. MergeTypes'
      BY <1>1, <2>2, <2>4, <3>1, RootTyped DEF MergeInv, MergeTypes, Refuse, NotMerging
    <3> QED
      BY <3>1, <3>2 DEF MergeInv, UnderTest, UndoneAlone
  <2> QED
    BY <1>2, <2>3, <2>4
<1>3. CASE Refuse /\ UNCHANGED <<refs, blame, mishaps>>
  <2>1. MergeTypes'
    BY <1>1, <1>3, RootTyped DEF MergeInv, MergeTypes, Refuse, NotMerging
  <2>2. UnderTest'
    BY <1>3 DEF UnderTest, At, IsMerging, Refuse, NotMerging
  <2> QED
    BY <1>3, <2>1, <2>2 DEF MergeInv, UndoneAlone, Refuse
<1> QED
  BY <1>2, <1>3 DEF Land

LEMMA VerdictKeeps ==
  ASSUME MergeInv, Verdict, UNCHANGED <<pool, phase>>
  PROVE  MergeInv'
<1>1. /\ merge.item \in Execs /\ At("test") /\ head \in Local
      /\ UNCHANGED <<queue, head, branch>>
      /\ merge' = NotMerging
  BY DEF Verdict, At, IsMerging, MergeInv, MergeTypes, Refuse, LogFails
<1>2. UnderTest'
  BY <1>1 DEF UnderTest, At, IsMerging, NotMerging
<1>3. /\ refs[head] \in Commits /\ refs["master"] \in Commits /\ merge.before \in Commits
  BY DEF MergeInv, MergeTypes, Local
<1>4. /\ merge' \in [item : Execs \cup {0}, step : {"none", "start", "test"},
                     before : Commits, orig : Commits]
  BY <1>1, RootTyped DEF NotMerging
<1>5. CASE /\ merged' = merged \cup {merge.item} /\ landed' = refs["master"]
           /\ UNCHANGED refs /\ NothingFails
  <2>1. MergeTypes'
    BY <1>1, <1>3, <1>4, <1>5 DEF MergeInv, MergeTypes, NothingFails
  <2>2. UndoneAlone'
    BY <1>3, <1>5, SamePrefix DEF UndoneAlone
  <2> QED
    BY <1>2, <2>1, <2>2 DEF MergeInv
<1>6. CASE Refuse /\ ResetTo(merge.before) /\ NothingFails
  <2>1. MergeTypes'
    BY <1>1, <1>3, <1>4, <1>6 DEF MergeInv, MergeTypes, NothingFails, Refuse, ResetTo
  <2>2. ASSUME ~blame.faults, ~blame.strayed
        PROVE  IsPrefix(landed, refs'["master"])
    <3>1. head = "master" /\ IsPrefix(landed, merge.before)
      BY <1>1, <2>2 DEF MergeInv, UnderTest
    <3> QED
      BY <1>6, <3>1 DEF ResetTo, MergeInv, MergeTypes, Local
  <2> QED
    BY <1>2, <1>6, <2>1, <2>2
    DEF MergeInv, UndoneAlone, NothingFails, Refuse
<1>7. CASE /\ Refuse /\ Fault
           /\ UNCHANGED refs \/ \E c \in FallBacks(refs[head]) : ResetTo(c)
  <2>1. refs' \in [Local -> Commits]
    BY <1>1, <1>7, FallBacksTyped DEF ResetTo, MergeInv, MergeTypes
  <2>2. /\ blame' \in [strayed : BOOLEAN, faults : BOOLEAN, crashed : BOOLEAN, early : BOOLEAN]
        /\ blame'.faults
    BY <1>7 DEF Fault, Blame, MergeInv, MergeTypes
  <2>3. MergeTypes'
    BY <1>1, <1>4, <1>7, <2>1, <2>2 DEF MergeInv, MergeTypes, Refuse
  <2> QED
    BY <2>2, <2>3 DEF MergeInv, UnderTest, UndoneAlone
<1> QED
  BY <1>5, <1>6, <1>7 DEF Verdict, UndoMerge, LogFails

LEMMA HeadMovesKeeps ==
  ASSUME MergeInv, HeadMoves, UNCHANGED <<pool, phase>>
  PROVE  MergeInv'
<1>1. /\ UNCHANGED <<queue, merge, branch, merged, landed>>
      /\ head' \in Local
      /\ refs' \in [Local -> Commits] /\ refs'["master"] = refs["master"]
      /\ blame' = [blame EXCEPT !.strayed = @ \/ IsMerging]
  BY DEF HeadMoves, MergeInv, MergeTypes, Local
<1>2. /\ blame' \in [strayed : BOOLEAN, faults : BOOLEAN, crashed : BOOLEAN, early : BOOLEAN]
      /\ blame'.faults = blame.faults
      /\ ~blame'.strayed => ~blame.strayed /\ ~IsMerging
  BY <1>1 DEF MergeInv, MergeTypes, IsMerging
<1>3. MergeTypes'
  BY <1>1, <1>2 DEF MergeInv, MergeTypes
<1> QED
  BY <1>1, <1>2, <1>3 DEF MergeInv, UnderTest, UndoneAlone, At, IsMerging

LEMMA RestartKeepsMerges ==
  ASSUME LockInv, MergeInv, Restart
  PROVE  MergeInv'
<1>1. /\ queue' = <<>> /\ merge' = NotMerging
      /\ UNCHANGED <<head, refs, branch, merged, landed>> /\ pool' = {}
      /\ blame' = [blame EXCEPT !["crashed"] = TRUE]
  BY DEF Restart, ForgetQueue, Blame
<1>2. /\ blame' \in [strayed : BOOLEAN, faults : BOOLEAN, crashed : BOOLEAN, early : BOOLEAN]
      /\ blame'.strayed = blame.strayed /\ blame'.faults = blame.faults
  BY <1>1 DEF MergeInv, MergeTypes
<1>3. \A e \in Execs : phase'[e] = "working" => phase[e] = "working"
  BY ThreadsOnward
<1>4. MergeTypes'
  BY <1>1, <1>2, <1>3, EmptySeq, RootTyped DEF MergeInv, MergeTypes, NotMerging
<1>5. UnderTest'
  BY <1>1 DEF UnderTest, At, IsMerging, NotMerging
<1> QED
  BY <1>1, <1>2, <1>4, <1>5 DEF MergeInv, UndoneAlone

LEMMA MergeStepKeeps ==
  ASSUME LockInv, MergeInv, [Next]_pvars
  PROVE  MergeInv'
<1>1. CASE LockTable
  BY <1>1, ThreadsOnward, MergesUntouched
  DEF LockTable, mergeVars, poolVars, MergeInv, MergeTypes
<1>2. ASSUME NEW e \in Execs,
             CreateWorktree(e) \/ Spawn(e) \/ FinishWork(e) \/ Finalize(e) \/ QueueMerge(e)
      PROVE  MergeInv'
  BY <1>2, CreateWorktreeKeepsMerges, SpawnKeepsMerges, WorkKeepsMerges,
     FinalizeKeepsMerges, QueueMergeKeeps
<1>3. CASE Merges
  BY <1>3, ProcessNextKeeps, LandKeeps, VerdictKeeps, HeadMovesKeeps
  DEF Merges, MergeStep, lockVars, poolVars
<1>4. CASE Restart
  BY <1>4, RestartKeepsMerges
<1>5. CASE UNCHANGED pvars
  <2>1. UNCHANGED <<queue, merge, head, refs, branch, merged, landed, blame, pool, phase>>
    BY <1>5 DEF pvars, lockVars, mergeVars
  <2> QED
    BY <2>1, MergesUntouched DEF MergeInv, MergeTypes
<1> QED
  BY <1>1, <1>2, <1>3, <1>4, <1>5 DEF Next

LEMMA MergeInitially == Init => MergeInv
<1> SUFFICES ASSUME Init PROVE MergeInv
  OBVIOUS
<1>1. MergeTypes
  BY ItemsAreExecs, EmptySeq, RootTyped
  DEF Init, LockInit, MergeInit, MergeTypes, Local, NotMerging
<1>2. UndoneAlone
  BY RootTyped, SamePrefix DEF Init, MergeInit, UndoneAlone, Local
<1> QED
  BY <1>1, <1>2 DEF Init, MergeInit, MergeInv, UnderTest, At, IsMerging, NotMerging

(* The merge queue keeps its invariant, whatever the lock table, the workers
   and restarts do. *)
THEOREM MergesHeld == Spec => []MergeInv
<1>1. LockInv /\ MergeInv /\ [Next]_pvars => MergeInv'
  BY MergeStepKeeps
<1> QED
  BY <1>1, MergeInitially, LocksHeld, PTL DEF Spec

(* Every reachable state of parallel execution is well typed. *)
THEOREM ParallelTyped == Spec => []ParallelTypeOK
<1>1. LockInv /\ MergeInv => ParallelTypeOK
  BY DEF LockInv, LockTypes, MergeInv, MergeTypes, ParallelTypeOK
<1> QED
  BY <1>1, LocksHeld, MergesHeld, PTL

(* As long as no git command fails and HEAD stays on master during every merge,
   an undo takes nothing out of master's history that was there when a merge had
   last passed its tests, however often and in whatever order items are queued
   and whether or not their branches had anything new. *)
THEOREM MergedStays == Spec => []UndoneAlone
<1>1. MergeInv => UndoneAlone
  BY DEF MergeInv
<1> QED
  BY <1>1, MergesHeld, PTL
-----------------------------------------------------------------------------
(***************************************************************************)
(* Only what passed its tests is on master.                                *)
(***************************************************************************)

LEMMA LandKeepsTested ==
  ASSUME MergeInv, TestedOnly, Land
  PROVE  TestedOnly'
<1> SUFFICES ASSUME Blameless'
             PROVE  /\ \A e \in Work(refs'["master"]) :
                         e \in merged' \/ (At("test")' /\ e = merge'.item)
                    /\ At("test")' => Work(merge'.before) \subseteq merged'
                    /\ \A e \in Execs : branch'[e] # NoBranch =>
                         branch'[e] \subseteq merged' \cup {e}
  BY DEF TestedOnly
<1>1. /\ merge.item \in Execs /\ ~At("test")
      /\ branch' = branch /\ refs["master"] \in Commits
  BY DEF Land, At, IsMerging, MergeInv, MergeTypes, Local
<1>2. CASE /\ branch[merge.item] # NoBranch
           /\ refs' = [refs EXCEPT !["master"] = Joined(@, branch[merge.item])]
           /\ merge' = [merge EXCEPT !.step = "test", !.before = refs[head],
                                     !.orig = refs["master"]]
           /\ blame' = [blame EXCEPT !.strayed = @ \/ head # "master"]
           /\ merged' = merged
  <2>1. Blameless /\ head = "master"
    BY <1>2 DEF Blameless, MergeInv, MergeTypes
  <2>2. /\ merge'.item = merge.item /\ merge'.before = refs["master"] /\ At("test")'
    BY <1>1, <1>2, <2>1, ItemsAreExecs DEF MergeInv, MergeTypes, At, IsMerging
  <2>3. Work(refs'["master"]) = Work(refs["master"]) \cup branch[merge.item]
    BY <1>1, <1>2, JoinedExtends DEF MergeInv, MergeTypes, Local
  <2> QED
    BY <1>1, <1>2, <2>1, <2>2, <2>3 DEF TestedOnly
<1>3. CASE Refuse /\ UNCHANGED <<refs, blame, mishaps>>
  <2>1. Blameless /\ ~At("test")'
    BY <1>3 DEF Blameless, Refuse, NotMerging, At, IsMerging
  <2> QED
    BY <1>1, <1>3, <2>1 DEF TestedOnly, Refuse
<1>4. ~Fault
  BY DEF Fault, Blame, Blameless, MergeInv, MergeTypes
<1> QED
  BY <1>2, <1>3, <1>4 DEF Land

LEMMA VerdictKeepsTested ==
  ASSUME MergeInv, TestedOnly, Verdict
  PROVE  TestedOnly'
<1> SUFFICES ASSUME Blameless'
             PROVE  /\ \A e \in Work(refs'["master"]) :
                         e \in merged' \/ (At("test")' /\ e = merge'.item)
                    /\ At("test")' => Work(merge'.before) \subseteq merged'
                    /\ \A e \in Execs : branch'[e] # NoBranch =>
                         branch'[e] \subseteq merged' \cup {e}
  BY DEF TestedOnly
<1>1. /\ merge.item \in Execs /\ At("test") /\ branch' = branch /\ ~At("test")'
  BY DEF Verdict, At, IsMerging, MergeInv, MergeTypes, Refuse, NotMerging, LogFails
<1>2. ~Fault
  BY DEF Fault, Blame, Blameless, MergeInv, MergeTypes
<1>3. blame' = blame /\ Blameless
  BY <1>2 DEF Verdict, UndoMerge, NothingFails, LogFails, Blameless
<1>4. head = "master"
  BY <1>1, <1>3 DEF Blameless, MergeInv, UnderTest
<1>5. CASE merged' = merged \cup {merge.item} /\ UNCHANGED refs
  BY <1>1, <1>3, <1>5 DEF TestedOnly
<1>6. CASE Refuse /\ ResetTo(merge.before)
  <2>1. refs'["master"] = merge.before /\ merged' = merged
    BY <1>4, <1>6 DEF ResetTo, Refuse, MergeInv, MergeTypes, Local
  <2> QED
    BY <1>1, <1>3, <2>1 DEF TestedOnly
<1> QED
  BY <1>2, <1>5, <1>6 DEF Verdict, UndoMerge, LogFails

LEMMA TestedStepKeeps ==
  ASSUME LockInv, MergeInv, TestedOnly, [Next]_pvars
  PROVE  TestedOnly'
<1>1. ASSUME UNCHANGED <<merge, refs, branch, merged>>, Blameless' => Blameless
      PROVE  TestedOnly'
  BY <1>1 DEF TestedOnly, At, IsMerging
<1>2. CASE LockTable \/ UNCHANGED pvars
  BY <1>1, <1>2 DEF LockTable, pvars, mergeVars, Blameless
<1>3. ASSUME NEW e \in Execs, CreateWorktree(e)
      PROVE  TestedOnly'
  <2>1. /\ branch' = [branch EXCEPT ![e] = Work(refs["master"])]
        /\ UNCHANGED <<merge, refs, merged>>
        /\ blame' = [blame EXCEPT !.early = @ \/ At("test")]
    BY <1>3 DEF CreateWorktree
  <2>2. Blameless' => Blameless /\ ~At("test")
    BY <2>1 DEF Blameless, MergeInv, MergeTypes, At, IsMerging
  <2>3. \A f \in Execs : branch'[f] = IF f = e THEN Work(refs["master"]) ELSE branch[f]
    BY <2>1 DEF MergeInv, MergeTypes
  <2> QED
    BY <2>1, <2>2, <2>3 DEF TestedOnly, At, IsMerging
<1>4. ASSUME NEW e \in Execs, Spawn(e)
      PROVE  TestedOnly'
  BY <1>1, <1>4 DEF Spawn, mergeVars, Blameless
<1>5. ASSUME NEW e \in Execs, FinishWork(e)
      PROVE  TestedOnly'
  <2>1. UNCHANGED <<merge, refs, merged, blame>> /\ phase[e] = "working"
    BY <1>5 DEF FinishWork, Working
  <2>2. /\ branch[e] # NoBranch
        /\ \A f \in Execs \ {e} : branch'[f] = branch[f]
        /\ branch'[e] \subseteq branch[e] \cup {e}
    BY <1>5, <2>1 DEF FinishWork, MergeInv, MergeTypes
  <2> QED
    BY <2>1, <2>2 DEF TestedOnly, At, IsMerging, Blameless
<1>6. ASSUME NEW e \in Execs, Finalize(e)
      PROVE  TestedOnly'
  <2>1. /\ UNCHANGED <<merge, refs, merged, blame>>
        /\ branch' = branch \/ branch' = [branch EXCEPT ![e] = NoBranch]
    BY <1>6 DEF Finalize, FinalizeLocks, FinalizeLease, FinalizeTree, FinalizeTask,
                NoMishap, PassedOver, Untouched, RemoveTree
  <2>2. \A f \in Execs : branch'[f] \in {branch[f], NoBranch}
    BY <2>1 DEF MergeInv, MergeTypes
  <2> QED
    BY <2>1, <2>2 DEF TestedOnly, At, IsMerging, Blameless
<1>7. ASSUME NEW e \in Execs, QueueMerge(e)
      PROVE  TestedOnly'
  BY <1>1, <1>7 DEF QueueMerge, Enqueue, Blameless
<1>8. CASE ProcessNext
  <2>1. ~IsMerging /\ ~At("test")' /\ UNCHANGED <<refs, branch, merged, blame>>
    BY <1>8 DEF ProcessNext, NotMerging, At
  <2> QED
    BY <2>1 DEF TestedOnly, At, Blameless
<1>9. CASE HeadMoves
  <2>1. /\ UNCHANGED <<merge, branch, merged>> /\ refs'["master"] = refs["master"]
        /\ Blameless' => Blameless
    BY <1>9 DEF HeadMoves, Blameless, MergeInv, MergeTypes, Local
  <2> QED
    BY <2>1 DEF TestedOnly, At, IsMerging
<1>10. CASE Restart
  <2>1. ~Blameless'
    BY <1>10 DEF Restart, ForgetQueue, Blame, Blameless, MergeInv, MergeTypes
  <2> QED
    BY <2>1 DEF TestedOnly
<1> QED
  BY <1>2, <1>3, <1>4, <1>5, <1>6, <1>7, <1>8, <1>9, <1>10, LandKeepsTested,
     VerdictKeepsTested DEF Next, Merges, MergeStep

(* Without a failed command or log, a stray HEAD, a restart or a worktree cut
   while a merge is tested, master holds nothing but what was tested on it. *)
THEOREM TestedLands == Spec => []OnlyTestedLands
<1>1. Init => TestedOnly
  BY ItemsAreExecs, RootTyped
  DEF Init, MergeInit, TestedOnly, Blameless, At, IsMerging, NotMerging, Local
<1>2. LockInv /\ MergeInv /\ TestedOnly /\ [Next]_pvars => TestedOnly'
  BY TestedStepKeeps
<1>3. TestedOnly => OnlyTestedLands
  BY DEF TestedOnly, OnlyTestedLands, Blameless, Merging
<1> QED
  BY <1>1, <1>2, <1>3, LocksHeld, MergesHeld, PTL DEF Spec
-----------------------------------------------------------------------------
(***************************************************************************)
(* The rows implement ExclusiveLocks, step by step.                        *)
(***************************************************************************)

(* What a table with one row per file says of owners and of lateness. *)
LEMMA Mapped ==
  ASSUME NEW rows \in SUBSET LockRow,
         \A p, q \in rows : p.res = q.res => p = q
  PROVE  /\ \A row \in rows :
              /\ row.res \in Resources /\ row.exec \in Execs
              /\ OwnersIn(rows)[row.res] = {row.exec}
              /\ row.res \in LateIn(rows) <=> row.silent \/ row.lapsed
         /\ \A r \in Resources : (\A row \in rows : row.res # r) =>
              OwnersIn(rows)[r] = {} /\ r \notin LateIn(rows)
         /\ LateIn(rows) \subseteq Resources
         /\ \A r \in LateIn(rows) : \E row \in rows : row.res = r
<1>1. \A r \in Resources :
        OwnersIn(rows)[r] = {row.exec : row \in {k \in rows : k.res = r}}
  BY DEF OwnersIn
<1>2. \A row \in rows : row.res \in Resources /\ row.exec \in Execs
  BY DEF LockRow
<1>3. ASSUME NEW row \in rows
      PROVE  OwnersIn(rows)[row.res] = {row.exec}
  <2>1. {k \in rows : k.res = row.res} = {row}
    OBVIOUS
  <2> QED
    BY <1>1, <1>2, <2>1
<1>4. ASSUME NEW row \in rows
      PROVE  row.res \in LateIn(rows) <=> row.silent \/ row.lapsed
  BY <1>2 DEF LateIn
<1>5. \A r \in Resources : (\A row \in rows : row.res # r) =>
         OwnersIn(rows)[r] = {} /\ r \notin LateIn(rows)
  BY <1>1 DEF LateIn
<1>6. /\ LateIn(rows) \subseteq Resources
      /\ \A r \in LateIn(rows) : \E row \in rows : row.res = r
  BY DEF LateIn
<1> QED
  BY <1>2, <1>3, <1>4, <1>5, <1>6

(* Both ends of a step, of which LockInv holds. *)
LEMMA MappedStep ==
  ASSUME LockInv, LockInv'
  PROVE  /\ \A row \in locks :
              /\ row.res \in Resources /\ row.exec \in Execs
              /\ OwnersIn(locks)[row.res] = {row.exec}
              /\ row.res \in LateIn(locks) <=> row.silent \/ row.lapsed
         /\ \A r \in Resources : (\A row \in locks : row.res # r) =>
              OwnersIn(locks)[r] = {} /\ r \notin LateIn(locks)
         /\ LateIn(locks) \subseteq Resources
         /\ \A row \in locks' :
              /\ row.res \in Resources /\ row.exec \in Execs
              /\ OwnersIn(locks')[row.res] = {row.exec}
              /\ row.res \in LateIn(locks') <=> row.silent \/ row.lapsed
         /\ \A r \in Resources : (\A row \in locks' : row.res # r) =>
              OwnersIn(locks')[r] = {} /\ r \notin LateIn(locks')
         /\ LateIn(locks') \subseteq Resources
<1>1. locks \in SUBSET LockRow /\ \A p, q \in locks : p.res = q.res => p = q
  BY DEF LockInv, LockTypes, OneRow
<1>2. locks' \in SUBSET LockRow /\ \A p, q \in locks' : p.res = q.res => p = q
  BY DEF LockInv, LockTypes, OneRow
<1> QED
  BY <1>1, <1>2, Mapped

(* Rows that go are released: their owners are not at work, or were late. *)
LEMMA Withdrawal ==
  ASSUME LockInv, LockInv', locks' \subseteq locks, AtWork' = AtWork,
         \A row \in locks \ locks' : row.lapsed \/ row.exec \notin AtWork
  PROVE  \E S \in SUBSET Resources : Locks!Release(S)
<1> DEFINE S == {row.res : row \in locks \ locks'}
           free == [r \in Resources |-> IF r \in S THEN {} ELSE OwnersIn(locks)[r]]
<1>1. S \in SUBSET Resources
  BY MappedStep
<1>2. \A row \in locks' : row \in locks /\ row.res \notin S
  BY DEF LockInv, OneRow
<1>3. \A r \in S : OwnersIn(locks)[r] \cap AtWork = {} \/ r \in LateIn(locks)
  BY MappedStep
<1>4. ASSUME NEW r \in Resources
      PROVE  /\ OwnersIn(locks')[r] = free[r]
             /\ r \in LateIn(locks') <=> r \in LateIn(locks) \ S
  <2>1. CASE \E row \in locks' : row.res = r
    <3>1. PICK row \in locks' : row.res = r
      BY <2>1
    <3>2. row \in locks /\ r \notin S /\ free[r] = OwnersIn(locks)[r]
      BY <1>2, <3>1
    <3> QED
      BY <3>1, <3>2, MappedStep
  <2>2. CASE r \in S
    <3>1. \A row \in locks' : row.res # r
      BY <1>2, <2>2
    <3>2. free[r] = {}
      BY <2>2
    <3> QED
      BY <2>2, <3>1, <3>2, MappedStep
  <2>3. CASE r \notin S /\ \A row \in locks' : row.res # r
    <3>1. \A row \in locks : row.res # r
      BY <2>3
    <3>2. free[r] = OwnersIn(locks)[r]
      BY <2>3
    <3> QED
      BY <2>3, <3>1, <3>2, MappedStep
  <2> QED
    BY <2>1, <2>2, <2>3
<1>5. OwnersIn(locks') = free
  BY <1>4 DEF OwnersIn
<1>6. LateIn(locks') = LateIn(locks) \ S
  BY <1>4, MappedStep
<1>7. Locks!Release(S)
  BY <1>3, <1>5, <1>6 DEF Locks!Release
<1> QED
  BY <1>1, <1>7

(* Rows are renewed: an owner at work is heard of. *)
LEMMA Hearing ==
  ASSUME LockInv, LockInv', NEW R \in SUBSET locks, AtWork' = AtWork,
         locks' = (locks \ R) \cup {Renewed(row) : row \in R}
  PROVE  \E S \in SUBSET Resources : Locks!Hear(S)
<1> DEFINE S == {row.res : row \in R}
<1>1. S \in SUBSET Resources
  BY MappedStep
<1>2. \A row \in R :
        /\ Renewed(row) \in locks' /\ Renewed(row).res = row.res
        /\ Renewed(row).exec = row.exec
        /\ ~Renewed(row).silent /\ ~Renewed(row).lapsed
  <2> SUFFICES ASSUME NEW row \in R
               PROVE  /\ Renewed(row) \in locks' /\ Renewed(row).res = row.res
                      /\ Renewed(row).exec = row.exec
                      /\ ~Renewed(row).silent /\ ~Renewed(row).lapsed
    OBVIOUS
  <2>1. row \in LockRow
    BY DEF LockInv, LockTypes
  <2>2. Renewed(row) \in locks'
    OBVIOUS
  <2> QED
    BY <2>1, <2>2 DEF Renewed, LockRow
<1>3. ASSUME NEW r \in Resources
      PROVE  /\ OwnersIn(locks')[r] = OwnersIn(locks)[r]
             /\ r \in LateIn(locks') <=> r \in LateIn(locks) \ S
  <2>1. CASE r \in S
    <3>1. PICK row \in R : row.res = r
      BY <2>1
    <3>2. OwnersIn(locks)[r] = {row.exec}
      BY <3>1, MappedStep
    <3>3. OwnersIn(locks')[r] = {row.exec} /\ r \notin LateIn(locks')
      <4>1. PICK new \in locks' :
              /\ new.res = r /\ new.exec = row.exec /\ ~new.silent /\ ~new.lapsed
        BY <1>2, <3>1
      <4> QED
        BY <4>1, MappedStep
    <3> QED
      BY <2>1, <3>2, <3>3
  <2>2. CASE r \notin S /\ \E row \in locks : row.res = r
    <3>1. PICK row \in locks : row.res = r /\ row \in locks'
      BY <2>2
    <3> QED
      BY <2>2, <3>1, MappedStep
  <2>3. CASE \A row \in locks : row.res # r
    <3>1. \A row \in locks' : row.res # r
      BY <1>2, <2>3
    <3> QED
      BY <2>3, <3>1, MappedStep
  <2> QED
    BY <2>1, <2>2, <2>3
<1>4. OwnersIn(locks') = OwnersIn(locks)
  BY <1>3 DEF OwnersIn
<1>5. LateIn(locks') = LateIn(locks) \ S
  BY <1>3, MappedStep
<1>6. Locks!Hear(S)
  BY <1>4, <1>5 DEF Locks!Hear
<1> QED
  BY <1>1, <1>6

(* One row is rewritten. *)
LEMMA Rewriting ==
  ASSUME LockInv, LockInv', NEW row \in locks, NEW new, new.res = row.res,
         locks' = (locks \ {row}) \cup {new}
  PROVE  /\ OwnersIn(locks') = [OwnersIn(locks) EXCEPT ![row.res] = {new.exec}]
         /\ LateIn(locks') = IF new.silent \/ new.lapsed
                             THEN LateIn(locks) \cup {row.res}
                             ELSE LateIn(locks) \ {row.res}
<1>1. new \in locks' /\ row.res \in Resources
  BY MappedStep
<1>2. ASSUME NEW r \in Resources
      PROVE  /\ OwnersIn(locks')[r] =
                  IF r = row.res THEN {new.exec} ELSE OwnersIn(locks)[r]
             /\ r # row.res => (r \in LateIn(locks') <=> r \in LateIn(locks))
  <2>1. CASE r = row.res
    <3>1. OwnersIn(locks')[new.res] = {new.exec}
      BY <1>1, MappedStep
    <3> QED
      BY <2>1, <3>1
  <2>2. CASE r # row.res /\ \E k \in locks : k.res = r
    <3>1. PICK k \in locks : k.res = r /\ k \in locks'
      BY <2>2
    <3>2. /\ OwnersIn(locks)[r] = {k.exec}
          /\ r \in LateIn(locks) <=> k.silent \/ k.lapsed
      BY <3>1, MappedStep
    <3>3. /\ OwnersIn(locks')[r] = {k.exec}
          /\ r \in LateIn(locks') <=> k.silent \/ k.lapsed
      BY <3>1, MappedStep
    <3> QED
      BY <2>2, <3>2, <3>3
  <2>3. CASE \A k \in locks : k.res # r
    <3>1. \A k \in locks' : k.res # r
      BY <2>3
    <3> QED
      BY <2>3, <3>1, MappedStep
  <2> QED
    BY <2>1, <2>2, <2>3
<1>3. OwnersIn(locks') = [OwnersIn(locks) EXCEPT ![row.res] = {new.exec}]
  BY <1>2 DEF OwnersIn
<1>4. row.res \in LateIn(locks') <=> new.silent \/ new.lapsed
  BY <1>1, MappedStep
<1>5. LateIn(locks) \subseteq Resources /\ LateIn(locks') \subseteq Resources
  BY MappedStep
<1>6. CASE new.silent \/ new.lapsed
  BY <1>1, <1>2, <1>3, <1>4, <1>5, <1>6
<1>7. CASE ~(new.silent \/ new.lapsed)
  BY <1>1, <1>2, <1>3, <1>4, <1>5, <1>7
<1> QED
  BY <1>6, <1>7

LEMMA ClaimGrants ==
  ASSUME LockInv, LockInv', NEW g \in Groups, ClaimGroup(g)
  PROVE  \/ UNCHANGED <<OwnersIn(locks), AtWork, LateIn(locks)>>
         \/ \E S \in SUBSET Resources : \E to \in [S -> Execs] : Locks!Grant(S, to)
<1>1. PICK n \in 0 .. MaxExecs : Claimed(g, n)
  BY ClaimWrites
<1>2. /\ DOMAIN g = {1} \/ DOMAIN g = {1, 2}
      /\ \A i \in DOMAIN g : g[i] \in Tasks
      /\ \A i, j \in DOMAIN g : i # j =>
              g[i] # g[j] /\ Needs(g[i]) \cap Needs(g[j]) = {}
  BY GroupShape
<1> DEFINE S == {r \in Resources : \E i \in DOMAIN g : r \in Needs(g[i])}
           who(r) == CHOOSE e \in Execs : \E i \in DOMAIN g : r \in Needs(g[i]) /\ e = n + i
           to == [r \in S |-> who(r)]
<1>3. \A i \in DOMAIN g : Needs(g[i]) \subseteq S /\ n + i \in Execs
  BY <1>1, <1>2, NormalAssumption, DeclaresAssumption DEF Needs, Claimed
<1>4. \A i \in DOMAIN g : \A r \in Needs(g[i]) : who(r) = n + i
  <2> SUFFICES ASSUME NEW i \in DOMAIN g, NEW r \in Needs(g[i])
               PROVE  who(r) = n + i
    OBVIOUS
  <2>1. \A e : (\E j \in DOMAIN g : r \in Needs(g[j]) /\ e = n + j) <=> e = n + i
    BY <1>2
  <2>2. n + i \in Execs
    BY <1>3
  <2> QED
    BY <2>1, <2>2
<1>5. to \in [S -> Execs] /\ \A i \in DOMAIN g : \A r \in Needs(g[i]) : to[r] = n + i
  BY <1>3, <1>4
<1> HIDE DEF to
<1>6. AtWork' = AtWork
  <2>1. \A e \in Execs : Working(e)' <=> Working(e)
    <3>1. ASSUME NEW e \in Execs, NEW i \in DOMAIN g, e = n + i
          PROVE  Working(e)' <=> Working(e)
      BY <1>1, <3>1 DEF Claimed, Working, LockInv, UnclaimedIdle
    <3>2. ASSUME NEW e \in Execs, \A i \in DOMAIN g : e # n + i
          PROVE  Working(e)' <=> Working(e)
      BY <1>1, <3>2 DEF Claimed, Working
    <3> QED
      BY <3>1, <3>2
  <2> QED
    BY <2>1 DEF AtWork
<1>7. locks' = {row \in locks : row.res \notin S}
        \cup UNION {{NewRow(r, n + i) : r \in Needs(g[i])} : i \in DOMAIN g}
  <2>1. \A row \in locks : row.res \in Resources
    BY MappedStep
  <2> QED
    BY <1>1, <2>1 DEF Claimed
<1>8. CASE S = {}
  <2>1. locks' = locks
    BY <1>3, <1>7, <1>8
  <2> QED
    BY <1>6, <2>1
<1>9. CASE S # {}
  <2>1. \A r \in S : OwnersIn(locks)[r] = {} \/ r \in LateIn(locks)
    <3> SUFFICES ASSUME NEW r \in S, NEW row \in locks, row.res = r
                 PROVE  r \in LateIn(locks)
      BY MappedStep
    <3>1. row.lapsed
      BY <1>1 DEF Claimed
    <3> QED
      BY <3>1, MappedStep
  <2>2. ASSUME NEW r \in Resources
        PROVE  /\ OwnersIn(locks')[r] = IF r \in S THEN {to[r]} ELSE OwnersIn(locks)[r]
               /\ r \in LateIn(locks') <=> r \in LateIn(locks) /\ r \notin S
    <3>1. CASE r \in S
      <4>1. PICK i \in DOMAIN g : r \in Needs(g[i])
        BY <3>1
      <4>2. NewRow(r, n + i) \in locks' /\ to[r] = n + i
        BY <1>5, <1>7, <4>1
      <4>3. PICK row \in locks' : /\ row.res = r /\ row.exec = n + i
                                  /\ ~row.silent /\ ~row.lapsed
        BY <4>2 DEF NewRow
      <4>4. OwnersIn(locks')[r] = {n + i} /\ r \notin LateIn(locks')
        BY <4>3, MappedStep
      <4> QED
        BY <3>1, <4>2, <4>4
    <3>2. ASSUME r \notin S, NEW row \in locks, row.res = r
          PROVE  /\ OwnersIn(locks')[r] = OwnersIn(locks)[r]
                 /\ r \in LateIn(locks') <=> r \in LateIn(locks)
      <4>1. row \in locks'
        BY <1>7, <3>2
      <4>2. /\ OwnersIn(locks)[r] = {row.exec}
            /\ r \in LateIn(locks) <=> row.silent \/ row.lapsed
        BY <3>2, MappedStep
      <4>3. /\ OwnersIn(locks')[r] = {row.exec}
            /\ r \in LateIn(locks') <=> row.silent \/ row.lapsed
        BY <3>2, <4>1, MappedStep
      <4> QED
        BY <4>2, <4>3
    <3>3. CASE r \notin S /\ \A row \in locks : row.res # r
      <4>1. \A row \in locks' : row.res # r
        BY <1>3, <1>7, <3>3 DEF NewRow
      <4>2. OwnersIn(locks')[r] = {} /\ r \notin LateIn(locks')
        BY <4>1, MappedStep
      <4>3. OwnersIn(locks)[r] = {} /\ r \notin LateIn(locks)
        BY <3>3, MappedStep
      <4> QED
        BY <3>3, <4>2, <4>3
    <3> QED
      BY <3>1, <3>2, <3>3
  <2>3. OwnersIn(locks') = [r \in Resources |-> IF r \in S THEN {to[r]} ELSE OwnersIn(locks)[r]]
    BY <2>2 DEF OwnersIn
  <2>4. LateIn(locks') = LateIn(locks) \ S
    BY <2>2, MappedStep
  <2>5. Locks!Grant(S, to)
    BY <1>6, <1>9, <2>1, <2>3, <2>4 DEF Locks!Grant, Locks!Free
  <2> QED
    BY <1>5, <2>5
<1> QED
  BY <1>8, <1>9

LEMMA TakeOverTakes ==
  ASSUME LockInv, LockInv', NEW e \in Execs, TakeOver(e)
  PROVE  \E r \in Resources : Locks!TakeOver(r, e)
<1>1. PICK row \in locks :
        /\ row.silent
        /\ locks' = (locks \ {row}) \cup
             {[row EXCEPT !.token = MaxExecs + mishaps, !.exec = e,
                          !.silent = FALSE, !.aged = TRUE]}
  BY DEF TakeOver, Write
<1> DEFINE taken == [row EXCEPT !.token = MaxExecs + mishaps, !.exec = e,
                                !.silent = FALSE, !.aged = TRUE]
<1>2. taken.res = row.res /\ taken.exec = e /\ row.res \in Resources
  BY DEF LockInv, LockTypes, LockRow
<1>3. row.res \in LateIn(locks)
  BY <1>1, MappedStep
<1>4. locks' = (locks \ {row}) \cup {taken}
  BY <1>1
<1> HIDE DEF taken
<1>5. OwnersIn(locks') = [OwnersIn(locks) EXCEPT ![row.res] = {taken.exec}]
  BY <1>2, <1>4, Rewriting
<1>6. /\ OwnersIn(locks') = [OwnersIn(locks) EXCEPT ![row.res] = {e}]
      /\ LateIn(locks') \in {LateIn(locks) \cup {row.res}, LateIn(locks) \ {row.res}}
  BY <1>2, <1>4, <1>5, Rewriting
<1>7. LateIn(locks) \cup {row.res} = LateIn(locks)
  BY <1>3
<1>8. AtWork' = AtWork
  BY DEF TakeOver, OnlyLocks, AtWork, Working
<1>9. Locks!TakeOver(row.res, e)
  BY <1>3, <1>6, <1>7, <1>8 DEF Locks!TakeOver
<1> QED
  BY <1>2, <1>9

LEMMA AgingSilences ==
  ASSUME LockInv, LockInv', Silence \/ Lapse
  PROVE  \E r \in Resources : Locks!FallSilent(r)
<1>1. PICK row \in locks :
        \/ Aging(row, [row EXCEPT !.silent = TRUE])
        \/ Aging(row, [row EXCEPT !.lapsed = TRUE])
  BY DEF Silence, Lapse
<1>2. PICK new \in {[row EXCEPT !.silent = TRUE], [row EXCEPT !.lapsed = TRUE]} :
        Aging(row, new)
  BY <1>1
<1>3. /\ new.res = row.res /\ new.exec = row.exec /\ (new.silent \/ new.lapsed)
      /\ row.res \in Resources
  BY DEF LockInv, LockTypes, LockRow
<1>4. OwnersIn(locks)[row.res] = {row.exec}
  BY MappedStep
<1>5. locks' = (locks \ {row}) \cup {new}
  BY <1>2 DEF Aging
<1>6. OwnersIn(locks') = [OwnersIn(locks) EXCEPT ![row.res] = {new.exec}]
  BY <1>3, <1>5, Rewriting
<1>7. /\ OwnersIn(locks') = [OwnersIn(locks) EXCEPT ![row.res] = {row.exec}]
      /\ LateIn(locks') = LateIn(locks) \cup {row.res}
  BY <1>3, <1>5, <1>6, Rewriting
<1>8. OwnersIn(locks') = OwnersIn(locks)
  BY <1>4, <1>7 DEF OwnersIn
<1>9. AtWork' = AtWork
  BY <1>1 DEF Aging, AtWork, Working
<1>10. Locks!FallSilent(row.res)
  BY <1>4, <1>7, <1>8, <1>9 DEF Locks!FallSilent
<1> QED
  BY <1>3, <1>10

LEMMA StepImplements ==
  ASSUME LockInv, LockInv', [Next]_pvars
  PROVE  [Locks!ANext]_<<OwnersIn(locks), AtWork, LateIn(locks)>>
<1> DEFINE stutter == UNCHANGED <<OwnersIn(locks), AtWork, LateIn(locks)>>
<1>1. ASSUME UNCHANGED <<locks, phase>> PROVE stutter
  BY <1>1 DEF AtWork, Working
<1>2. ASSUME UNCHANGED locks PROVE stutter \/ Locks!Work
  BY <1>2 DEF Locks!Work, AtWork
<1>3. ASSUME NEW g \in Groups, ClaimGroup(g)
      PROVE  stutter \/ Locks!ANext
  BY <1>3, ClaimGrants DEF Locks!ANext
<1>4. ASSUME NEW e \in Execs, Renew(e)
      PROVE  Locks!ANext
  <2>1. PICK row \in Held(e) : locks' = (locks \ {row}) \cup {Renewed(row)}
    BY <1>4 DEF Renew, Write
  <2>2. {row} \in SUBSET locks /\ {Renewed(q) : q \in {row}} = {Renewed(row)}
    BY DEF Held
  <2>3. AtWork' = AtWork
    BY <1>4 DEF Renew, OnlyLocks, AtWork, Working
  <2> QED
    BY <2>1, <2>2, <2>3, Hearing DEF Locks!ANext
<1>5. ASSUME NEW e \in Execs, RenewAll(e)
      PROVE  Locks!ANext
  <2>1. RowsOf(e) \in SUBSET locks
    BY DEF RowsOf
  <2>2. AtWork' = AtWork /\ locks' = (locks \ RowsOf(e)) \cup {Renewed(row) : row \in RowsOf(e)}
    BY <1>5 DEF RenewAll, Write, OnlyLocks, AtWork, Working
  <2> QED
    BY <2>1, <2>2, Hearing DEF Locks!ANext
<1>6. ASSUME NEW e \in Execs, TakeOver(e)
      PROVE  Locks!ANext
  BY <1>6, TakeOverTakes DEF Locks!ANext
<1>7. ASSUME NEW e \in Execs, ReleaseGroup(e) \/ FinalizeLocks(e)
      PROVE  Locks!ANext
  <2>1. AtWork' = AtWork /\ e \notin AtWork
    BY <1>7 DEF ReleaseGroup, Alive, FinalizeLocks, Goto, AtWork, Working, LockInv, LockTypes
  <2>2. locks' \subseteq locks /\ \A row \in locks \ locks' : row.exec = e
    BY <1>7 DEF ReleaseGroup, Write, FinalizeLocks, RowsOf, Held
  <2> QED
    BY <2>1, <2>2, Withdrawal DEF Locks!ANext
<1>8. CASE CleanupExpired
  <2>1. /\ AtWork' = AtWork /\ locks' \subseteq locks
        /\ \A row \in locks \ locks' : row.lapsed
    BY <1>8 DEF CleanupExpired, Write, OnlyLocks, AtWork, Working
  <2> QED
    BY <2>1, Withdrawal DEF Locks!ANext
<1>9. CASE Clock
  <2>1. ASSUME NEW t \in Tasks, LeaseLapses(t) PROVE stutter
    BY <1>1, <2>1 DEF LeaseLapses
  <2> QED
    BY <1>9, <2>1, AgingSilences DEF Clock, Locks!ANext
<1>10. CASE Recover
  <2>1. AtWork' = AtWork /\ AtWork = {}
    BY <1>10 DEF Recover, AtWork, Working, LockInv, QuietBoot
  <2>2. locks' \subseteq locks
    BY <1>10 DEF Recover, RecoverStep
  <2> QED
    BY <2>1, <2>2, Withdrawal DEF Locks!ANext
<1>11. ASSUME NEW e \in Execs, Spawn(e) \/ FinishWork(e)
       PROVE  stutter \/ Locks!ANext
  BY <1>2, <1>11 DEF Spawn, FinishWork, Locks!ANext
<1>12. ASSUME NEW e \in Execs, FinalizeLease(e) \/ FinalizeTree(e) \/ FinalizeTask(e)
       PROVE  stutter \/ Locks!ANext
  BY <1>2, <1>12 DEF FinalizeLease, FinalizeTree, FinalizeTask, Locks!ANext
<1>13. ASSUME Merges \/ (\E e \in Execs : QueueMerge(e) \/ CreateWorktree(e)) \/ UNCHANGED pvars
       PROVE  stutter
  BY <1>1, <1>13 DEF Merges, QueueMerge, CreateWorktree, pvars, lockVars
<1>14. CASE Restart
  BY <1>2, <1>14 DEF Restart, Locks!ANext
<1> QED
  BY <1>3, <1>4, <1>5, <1>6, <1>7, <1>8, <1>9, <1>10, <1>11, <1>12, <1>13, <1>14
  DEF Next, LockTable, LockStep, Finalize

(* The rows of the table, their transactions, tokens, takeovers, sweeps and
   recoveries implement locks with one owner each: what is proved of
   ExclusiveLocks holds of parallel execution. *)
THEOREM LocksImplemented == Spec => ImplementsLocks
<1>1. Init => Locks!AInit
  BY DEF Init, LockInit, Locks!AInit, OwnersIn, LateIn, AtWork, Working
<1>2. LockInv /\ LockInv' /\ [Next]_pvars => [Locks!ANext]_(Locks!avars)
  BY StepImplements DEF Locks!avars
<1> QED
  BY <1>1, <1>2, LocksHeld, PTL DEF Spec, ImplementsLocks, Locks!ASpec

(* What ExclusiveLocks promises its users therefore holds of the table. *)
Promises == INSTANCE ExclusiveLocks_proofs WITH
  Owners <- Execs, owners <- OwnersIn(locks), working <- AtWork, late <- LateIn(locks)

(* A worker that is heard of keeps the file it works on, whoever claims, takes
   over, sweeps or recovers, and no file has two owners. *)
THEOREM WorkersKeepFiles == Spec => []Locks!OneOwner /\ Locks!OwnedWhileWorking
<1>1. Locks!AInit => Promises!AInit
  BY DEF Locks!AInit, Promises!AInit
<1>2. [Locks!ANext]_(Locks!avars) => [Promises!ANext]_(Promises!avars)
  BY DEF Locks!ANext, Locks!avars, Locks!Grant, Locks!Free, Locks!TakeOver,
         Locks!Release, Locks!Hear, Locks!FallSilent, Locks!Work,
         Promises!ANext, Promises!avars, Promises!Grant, Promises!Free,
         Promises!TakeOver, Promises!Release, Promises!Hear,
         Promises!FallSilent, Promises!Work
<1>3. Promises!OneOwner => Locks!OneOwner
  BY DEF Promises!OneOwner, Locks!OneOwner
<1>4. Spec => Promises!ASpec
  BY <1>1, <1>2, LocksImplemented, PTL DEF ImplementsLocks, Locks!ASpec, Promises!ASpec
<1>5. Promises!OwnedWhileWorking => Locks!OwnedWhileWorking
  BY PTL DEF Promises!OwnedWhileWorking, Locks!OwnedWhileWorking, Promises!avars, Locks!avars
<1> QED
  BY <1>3, <1>4, <1>5, Promises!LocksExclusive, Promises!OwnersKeep, PTL
=============================================================================
