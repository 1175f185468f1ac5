--------------------------- MODULE Planning_proofs ---------------------------
(***************************************************************************)
(* What the risk policy keeps from being approved, whatever the tasks, the *)
(* previews, the tokens and the requests in flight.                        *)
(* RiskInv is about the policy alone.  PlanInv adds what an approval has   *)
(* checked, and that no other request changes it before its transaction.   *)
(***************************************************************************)
EXTENDS Planning, TLAPS

(* What is about to be written, or was, is of low or medium risk, by its text
   as the check read it. *)
WritesAllowed ==
  /\ \A h \in Threads : at[h].op = "approve" =>
       \A t \in at[h].write : t \in Tasks /\ CanWriteReady(t, at[h].seen[t].text)
  /\ \A a \in approvals :
       \A t \in a.write : t \in Tasks /\ CanWriteReady(t, a.seen[t].text)

(* Requests keep to their threads; without that, at says nothing of them. *)
ThreadsKept == at = [h \in Threads |-> at[h]]

SelectionsOfTasks == \A k \in tokens : k.sel \subseteq Tasks

RiskInv == ThreadsKept /\ SelectionsOfTasks /\ WritesAllowed
-----------------------------------------------------------------------------
(* The policy on one task whose text or plan names something forbidden: it
   may be written ready exactly when something of medium risk is named too,
   the plan touches no path out of the workspace and names no scraping, and
   no more than medium risk is declared.  planning_risk_policy.py:11 says
   that such a task is never written ready. *)
THEOREM ForbiddenLetThrough ==
  ASSUME NEW t \in Tasks, NEW text, "blocked" \in text \cup PlanWords[t]
  PROVE  CanWriteReady(t, text) <=>
           /\ "medium" \in text \cup PlanWords[t]
           /\ "scraper" \notin PlanWords[t] /\ PlanWords[t] \cap PATHS = {}
           /\ Declared[t] \in {"LOW", "MEDIUM"}
<1> DEFINE words == text \cup PlanWords[t]
<1>1. Declared[t] \in {"LOW", "MEDIUM", "HIGH", "BLOCKED"}
  BY DeclaredAssumption DEF RISKS, RISK_ORDER
<1>2. /\ Enhanced(t) \in {"LOW", "MEDIUM", "HIGH", "BLOCKED"}
      /\ Enhanced(t) \in {"LOW", "MEDIUM"} <=>
           "scraper" \notin PlanWords[t] /\ Declared[t] \in {"LOW", "MEDIUM"}
  BY <1>1 DEF Enhanced
<1>3. /\ ByPaths(t) \in {"LOW", "HIGH", "BLOCKED"}
      /\ ByPaths(t) = "LOW" <=> PlanWords[t] \cap PATHS = {}
  BY DEF ByPaths, PATHS
<1>4. ByWords(words) = IF "medium" \in words THEN "MEDIUM" ELSE "BLOCKED"
  BY DEF ByWords, ByBans, SpeltBelow, SPELLING
<1>5. Risk(t, text) = MaxRisk(MaxRisk(ByWords(words), ByPaths(t)), Enhanced(t))
  BY DEF Risk
<1> HIDE DEF words
<1>6. ByWords(words) \in {"MEDIUM", "BLOCKED"}
      /\ (ByWords(words) = "MEDIUM" <=> "medium" \in words)
  BY <1>4
<1>7. Risk(t, text) \in {"LOW", "MEDIUM"} <=>
        ByWords(words) = "MEDIUM" /\ ByPaths(t) = "LOW" /\ Enhanced(t) \in {"LOW", "MEDIUM"}
  BY <1>2, <1>3, <1>5, <1>6 DEF MaxRisk, RISK_ORDER
<1> QED BY <1>2, <1>3, <1>6, <1>7 DEF CanWriteReady, words
-----------------------------------------------------------------------------
(* Before the first request nothing has been approved. *)
LEMMA RiskInit == PlanInit => RiskInv
BY DEF PlanInit, RiskInv, ThreadsKept, SelectionsOfTasks, WritesAllowed, Resting

(* A step that puts a request to rest, or to anything but an approval, and
   adds neither an approval nor a token. *)
LEMMA OtherStep ==
  ASSUME RiskInv, approvals' = approvals, tokens' = tokens, NEW h \in Threads, NEW what,
         what.op # "approve", Now(h, what)
  PROVE  RiskInv'
BY DEF RiskInv, ThreadsKept, SelectionsOfTasks, WritesAllowed, Now

(* A step of a request that leaves tokens and approvals alone. *)
Quietly(h, what) == Now(h, what) /\ approvals' = approvals /\ tokens' = tokens

(* generate_preview() and create_manual_preview() approve nothing. *)
LEMMA RiskGenerating ==
  ASSUME RiskInv, NEW h \in Threads, Generating(h)
  PROVE  RiskInv'
<1>1. PICK what : what.op # "approve" /\ Quietly(h, what)
  <2>1. ASSUME NEW force \in BOOLEAN, GenerateLook(h, force)
        PROVE  \E what : what.op # "approve" /\ Quietly(h, what)
    BY <2>1 DEF Quietly, GenerateLook
  <2>2. CASE GenerateRead(h)
    BY <2>2 DEF Quietly, GenerateRead, Rest, Resting
  <2>3. CASE PlanArrives(h)
    BY <2>3 DEF Quietly, PlanArrives
  <2>4. CASE PlanMissing(h)
    BY <2>4 DEF Quietly, PlanMissing, Rest, Resting
  <2>5. CASE InvalidateOld(h)
    BY <2>5 DEF Quietly, InvalidateOld
  <2>6. CASE StorePreview(h)
    BY <2>6 DEF Quietly, StorePreview, Rest, Resting
  <2>7. ASSUME NEW S \in SUBSET Tasks \ {{}}, CreateManual(h, S)
        PROVE  \E what : what.op # "approve" /\ Quietly(h, what)
    BY <2>7 DEF Quietly, CreateManual
  <2> QED BY <2>1, <2>2, <2>3, <2>4, <2>5, <2>6, <2>7 DEF Generating
<1> QED BY <1>1, OtherStep DEF Quietly
-----------------------------------------------------------------------------
(* approve() writes nothing but what the policy lets it write. *)
LEMMA RiskDeciding ==
  ASSUME RiskInv, NEW h \in Threads, Deciding(h)
  PROVE  RiskInv'
<1>1. ASSUME NEW k \in tokens, NEW ack \in BOOLEAN, BeginApprove(h, k, ack)
      PROVE  RiskInv'
  <2> DEFINE write == Writable(k.sel)
  <2>1. approvals' = approvals /\ SelectionsOfTasks'
    BY <1>1 DEF BeginApprove, RiskInv, SelectionsOfTasks
  <2>2. CASE at' = at
    BY <2>1, <2>2 DEF RiskInv, ThreadsKept, WritesAllowed
  <2>3. CASE at' = [at EXCEPT ![h] =
               [op |-> "approve", preview |-> k.preview, sel |-> k.sel, write |-> write,
                seen |-> [t \in write |-> task[t]]]]
    <3>1. at' = [at EXCEPT ![h] =
               [op |-> "approve", preview |-> k.preview, sel |-> k.sel, write |-> write,
                seen |-> [t \in write |-> task[t]]]]
      BY <2>3
    <3>2. /\ at'[h].write = write /\ at'[h].seen = [t \in write |-> task[t]]
          /\ \A g \in Threads \ {h} : at'[g] = at[g]
          /\ ThreadsKept'
      BY <3>1 DEF RiskInv, ThreadsKept
    <3>3. write \subseteq Tasks
      BY DEF Writable, RiskInv, SelectionsOfTasks
    <3>4. \A t \in write : CanWriteReady(t, at'[h].seen[t].text)
      BY <3>2 DEF Writable
    <3> QED
      BY <2>1, <3>2, <3>3, <3>4 DEF RiskInv, WritesAllowed
  <2>4. CASE /\ at' = [at EXCEPT ![h] = ToExpire(k.preview)]
    <3>1. ThreadsKept' /\ \A g \in Threads : at'[g] = at[g] \/ at'[g] = ToExpire(k.preview)
      BY <2>4 DEF RiskInv, ThreadsKept
    <3> QED BY <2>1, <3>1 DEF RiskInv, WritesAllowed, ToExpire
  <2> QED BY <1>1, <2>2, <2>3, <2>4 DEF BeginApprove, Now
<1>2. CASE CommitApprove(h)
  <2> DEFINE k == at[h]
  <2>1. k.op = "approve" /\ at' = [at EXCEPT ![h] = Resting]
    BY <1>2 DEF CommitApprove, Rest, Now
  <2>2. \A g \in Threads : at'[g].op = "approve" => g # h /\ at'[g] = at[g]
    BY <2>1 DEF RiskInv, ThreadsKept, Resting
  <2>3. \A a \in approvals' :
          a \in approvals \/ (a.write = k.write /\ a.seen = k.seen)
    BY <1>2 DEF CommitApprove, RecordApproval
  <2>4. \A t \in k.write : t \in Tasks /\ CanWriteReady(t, k.seen[t].text)
    BY <2>1 DEF RiskInv, WritesAllowed
  <2>5. ThreadsKept' /\ SelectionsOfTasks'
    BY <1>2, <2>1 DEF CommitApprove, RiskInv, ThreadsKept, SelectionsOfTasks
  <2> QED
    BY <2>2, <2>3, <2>4, <2>5 DEF RiskInv, WritesAllowed
<1>3. ASSUME NEW p \in Previews, RejectLook(h, p)
      PROVE  RiskInv'
  BY <1>3, OtherStep DEF RejectLook
<1>4. CASE CommitReject(h)
  BY <1>4, OtherStep DEF CommitReject, Rest, Resting
<1>5. ASSUME NEW p \in Previews, ExpireLook(h, p)
      PROVE  RiskInv'
  BY <1>5, OtherStep DEF ExpireLook, ToExpire
<1>6. CASE ExpirePreview(h)
  BY <1>6, OtherStep DEF ExpirePreview, Rest, Resting
<1> QED BY <1>1, <1>2, <1>3, <1>4, <1>5, <1>6 DEF Deciding

(* Every step keeps the invariant: requests by the lemmas above, the
   environment by touching neither approvals nor requests. *)
LEMMA RiskStep == RiskInv /\ [PlanNext]_planVars => RiskInv'
<1> SUFFICES ASSUME RiskInv, [PlanNext]_planVars PROVE RiskInv'
  OBVIOUS
<1>1. ASSUME at' = at, approvals' = approvals, SelectionsOfTasks' PROVE RiskInv'
  BY <1>1 DEF RiskInv, ThreadsKept, WritesAllowed
<1>2. ASSUME NEW h \in Threads, Generating(h) \/ Deciding(h) PROVE RiskInv'
  BY <1>2, RiskGenerating, RiskDeciding
<1>3. ASSUME NEW p \in Previews, NEW S \in SUBSET Tasks, ApprovalPreview(p, S)
      PROVE  RiskInv'
  BY <1>1, <1>3 DEF ApprovalPreview, NewToken, RiskInv, SelectionsOfTasks
<1>4. CASE Outside
  <2>1. CASE Restart
    BY <2>1 DEF Restart, RiskInv, ThreadsKept, SelectionsOfTasks, WritesAllowed, Resting
  <2>2. CASE ~Restart
    <3>1. at' = at /\ approvals' = approvals /\ SelectionsOfTasks'
      BY <1>4, <2>2 DEF RiskInv, SelectionsOfTasks, Outside, EditTask, CompleteTask, RunBegins,
                        RunEnds, PreviewLapses, TokenLapses
    <3> QED BY <1>1, <3>1
  <2> QED BY <2>1, <2>2
<1>5. CASE UNCHANGED planVars
  BY <1>1, <1>5 DEF planVars, RiskInv, SelectionsOfTasks
<1> QED BY <1>2, <1>3, <1>4, <1>5 DEF PlanNext

(* No approval ever writes a task ready that the policy rates HIGH or
   BLOCKED by the text that the check read.  A text edited between the check
   and the transaction is not read again. *)
THEOREM RiskHeldBack == PlanSpec => []WritesAllowed
<1>1. RiskInv => WritesAllowed
  BY DEF RiskInv
<1> QED BY RiskInit, RiskStep, <1>1, PTL DEF PlanSpec
-----------------------------------------------------------------------------
(***************************************************************************)
(* What an approval writes is what was planned.                            *)
(***************************************************************************)

TaskRows == [text : Texts, status : TASK_STATUSES, ready : {"needs_planning", "ready"}, stamp : Nat]

Snapshots == [stamped : BOOLEAN, rows : UNION {[S -> TaskRows] : S \in SUBSET Tasks}]

PreviewRows == [status : PREVIEW_STATUSES, lapsed : BOOLEAN, snap : Snapshots]

RowsTyped ==
  /\ task \in [Tasks -> TaskRows]
  /\ preview \in [Previews -> {NoPreview} \cup PreviewRows]
  /\ \A k \in tokens : k.preview \in Previews
  /\ \A h \in Threads :
       /\ at[h].op \in {"asked", "planned", "invalidated", "manual"} => at[h].snap \in Snapshots
       /\ at[h].op \in {"reject", "expire"} => at[h].preview \in Used

(* What approve() has found before its transaction: the whole plan is
   selected, stamped, and each task it will write is as it was planned. *)
Checked(k, snap) ==
  /\ snap.stamped
  /\ k.sel = DOMAIN snap.rows
  /\ k.write = {t \in k.sel : CanWriteReady(t, snap.rows[t].text)} /\ k.write # {}
  /\ \A t \in k.write : k.seen[t] = snap.rows[t]

ApprovalsChecked == \A h \in Threads :
  at[h].op = "approve" =>
    at[h].preview \in Used /\ Checked(at[h], preview[at[h].preview].snap)

(* An approval keeps naming the plan it was given for, and its tasks stay
   ready: no second approval of one of them passes its transaction. *)
ApprovalKept(a) ==
  /\ a.preview \in Used
  /\ a.plan = preview[a.preview].snap /\ Checked(a, a.plan)
  /\ \A t \in a.write : task[t].ready = "ready"

ApprovalsKept == \A a \in approvals : ApprovalKept(a)

PlanInv == RiskInv /\ RowsTyped /\ ApprovalsChecked /\ ApprovalsKept /\ WrittenOnce
-----------------------------------------------------------------------------
(* No step loses a preview or rewrites its snapshot, and none takes a task
   back that was written ready. *)
PreviewsKept ==
  /\ preview' \in [Previews -> {NoPreview} \cup PreviewRows]
  /\ \A p \in Used : p \in Used' /\ preview'[p].snap = preview[p].snap

ReadyKept ==
  /\ task' \in [Tasks -> TaskRows]
  /\ \A t \in Tasks : task[t].ready = "ready" => task'[t].ready = "ready"

LEMMA UsedRow ==
  ASSUME RowsTyped, NEW p \in Used
  PROVE  p \in Previews /\ preview[p] \in PreviewRows
BY DEF RowsTyped, Used

LEMMA RowIsUsed ==
  ASSUME NEW row \in PreviewRows
  PROVE  row # NoPreview
<1>1. "snap" \in DOMAIN row
  BY DEF PreviewRows
<1>2. "snap" \notin DOMAIN NoPreview
  BY DEF NoPreview
<1> QED BY <1>1, <1>2

LEMMA SnapshotTyped ==
  ASSUME RowsTyped, NEW S \in SUBSET Tasks, NEW stamped \in BOOLEAN
  PROVE  Snapshot(S, stamped) \in Snapshots
<1> DEFINE rows == [t \in S |-> IF stamped THEN task[t] ELSE Unstamped(task[t])]
<1>1. ASSUME NEW t \in S PROVE rows[t] \in TaskRows
  <2>1. task[t] \in TaskRows
    BY DEF RowsTyped
  <2>2. Unstamped(task[t]) \in TaskRows
    BY <2>1 DEF Unstamped, TaskRows
  <2> QED BY <2>1, <2>2
<1>2. rows \in [S -> TaskRows]
  BY <1>1
<1>3. rows \in UNION {[U -> TaskRows] : U \in SUBSET Tasks}
  BY <1>2
<1>4. Snapshot(S, stamped) = [stamped |-> stamped, rows |-> rows]
  BY DEF Snapshot
<1> HIDE DEF rows
<1> QED BY <1>3, <1>4 DEF Snapshots

(* A new status for a row leaves its snapshot. *)
LEMMA NewStatus ==
  ASSUME NEW row \in PreviewRows, NEW s \in PREVIEW_STATUSES
  PROVE  /\ [row EXCEPT !.status = s] \in PreviewRows
         /\ [row EXCEPT !.status = s].snap = row.snap
BY DEF PreviewRows

LEMMA Restatus ==
  ASSUME RowsTyped, NEW p \in Used, NEW s \in PREVIEW_STATUSES,
         preview' = [preview EXCEPT ![p].status = s]
  PROVE  PreviewsKept
<1> DEFINE row == [preview[p] EXCEPT !.status = s]
<1>1. row \in PreviewRows /\ row.snap = preview[p].snap
  BY UsedRow, NewStatus
<1>2. preview' = [preview EXCEPT ![p] = row]
  OBVIOUS
<1> HIDE DEF row
<1>3. /\ preview' \in [Previews -> {NoPreview} \cup PreviewRows]
      /\ preview'[p] = row
      /\ \A q \in Previews \ {p} : preview'[q] = preview[q]
  BY <1>1, <1>2, UsedRow DEF RowsTyped
<1> QED BY <1>1, <1>3, RowIsUsed, UsedRow DEF PreviewsKept, Used

LEMMA PreviewsSame == ASSUME RowsTyped, preview' = preview PROVE PreviewsKept
BY DEF RowsTyped, PreviewsKept, Used

LEMMA TasksSame == ASSUME RowsTyped, task' = task PROVE ReadyKept
BY DEF RowsTyped, ReadyKept

(* The writes of task rows, one at a time. *)
LEMMA NewRow ==
  ASSUME NEW row \in TaskRows, NEW s \in TASK_STATUSES
  PROVE  /\ [row EXCEPT !.status = s, !.stamp = @ + 1] \in TaskRows
         /\ [row EXCEPT !.status = s, !.stamp = @ + 1].ready = row.ready
<1>1. row.stamp + 1 \in Nat
  BY DEF TaskRows
<1> DEFINE n == row.stamp + 1
<1> HIDE DEF n
<1>2. /\ [row EXCEPT !.status = s, !.stamp = n] \in TaskRows
      /\ [row EXCEPT !.status = s, !.stamp = n].ready = row.ready
  BY <1>1 DEF TaskRows, n
<1> QED BY <1>2 DEF n

LEMMA ReadyRow ==
  ASSUME NEW row \in TaskRows
  PROVE  Written(row) \in TaskRows /\ Written(row).ready = "ready"
<1> DEFINE n == row.stamp + 1
<1>1. n \in Nat
  BY DEF TaskRows
<1> HIDE DEF n
<1>2. /\ [row EXCEPT !.ready = "ready", !.stamp = n] \in TaskRows
      /\ [row EXCEPT !.ready = "ready", !.stamp = n].ready = "ready"
  BY <1>1 DEF TaskRows
<1> QED BY <1>2 DEF n, Written

LEMMA RowReplaced ==
  ASSUME RowsTyped, NEW t \in Tasks, NEW row \in TaskRows, row.ready = task[t].ready,
         task' = [task EXCEPT ![t] = row]
  PROVE  ReadyKept
<1>1. /\ task' \in [Tasks -> TaskRows]
      /\ task'[t] = row /\ \A u \in Tasks \ {t} : task'[u] = task[u]
  BY DEF RowsTyped
<1> QED BY <1>1 DEF ReadyKept

LEMMA RowMoves ==
  ASSUME RowsTyped, NEW t \in Tasks, NEW s \in TASK_STATUSES,
         task' = [task EXCEPT ![t].status = s, ![t].stamp = @ + 1]
  PROVE  ReadyKept
<1> DEFINE row == [task[t] EXCEPT !.status = s, !.stamp = @ + 1]
<1>1. row \in TaskRows /\ row.ready = task[t].ready
  BY NewRow DEF RowsTyped
<1>2. task' = [task EXCEPT ![t] = row]
  BY DEF RowsTyped
<1> HIDE DEF row
<1> QED BY <1>1, <1>2, RowReplaced

LEMMA RowEdited ==
  ASSUME RowsTyped, NEW t \in Tasks, NEW s \in TASK_STATUSES, NEW text \in Texts,
         task' = [task EXCEPT ![t].text = text, ![t].status = s, ![t].stamp = @ + 1]
  PROVE  ReadyKept
<1> DEFINE n == task[t].stamp + 1
<1> DEFINE row == [task[t] EXCEPT !.text = text, !.status = s, !.stamp = n]
<1>1. task[t] \in TaskRows /\ n \in Nat
  BY DEF RowsTyped, TaskRows
<1>2. task' = [task EXCEPT ![t] = row]
  BY DEF RowsTyped
<1> HIDE DEF n
<1>3. row \in TaskRows /\ row.ready = task[t].ready
  BY <1>1 DEF TaskRows
<1> HIDE DEF row
<1> QED BY <1>1, <1>2, <1>3, RowReplaced

(* What a request may carry to its next step. *)
RequestFits(what) ==
  /\ what.op \in {"asked", "planned", "invalidated", "manual"} => what.snap \in Snapshots
  /\ what.op \in {"reject", "expire"} => what.preview \in Used
  /\ what.op = "approve" =>
       /\ what.preview \in Used
       /\ Checked(what, preview[what.preview].snap)

LEMMA RequestGoesOn ==
  ASSUME PlanInv, RiskInv', PreviewsKept, ReadyKept,
         \A k \in tokens' : k.preview \in Previews,
         \A h \in Threads : at'[h] = at[h] \/ RequestFits(at'[h])
  PROVE  /\ RowsTyped' /\ ApprovalsChecked'
         /\ \A a \in approvals : ApprovalKept(a)'
         /\ approvals' = approvals => PlanInv'
<1>1. RowsTyped'
  <2>1. ASSUME NEW h \in Threads
        PROVE  /\ at'[h].op \in {"asked", "planned", "invalidated", "manual"} =>
                    at'[h].snap \in Snapshots
               /\ at'[h].op \in {"reject", "expire"} => at'[h].preview \in Used'
    BY DEF PlanInv, RowsTyped, RequestFits, PreviewsKept
  <2>2. Snapshots' = Snapshots
    BY DEF Snapshots, TaskRows
  <2> QED BY <2>1 DEF PreviewsKept, ReadyKept, RowsTyped
<1>2. ApprovalsChecked'
  <2> SUFFICES ASSUME NEW h \in Threads, at'[h].op = "approve"
               PROVE  /\ at'[h].preview \in Used'
                      /\ Checked(at'[h], preview'[at'[h].preview].snap)
    BY DEF ApprovalsChecked, Checked
  <2>1. at'[h].preview \in Used /\ Checked(at'[h], preview[at'[h].preview].snap)
    BY DEF PlanInv, ApprovalsChecked, RequestFits
  <2> QED BY <2>1 DEF PreviewsKept
<1>3. ASSUME NEW a \in approvals PROVE ApprovalKept(a)'
  <2>1. /\ a.preview \in Used
        /\ a.plan = preview[a.preview].snap /\ Checked(a, a.plan)
        /\ \A t \in a.write : task[t].ready = "ready" /\ t \in Tasks
    BY DEF PlanInv, ApprovalsKept, ApprovalKept, RiskInv, WritesAllowed
  <2>2. /\ a.preview \in Used'
        /\ a.plan = preview'[a.preview].snap /\ Checked(a, a.plan)
        /\ \A t \in a.write : task'[t].ready = "ready"
    BY <2>1 DEF PreviewsKept, ReadyKept
  <2> QED BY <2>2 DEF ApprovalKept, Checked
<1>4. approvals' = approvals => ApprovalsKept' /\ WrittenOnce'
  BY <1>3 DEF PlanInv, ApprovalsKept, WrittenOnce
<1> QED BY <1>1, <1>2, <1>3, <1>4 DEF PlanInv

(* A request that goes on to "what". *)
LEMMA RequestStep ==
  ASSUME PlanInv, NEW h \in Threads, NEW what, Now(h, what), RequestFits(what)
  PROVE  \A g \in Threads : at'[g] = at[g] \/ RequestFits(at'[g])
<1>1. at' = [g \in Threads |-> IF g = h THEN what ELSE at[g]]
  BY DEF Now, PlanInv, RiskInv, ThreadsKept
<1> QED BY <1>1

LEMMA RestingFits == RequestFits(Resting)
BY DEF RequestFits, Resting
-----------------------------------------------------------------------------
LEMMA PlanFirst == PlanInit => PlanInv
<1> SUFFICES ASSUME PlanInit PROVE PlanInv
  OBVIOUS
<1>1. RiskInv
  BY RiskInit
<1>2. RowsTyped
  BY TextsAssumption DEF PlanInit, RowsTyped, TaskRows, TASK_STATUSES, Resting
<1>3. ApprovalsChecked /\ ApprovalsKept /\ WrittenOnce
  BY DEF PlanInit, ApprovalsChecked, ApprovalsKept, WrittenOnce, Resting
<1> QED BY <1>1, <1>2, <1>3 DEF PlanInv

(* generate_preview() and create_manual_preview(). *)
LEMMA PlanGenerating ==
  ASSUME PlanInv, NEW h \in Threads, Generating(h), RiskInv'
  PROVE  PlanInv'
<1>0. RowsTyped /\ (\A k \in tokens : k.preview \in Previews)
  BY DEF PlanInv, RowsTyped
<1>1. task' = task /\ tokens' = tokens /\ approvals' = approvals
  BY DEF Generating, GenerateLook, GenerateRead, PlanArrives, PlanMissing, InvalidateOld,
         CreateManual, StorePreview
<1>2. ReadyKept
  BY <1>0, <1>1, TasksSame
<1>3. PreviewsKept
  <2>1. CASE InvalidateOld(h) /\ preview' # preview
    <3> DEFINE new(p) == IF preview[p].status = "generated"
                         THEN [preview[p] EXCEPT !.status = "invalidated"] ELSE preview[p]
    <3>1. preview' = [p \in Previews |-> new(p)]
      BY <2>1 DEF InvalidateOld
    <3>2. ASSUME NEW p \in Used
          PROVE  new(p) \in PreviewRows /\ new(p).snap = preview[p].snap
      BY <1>0, UsedRow, NewStatus DEF PREVIEW_STATUSES
    <3>3. ASSUME NEW p \in Previews \ Used PROVE new(p) = NoPreview
      BY DEF Used, NoPreview
    <3>4. \A p \in Used : new(p) # NoPreview
      BY <3>2, RowIsUsed
    <3> HIDE DEF new
    <3> QED BY <3>1, <3>2, <3>3, <3>4 DEF PreviewsKept, Used
  <2>2. CASE StorePreview(h)
    <3>1. CASE preview' = preview
      BY <1>0, <3>1, PreviewsSame
    <3>2. ASSUME NEW p \in Previews \ Used,
                 preview' = [preview EXCEPT ![p] =
                   [status |-> "generated", lapsed |-> FALSE, snap |-> at[h].snap]]
          PROVE  PreviewsKept
      <4> DEFINE row == [status |-> "generated", lapsed |-> FALSE, snap |-> at[h].snap]
      <4>1. at[h].snap \in Snapshots
        BY <1>0, <2>2 DEF StorePreview, PlanComplete, RowsTyped
      <4>2. row \in PreviewRows
        BY <4>1 DEF PreviewRows, PREVIEW_STATUSES
      <4> HIDE DEF row
      <4>3. preview' = [preview EXCEPT ![p] = row]
        BY <3>2 DEF row
      <4>4. /\ preview' \in [Previews -> {NoPreview} \cup PreviewRows]
            /\ \A q \in Used : preview'[q] = preview[q]
        BY <1>0, <3>2, <4>2, <4>3 DEF RowsTyped, Used
      <4> QED BY <4>4 DEF PreviewsKept, Used
    <3> QED BY <2>2, <3>1, <3>2 DEF StorePreview
  <2>3. CASE (~InvalidateOld(h) \/ preview' = preview) /\ ~StorePreview(h)
    BY <1>0, <2>3, PreviewsSame DEF Generating, GenerateLook, GenerateRead, PlanArrives,
                                    PlanMissing, CreateManual
  <2> QED BY <2>1, <2>2, <2>3
<1>4. \E what : Now(h, what) /\ RequestFits(what)
  <2>1. ASSUME NEW force \in BOOLEAN, GenerateLook(h, force)
        PROVE  \E what : Now(h, what) /\ RequestFits(what)
    BY <2>1 DEF GenerateLook, RequestFits
  <2>2. CASE GenerateRead(h)
    <3>1. CASE Now(h, Resting)
      BY <3>1, RestingFits
    <3>2. ASSUME NEW S \in SUBSET Tasks,
                 Now(h, [op |-> "asked", force |-> at[h].force, tries |-> 0,
                         snap |-> Snapshot(S, FALSE)])
          PROVE  \E what : Now(h, what) /\ RequestFits(what)
      <4>1. Snapshot(S, FALSE) \in Snapshots
        BY <1>0, SnapshotTyped
      <4>2. RequestFits([op |-> "asked", force |-> at[h].force, tries |-> 0,
                         snap |-> Snapshot(S, FALSE)])
        BY <4>1 DEF RequestFits
      <4> QED BY <3>2, <4>2
    <3> QED BY <2>2, <3>1, <3>2 DEF GenerateRead, Rest
  <2>3. CASE PlanArrives(h)
    BY <1>0, <2>3 DEF PlanArrives, RequestFits, RowsTyped
  <2>4. CASE PlanMissing(h)
    BY <1>0, <2>4, RestingFits DEF PlanMissing, Rest, RequestFits, RowsTyped
  <2>5. CASE InvalidateOld(h)
    BY <1>0, <2>5 DEF InvalidateOld, RequestFits, RowsTyped
  <2>6. CASE StorePreview(h)
    BY <2>6, RestingFits DEF StorePreview, Rest
  <2>7. ASSUME NEW S \in SUBSET Tasks \ {{}}, CreateManual(h, S)
        PROVE  \E what : Now(h, what) /\ RequestFits(what)
    <3>1. Snapshot(S, TRUE) \in Snapshots
      BY <1>0, SnapshotTyped
    <3>2. RequestFits([op |-> "manual", snap |-> Snapshot(S, TRUE)])
      BY <3>1 DEF RequestFits
    <3> QED BY <2>7, <3>2 DEF CreateManual
  <2> QED BY <2>1, <2>2, <2>3, <2>4, <2>5, <2>6, <2>7 DEF Generating
<1> QED BY <1>0, <1>1, <1>2, <1>3, <1>4, RequestStep, RequestGoesOn
-----------------------------------------------------------------------------
(* The check that approve() repeats finds what its transaction relies on. *)
LEMMA CheckedAtApproval ==
  ASSUME RowsTyped, NEW p \in Previews, NEW S \in SUBSET Tasks, Approvable(p, S),
         Writable(S) # {}
  PROVE  /\ p \in Used
         /\ \A k : k.sel = S /\ k.write = Writable(S)
                   /\ k.seen = [t \in Writable(S) |-> task[t]]
                     => Checked(k, preview[p].snap)
<1>1. p \in Used
  BY DEF Approvable
<1>2. preview[p].snap = [stamped |-> TRUE, rows |-> [t \in S |-> task[t]]]
  BY DEF Approvable, SnapshotMatches, Snapshot
<1>3. /\ preview[p].snap.stamped
      /\ DOMAIN preview[p].snap.rows = S
      /\ \A t \in S : preview[p].snap.rows[t] = task[t]
  BY <1>2
<1>4. /\ Writable(S) \subseteq S
      /\ Writable(S) = {t \in S : CanWriteReady(t, preview[p].snap.rows[t].text)}
  BY <1>3 DEF Writable
<1> HIDE DEF Writable
<1>5. ASSUME NEW k, k.sel = S, k.write = Writable(S),
             k.seen = [t \in Writable(S) |-> task[t]]
      PROVE  Checked(k, preview[p].snap)
  BY <1>3, <1>4, <1>5 DEF Checked
<1> QED BY <1>1, <1>5

LEMMA PlanBeginApprove ==
  ASSUME PlanInv, NEW h \in Threads, NEW k \in tokens, NEW ack \in BOOLEAN,
         BeginApprove(h, k, ack), RiskInv'
  PROVE  PlanInv'
<1> DEFINE p == k.preview
           S == k.sel
           what == [op |-> "approve", preview |-> p, sel |-> S, write |-> Writable(S),
                    seen |-> [t \in Writable(S) |-> task[t]]]
<1>1. /\ RowsTyped /\ p \in Previews /\ S \in SUBSET Tasks
      /\ task' = task /\ preview' = preview /\ approvals' = approvals /\ tokens' \subseteq tokens
  BY DEF PlanInv, RowsTyped, RiskInv, SelectionsOfTasks, BeginApprove
<1>2. ReadyKept /\ PreviewsKept /\ \A l \in tokens' : l.preview \in Previews
  BY <1>1, TasksSame, PreviewsSame DEF RowsTyped
<1>3. CASE at' = at
  BY <1>1, <1>2, <1>3, RequestGoesOn
<1>4. CASE PastItsDay(p) /\ Now(h, ToExpire(p))
  <2>1. RequestFits(ToExpire(p))
    BY <1>4 DEF PastItsDay, RequestFits, ToExpire
  <2>2. \A g \in Threads : at'[g] = at[g] \/ RequestFits(at'[g])
    BY <1>4, <2>1, RequestStep
  <2> QED BY <1>1, <1>2, <2>2, RequestGoesOn
<1>5. CASE Approvable(p, S) /\ Writable(S) # {} /\ Now(h, what)
  <2>1. p \in Used /\ Checked(what, preview[p].snap)
    BY <1>1, <1>5, CheckedAtApproval
  <2>2. what.op = "approve" /\ what.preview = p
    OBVIOUS
  <2> HIDE DEF what
  <2>3. RequestFits(what)
    BY <2>1, <2>2 DEF RequestFits
  <2>4. \A g \in Threads : at'[g] = at[g] \/ RequestFits(at'[g])
    BY <1>5, <2>3, RequestStep
  <2> QED BY <1>1, <1>2, <2>4, RequestGoesOn
<1> QED BY <1>3, <1>4, <1>5 DEF BeginApprove

(* The transaction of approve(): of two approvals that share a task the second
   meets it ready. *)
LEMMA PlanCommitApprove ==
  ASSUME PlanInv, NEW h \in Threads, CommitApprove(h), RiskInv'
  PROVE  PlanInv'
<1> DEFINE k == at[h]
           p == k.preview
           snap == preview[p].snap
           x == [preview |-> p, sel |-> k.sel, write |-> k.write, plan |-> snap,
                 seen |-> k.seen, found |-> [t \in k.write |-> task[t]]]
<1>1. /\ RowsTyped /\ \A l \in tokens' : l.preview \in Previews
      /\ k.op = "approve" /\ Now(h, Resting)
  BY DEF PlanInv, RowsTyped, CommitApprove, Rest
<1>2. \A g \in Threads : at'[g] = at[g] \/ RequestFits(at'[g])
  BY <1>1, RestingFits, RequestStep
<1>3. p \in Used /\ Checked(k, snap)
  BY <1>1 DEF PlanInv, ApprovalsChecked
<1>4. CASE UNCHANGED <<task, preview, approvals>>
  <2>1. PreviewsKept /\ ReadyKept
    BY <1>1, <1>4, PreviewsSame, TasksSame
  <2> QED BY <1>1, <1>2, <1>4, <2>1, RequestGoesOn
<1>5. ASSUME \A t \in k.write : StillToBePlanned(t),
             task' = [t \in Tasks |-> IF t \in k.write THEN Written(task[t]) ELSE task[t]],
             RecordApproval(k)
      PROVE  PlanInv'
  <2>1. \A t \in k.write : t \in Tasks /\ task[t].ready = "needs_planning"
    BY <1>1, <1>5 DEF PlanInv, RiskInv, WritesAllowed, StillToBePlanned
  <2>2. ReadyKept /\ \A t \in k.write : task'[t].ready = "ready"
    <3>1. \A t \in Tasks : task[t] \in TaskRows
      BY <1>1 DEF RowsTyped
    <3>2. \A t \in Tasks : Written(task[t]) \in TaskRows /\ Written(task[t]).ready = "ready"
      BY <3>1, ReadyRow
    <3> QED BY <1>5, <2>1, <3>1, <3>2 DEF ReadyKept
  <2>3. PreviewsKept
    <3>1. \E s \in PREVIEW_STATUSES : preview' = [preview EXCEPT ![p].status = s]
      BY <1>5 DEF RecordApproval, PREVIEW_STATUSES
    <3> QED BY <1>1, <1>3, <3>1, Restatus
  <2>4. /\ RowsTyped' /\ ApprovalsChecked'
        /\ \A a \in approvals : ApprovalKept(a)'
    BY <1>1, <1>2, <2>2, <2>3, RequestGoesOn
  <2>5. PICK y : /\ approvals' = approvals \cup {y}
                 /\ y.preview = p /\ y.plan = snap
                 /\ y.sel = k.sel /\ y.write = k.write /\ y.seen = k.seen
    <3>1. approvals' = approvals \cup {x}
      BY <1>5 DEF RecordApproval
    <3>2. /\ x.preview = p /\ x.plan = snap
          /\ x.sel = k.sel /\ x.write = k.write /\ x.seen = k.seen
      OBVIOUS
    <3> HIDE DEF x
    <3> QED BY <3>1, <3>2
  <2>6. Checked(y, y.plan)
    BY <1>3, <2>5 DEF Checked
  <2>7. /\ y.preview \in Used'
        /\ y.plan = preview'[y.preview].snap
        /\ \A t \in y.write : task'[t].ready = "ready"
    BY <1>3, <2>2, <2>3, <2>5 DEF PreviewsKept
  <2>8. ApprovalKept(y)'
    BY <2>6, <2>7 DEF ApprovalKept, Checked
  <2>9. ASSUME NEW a \in approvals PROVE a.write \cap y.write = {}
    <3>1. \A t \in a.write : task[t].ready = "ready"
      BY DEF PlanInv, ApprovalsKept, ApprovalKept
    <3> QED BY <2>1, <2>5, <3>1
  <2>10. WrittenOnce'
    BY <2>5, <2>9 DEF PlanInv, WrittenOnce
  <2>11. ApprovalsKept'
    BY <2>4, <2>5, <2>8 DEF ApprovalsKept
  <2> QED BY <2>4, <2>10, <2>11 DEF PlanInv
<1> QED BY <1>4, <1>5 DEF CommitApprove

(* reject(), and the expiry of a preview: a look, then an update that names no
   earlier status. *)
LEMMA PlanClose ==
  ASSUME PlanInv, NEW h \in Threads, RiskInv',
         \/ CommitReject(h) \/ ExpirePreview(h)
         \/ \E p \in Previews : RejectLook(h, p) \/ ExpireLook(h, p)
  PROVE  PlanInv'
<1>1. RowsTyped /\ task' = task /\ approvals' = approvals /\ tokens' = tokens
  BY DEF PlanInv, CommitReject, RejectLook, ExpirePreview, ExpireLook
<1>2. ReadyKept /\ \A k \in tokens' : k.preview \in Previews
  BY <1>1, TasksSame DEF RowsTyped
<1>3. ASSUME CommitReject(h) \/ ExpirePreview(h) PROVE PlanInv'
  <2>1. /\ at[h].preview \in Used /\ Now(h, Resting)
        /\ \E s \in PREVIEW_STATUSES : preview' = [preview EXCEPT ![at[h].preview].status = s]
    BY <1>1, <1>3 DEF CommitReject, ExpirePreview, RowsTyped, Rest, PREVIEW_STATUSES
  <2>2. PreviewsKept
    BY <1>1, <2>1, Restatus
  <2>3. \A g \in Threads : at'[g] = at[g] \/ RequestFits(at'[g])
    BY <2>1, RestingFits, RequestStep
  <2> QED BY <1>1, <1>2, <2>2, <2>3, RequestGoesOn
<1>4. ASSUME NEW p \in Previews, RejectLook(h, p) \/ ExpireLook(h, p) PROVE PlanInv'
  <2>1. PICK what : Now(h, what) /\ RequestFits(what)
    BY <1>4 DEF RejectLook, ExpireLook, PastItsDay, ToExpire, RequestFits
  <2>2. preview' = preview
    BY <1>4 DEF RejectLook, ExpireLook
  <2>3. \A g \in Threads : at'[g] = at[g] \/ RequestFits(at'[g])
    BY <2>1, RequestStep
  <2> QED BY <1>1, <1>2, <2>2, <2>3, PreviewsSame, RequestGoesOn
<1> QED BY <1>3, <1>4
-----------------------------------------------------------------------------
LEMMA PlanOutside ==
  ASSUME PlanInv, Outside, RiskInv'
  PROVE  PlanInv'
<1>1. /\ RowsTyped /\ approvals' = approvals /\ tokens' \subseteq tokens
  BY DEF PlanInv, Outside, EditTask, CompleteTask, RunBegins, RunEnds, Restart,
         PreviewLapses, TokenLapses
<1>2. \A k \in tokens' : k.preview \in Previews
  BY <1>1 DEF RowsTyped
<1>3. \A g \in Threads : at'[g] = at[g] \/ RequestFits(at'[g])
  BY RestingFits DEF Outside, EditTask, CompleteTask, RunBegins, RunEnds, Restart,
                     PreviewLapses, TokenLapses
<1>4. ReadyKept
  <2>0. \A t \in Tasks : task[t] \in TaskRows /\ task[t].status \in TASK_STATUSES
    BY <1>1 DEF RowsTyped, TaskRows
  <2>1. ASSUME NEW t \in Tasks, EditTask(t) \/ CompleteTask(t) PROVE ReadyKept
    <3>1. CASE CompleteTask(t)
      BY <1>1, <3>1, RowMoves DEF CompleteTask, TASK_STATUSES
    <3>2. CASE EditTask(t)
      <4>1. \E s \in TASK_STATUSES, text \in Texts :
              task' = [task EXCEPT ![t].text = text, ![t].status = s, ![t].stamp = @ + 1]
        BY <2>0, <3>2 DEF EditTask, TASK_STATUSES
      <4> QED BY <1>1, <4>1, RowEdited
    <3> QED BY <2>1, <3>1, <3>2
  <2>2. CASE RunBegins
    <3>1. task' = task \/ \E t \in Tasks :
            task' = [task EXCEPT ![t].status = "executing", ![t].stamp = @ + 1]
      BY <2>2 DEF RunBegins
    <3> QED BY <1>1, <3>1, RowMoves, TasksSame DEF TASK_STATUSES
  <2>3. CASE RunEnds
    <3> DEFINE done(t) == [task[t] EXCEPT !.status = "completed", !.stamp = @ + 1]
    <3>1. \A t \in Tasks : done(t) \in TaskRows /\ done(t).ready = task[t].ready
      BY <2>0, NewRow DEF TASK_STATUSES
    <3>2. task' = [t \in Tasks |-> IF task[t].status = "executing" THEN done(t) ELSE task[t]]
      BY <2>3 DEF RunEnds
    <3> HIDE DEF done
    <3> QED BY <2>0, <3>1, <3>2 DEF ReadyKept
  <2>4. CASE task' = task
    BY <1>1, <2>4, TasksSame
  <2> QED BY <2>1, <2>2, <2>3, <2>4 DEF Outside, Restart, PreviewLapses, TokenLapses
<1>5. PreviewsKept
  <2>1. ASSUME NEW p \in Previews, PreviewLapses(p) PROVE PreviewsKept
    <3> DEFINE row == [preview[p] EXCEPT !.lapsed = TRUE]
    <3>1. p \in Used /\ preview[p] \in PreviewRows
      BY <1>1, <2>1, UsedRow DEF PreviewLapses
    <3>2. row \in PreviewRows /\ row.snap = preview[p].snap
      BY <3>1 DEF PreviewRows
    <3>3. preview' = [preview EXCEPT ![p] = row]
      BY <2>1 DEF PreviewLapses
    <3> HIDE DEF row
    <3>4. /\ preview' \in [Previews -> {NoPreview} \cup PreviewRows]
          /\ preview'[p] = row
          /\ \A q \in Previews \ {p} : preview'[q] = preview[q]
      BY <1>1, <3>2, <3>3 DEF RowsTyped
    <3> QED BY <3>2, <3>4, RowIsUsed DEF PreviewsKept, Used
  <2>2. CASE preview' = preview
    BY <1>1, <2>2, PreviewsSame
  <2> QED BY <2>1, <2>2 DEF Outside, EditTask, CompleteTask, RunBegins, RunEnds, Restart,
                            TokenLapses
<1> QED BY <1>1, <1>2, <1>3, <1>4, <1>5, RequestGoesOn

(* Every step keeps what approve() has checked true until its transaction. *)
LEMMA PlanStep == PlanInv /\ [PlanNext]_planVars => PlanInv'
<1> SUFFICES ASSUME PlanInv, [PlanNext]_planVars PROVE PlanInv'
  OBVIOUS
<1>0. RiskInv' /\ RowsTyped
  BY RiskStep DEF PlanInv
<1>1. ASSUME NEW h \in Threads, Generating(h) \/ Deciding(h) PROVE PlanInv'
  BY <1>0, <1>1, PlanGenerating, PlanBeginApprove, PlanCommitApprove, PlanClose DEF Deciding
<1>2. ASSUME NEW p \in Previews, NEW S \in SUBSET Tasks, ApprovalPreview(p, S)
      PROVE  PlanInv'
  <2>1. /\ task' = task /\ preview' = preview /\ approvals' = approvals /\ at' = at
        /\ \A k \in tokens' : k.preview \in Previews
    BY <1>0, <1>2 DEF ApprovalPreview, NewToken, RowsTyped
  <2>2. PreviewsKept /\ ReadyKept
    BY <1>0, <2>1, PreviewsSame, TasksSame
  <2> QED BY <1>0, <2>1, <2>2, RequestGoesOn
<1>3. CASE Outside
  BY <1>0, <1>3, PlanOutside
<1>4. CASE UNCHANGED planVars
  <2>1. PreviewsKept /\ ReadyKept
    BY <1>0, <1>4, PreviewsSame, TasksSame DEF planVars
  <2>2. \A k \in tokens' : k.preview \in Previews
    BY <1>0, <1>4 DEF RowsTyped, planVars
  <2> QED BY <1>0, <1>4, <2>1, <2>2, RequestGoesOn DEF planVars
<1> QED BY <1>1, <1>2, <1>3, <1>4 DEF PlanNext

(* The rows, the checks in flight and the approvals agree with one another
   in every reachable state. *)
THEOREM PlansHeld == PlanSpec => []PlanInv
BY PlanFirst, PlanStep, PTL DEF PlanSpec

(* What an approval finds and its check saw is what was planned: the hash of
   the snapshot, the token and the transaction leave no other gap. *)
THEOREM WrittenAsPlanned == PlanSpec => []PlannedAsItWas
<1>1. PlanInv => PlannedAsItWas
  BY DEF PlanInv, ApprovalsKept, ApprovalKept, Checked, PlannedAsItWas
<1> QED BY PlansHeld, <1>1, PTL

(* However many approvals of one plan, or of plans that share a task, have
   passed their checks, each task is written ready by the first of them that
   commits. *)
THEOREM TasksWrittenOnce == PlanSpec => []WrittenOnce
<1>1. PlanInv => WrittenOnce
  BY DEF PlanInv
<1> QED BY PlansHeld, <1>1, PTL

(* What the selection and the two hashes come to: a plan is approved as a
   whole or not at all, once, and only when it was made by hand.  The API and
   the approval modes (api/planner.py:3-7, planning_approval_service.py:448)
   say that generated plans are approved, and parts of plans. *)
ApprovedWhole ==
  \A a, b \in approvals :
    /\ a.plan.stamped /\ a.sel = DOMAIN a.plan.rows
    /\ a.preview = b.preview => a = b

THEOREM PlansApprovedWhole == PlanSpec => []ApprovedWhole
<1>1. ASSUME PlanInv, NEW a \in approvals, NEW b \in approvals
      PROVE  /\ a.plan.stamped /\ a.sel = DOMAIN a.plan.rows
             /\ a.preview = b.preview => a = b
  <2>1. /\ a.plan = preview[a.preview].snap /\ Checked(a, a.plan)
        /\ b.plan = preview[b.preview].snap /\ Checked(b, b.plan)
    BY <1>1 DEF PlanInv, ApprovalsKept, ApprovalKept
  <2>2. ASSUME a.preview = b.preview PROVE a.write = b.write /\ a.write # {}
    BY <2>1, <2>2 DEF Checked
  <2>3. a # b => a.write \cap b.write = {}
    BY <1>1 DEF PlanInv, WrittenOnce
  <2> QED BY <2>1, <2>2, <2>3 DEF Checked
<1>2. PlanInv => ApprovedWhole
  BY <1>1 DEF ApprovedWhole
<1> QED BY PlansHeld, <1>2, PTL
=============================================================================
