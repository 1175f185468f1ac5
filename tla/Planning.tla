------------------------------ MODULE Planning ------------------------------
(***************************************************************************)
(* Planning of one project (backend/app/planner): a preview is made of the *)
(* tasks that need planning, by the model (planner_preview_service.py,     *)
(* generate_preview) or by hand (create_manual_preview); the user asks for *)
(* a check of a selection, is given a token, and approves with it          *)
(* (planning_approval_service.py); the approval writes the tasks ready.    *)
(*                                                                         *)
(* A call reads on one connection and writes on another: what it has read  *)
(* is in at[h], and any number of steps of others come in between.         *)
(***************************************************************************)
EXTENDS StartDecision, Naturals, FiniteSets, Functions

CONSTANTS
  Tasks,         \* the rows of development_tasks, in order of id
  Texts,         \* what a title and description may say, as the keyword lists they match
  FirstText,     \* FirstText[t]: what the text of t says at first
  PlanWords,     \* PlanWords[t]: the keyword lists and path rules that a plan for t matches
  Declared,      \* Declared[t]: the risk_level that a plan gives t
  Threads,       \* requests that may be in flight (a bound)
  MaxPreviews,   \* bound: rows of planning_previews
  MaxTokens,     \* bound: confirmation tokens handed to the user
  MaxChanges     \* bound: changes made from outside: edits, runs, clocks, restarts

RISK_ORDER == [LOW |-> 0, MEDIUM |-> 1, HIGH |-> 2, BLOCKED |-> 3]
RISKS == DOMAIN RISK_ORDER
KEYWORDS == {"blocked", "platform", "operation", "high", "medium"}
PATHS == {"absolute", "parent"}
MAX_RETRIES == 1

ASSUME TextsAssumption == Texts \subseteq SUBSET KEYWORDS /\ FirstText \in [Tasks -> Texts]
ASSUME PlanWordsAssumption ==
  PlanWords \in [Tasks -> SUBSET (KEYWORDS \cup PATHS \cup {"scraper"})]
ASSUME DeclaredAssumption == Declared \in [Tasks -> RISKS]
ASSUME PlanningBounds == {MaxPreviews, MaxTokens, MaxChanges} \subseteq Nat

VARIABLES
  task,       \* task[t]: text, status, readiness_status, and updated_at as a count of writes
  busy,       \* a run, a lease or a resource lock is active
  preview,    \* preview[p]: the row p of planning_previews
  tokens,     \* _token_store: the tokens that have been shown to the user
  approvals,  \* the rows of planning_approvals, with what the approval found
  at,         \* at[h]: what request h has read so far
  changes     \* how much has changed from outside

planVars == <<task, busy, preview, tokens, approvals, at, changes>>

Previews == 1 .. MaxPreviews
TASK_STATUSES == {"pending", "executing", "completed"}
PREVIEW_STATUSES == {"generated", "partially_approved", "approved",
                     "rejected", "expired", "invalidated"}
Open == {"generated", "partially_approved"}

NoPreview == [status |-> "none"]
Resting == [op |-> "none"]

Used == {p \in Previews : preview[p] # NoPreview}

Change ==
  /\ changes < MaxChanges
  /\ changes' = changes + 1
-----------------------------------------------------------------------------
(***************************************************************************)
(* The risk policy.  The levels are strings, and two of the comparisons of *)
(* assess_risk() compare their spelling: no level is below HIGH that is    *)
(* LOW, and every level but MEDIUM itself is below MEDIUM.                 *)
(***************************************************************************)
SPELLING == [BLOCKED |-> 0, HIGH |-> 1, LOW |-> 2, MEDIUM |-> 3]

SpeltBelow(r, s) == SPELLING[r] < SPELLING[s]

MaxRisk(r, s) == IF RISK_ORDER[r] >= RISK_ORDER[s] THEN r ELSE s

ByBans(words) ==
  IF "blocked" \in words THEN "BLOCKED"
  ELSE IF {"platform", "operation"} \subseteq words THEN "HIGH"
  ELSE IF "high" \in words /\ SpeltBelow("LOW", "HIGH") THEN "HIGH" ELSE "LOW"

ByWords(words) ==
  IF "medium" \in words /\ SpeltBelow(ByBans(words), "MEDIUM")
  THEN "MEDIUM" ELSE ByBans(words)

ByPaths(t) ==
  IF "parent" \in PlanWords[t] THEN "BLOCKED"
  ELSE IF "absolute" \in PlanWords[t] THEN "HIGH" ELSE "LOW"

(* A plan that names scraping is stored as one of high risk, whatever it
   declared. *)
Enhanced(t) == IF "scraper" \in PlanWords[t] THEN "HIGH" ELSE Declared[t]

(* A task is rated by its plan and by its text as it is read now. *)
Risk(t, text) == MaxRisk(MaxRisk(ByWords(text \cup PlanWords[t]), ByPaths(t)), Enhanced(t))

CanWriteReady(t, text) == Risk(t, text) \in {"LOW", "MEDIUM"}

(* The classes the check sorts a selection into: safe and medium are written,
   the others held back. *)
Writable(S) == {t \in S : CanWriteReady(t, task[t].text)}
-----------------------------------------------------------------------------
(***************************************************************************)
(* Snapshots.  generate_preview() does not select updated_at and hashes    *)
(* the rows without it; the other two callers select it.  The description  *)
(* is in no hash, but every write of it changes updated_at.                *)
(***************************************************************************)
Unstamped(row) == [row EXCEPT !.stamp = 0]

Snapshot(S, stamped) ==
  [stamped |-> stamped,
   rows |-> [t \in S |-> IF stamped THEN task[t] ELSE Unstamped(task[t])]]

NeedsPlanning(t) == task[t].status = "pending" /\ task[t].ready = "needs_planning"

(* A project that is safe and not high-risk. *)
AuditOfTasks ==
  [active    |-> busy,
   unsafe    |-> FALSE,
   highRisk  |-> FALSE,
   enabled   |-> TRUE,
   covered   |-> FALSE,
   runnable  |-> \E t \in Tasks : task[t].status = "pending" /\ task[t].ready = "ready",
   planning  |-> \E t \in Tasks : NeedsPlanning(t),
   bound     |-> TRUE,
   pending   |-> \E t \in Tasks : task[t].status = "pending",
   completed |-> \E t \in Tasks : task[t].status = "completed"]

Now(h, what) == at' = [at EXCEPT ![h] = what]
Rest(h) == Now(h, Resting)
-----------------------------------------------------------------------------
(***************************************************************************)
(* Making a preview.                                                       *)
(***************************************************************************)

ValidPreviews == {p \in Used : preview[p].status = "generated" /\ ~preview[p].lapsed}

(* The decision, and the look for a preview that is still valid. *)
GenerateLook(h, force) ==
  /\ at[h] = Resting
  /\ Decide(AuditOfTasks) = "PLAN_EXISTING_TASKS"
  /\ force \/ ValidPreviews = {}
  /\ Now(h, [op |-> "looked", force |-> force])
  /\ UNCHANGED <<task, busy, preview, tokens, approvals, changes>>

Planning(h) == at[h].op \in {"asked", "planned", "invalidated"}

(* The project's lock is taken and the tasks are read: those the request
   names, whatever they are at, or the first of those that need planning.
   Then the model is asked. *)
GenerateRead(h) ==
  /\ at[h].op = "looked"
  /\ \/ /\ (\E g \in Threads : Planning(g)) \/ \A t \in Tasks : ~NeedsPlanning(t)
        /\ Rest(h)
     \/ /\ \A g \in Threads : ~Planning(g)
        /\ \E S \in SUBSET Tasks \ {{}} :
             Now(h, [op |-> "asked", force |-> at[h].force, tries |-> 0,
                     snap |-> Snapshot(S, FALSE)])
  /\ UNCHANGED <<task, busy, preview, tokens, approvals, changes>>

(* The model's answer holds a plan. *)
PlanArrives(h) ==
  /\ at[h].op = "asked"
  /\ Now(h, [op |-> "planned", force |-> at[h].force, snap |-> at[h].snap])
  /\ UNCHANGED <<task, busy, preview, tokens, approvals, changes>>

(* No answer, or none that is a plan: the model is asked again, then no more. *)
PlanMissing(h) ==
  /\ at[h].op = "asked"
  /\ IF at[h].tries < MAX_RETRIES
     THEN Now(h, [op |-> "asked", force |-> at[h].force, tries |-> at[h].tries + 1,
                  snap |-> at[h].snap])
     ELSE Rest(h)
  /\ UNCHANGED <<task, busy, preview, tokens, approvals, changes>>

(* force_regenerate withdraws what was generated before, in a transaction of
   its own, which may fail and is not missed. *)
InvalidateOld(h) ==
  /\ at[h].op = "planned" /\ at[h].force
  /\ \/ preview' = [p \in Previews |->
            IF preview[p].status = "generated"
            THEN [preview[p] EXCEPT !.status = "invalidated"] ELSE preview[p]]
     \/ UNCHANGED preview
  /\ Now(h, [op |-> "invalidated", snap |-> at[h].snap])
  /\ UNCHANGED <<task, busy, tokens, approvals, changes>>

CreateManual(h, S) ==
  /\ at[h] = Resting
  /\ Now(h, [op |-> "manual", snap |-> Snapshot(S, TRUE)])
  /\ UNCHANGED <<task, busy, preview, tokens, approvals, changes>>

(* A valid plan is stored; forced, after the attempt to withdraw what it
   replaces. *)
PlanComplete(h) ==
  \/ at[h].op \in {"invalidated", "manual"}
  \/ at[h].op = "planned" /\ ~at[h].force

(* _persist_preview(), which may fail and is not missed. *)
StorePreview(h) ==
  /\ PlanComplete(h)
  /\ \/ \E p \in Previews \ Used :
          /\ \A q \in Previews \ Used : p <= q
          /\ preview' = [preview EXCEPT ![p] =
               [status |-> "generated", lapsed |-> FALSE, snap |-> at[h].snap]]
     \/ UNCHANGED preview
  /\ Rest(h)
  /\ UNCHANGED <<task, busy, tokens, approvals, changes>>
-----------------------------------------------------------------------------
(***************************************************************************)
(* preview_approval(): the check that approve() repeats.                   *)
(***************************************************************************)

InPlan(p, S) == S # {} /\ S \subseteq DOMAIN preview[p].snap.rows

SnapshotUnchecked(p, S) == TRUE

(* The stored hash covers the whole plan, the compared one the selection.  An
   empty hash would not be compared, but none is ever stored. *)
SnapshotMatches(p, S) == preview[p].snap = Snapshot(S, TRUE)

IsOpen(p) == preview[p].status \in Open

Approvable(p, S) ==
  /\ p \in Used /\ IsOpen(p) /\ ~preview[p].lapsed
  /\ InPlan(p, S) /\ \A t \in S : NeedsPlanning(t)
  /\ ~busy
  /\ SnapshotMatches(p, S)

(* ConfirmationTokenManager.generate(): a token of this preview and selection. *)
NewToken(p, S) ==
  \E n \in 1 .. MaxTokens :
    /\ \A k \in tokens : k.id # n
    /\ tokens' = tokens \cup {[id |-> n, preview |-> p, sel |-> S]}

ApprovalPreview(p, S) ==
  /\ Approvable(p, S)
  /\ NewToken(p, S)
  /\ UNCHANGED <<task, busy, preview, approvals, at, changes>>

(* A check that meets an open preview past its day goes on to mark it, and
   does not look at its status again. *)
PastItsDay(p) == p \in Used /\ IsOpen(p) /\ preview[p].lapsed

ToExpire(p) == [op |-> "expire", preview |-> p]

ExpireLook(h, p) ==
  /\ at[h] = Resting /\ PastItsDay(p)
  /\ Now(h, ToExpire(p))
  /\ UNCHANGED <<task, busy, preview, tokens, approvals, changes>>

ExpirePreview(h) ==
  /\ at[h].op = "expire"
  /\ preview' = [preview EXCEPT ![at[h].preview].status = "expired"]
  /\ Rest(h)
  /\ UNCHANGED <<task, busy, tokens, approvals, changes>>
-----------------------------------------------------------------------------
(***************************************************************************)
(* approve() and reject().                                                 *)
(***************************************************************************)

(* The token goes first.  A MEDIUM task wants the user's acknowledgment, and
   without it nothing of the selection is written. *)
BeginApprove(h, k, ack) ==
  LET p == k.preview
      S == k.sel
      write == Writable(S)
      refused == write = {} \/ (~ack /\ \E t \in S : Risk(t, task[t].text) = "MEDIUM")
  IN
  /\ at[h] = Resting /\ k \in tokens
  /\ tokens' = tokens \ {k}
  /\ IF PastItsDay(p) THEN Now(h, ToExpire(p))
     ELSE IF ~Approvable(p, S) \/ refused THEN UNCHANGED at
     ELSE Now(h, [op |-> "approve", preview |-> p, sel |-> S, write |-> write,
                  seen |-> [t \in write |-> task[t]]])
  /\ UNCHANGED <<task, busy, preview, approvals, changes>>

(* The transaction looks again at each task it writes, and at nothing else.
   It is rolled back when one has moved on, or has a plan without tests. *)
StillPending(t) == task[t].status \notin {"completed", "executing"}

StillToBePlanned(t) == StillPending(t) /\ task[t].ready = "needs_planning"

Written(row) == [row EXCEPT !.ready = "ready", !.stamp = @ + 1]

(* The approval's row, the preview's new status and the commit. *)
RecordApproval(k) ==
  LET p == k.preview IN
  /\ preview' = [preview EXCEPT ![p].status =
       IF k.write = k.sel THEN "approved" ELSE "partially_approved"]
  /\ approvals' = approvals \cup
       {[preview |-> p, sel |-> k.sel, write |-> k.write, plan |-> preview[p].snap,
         seen |-> k.seen, found |-> [t \in k.write |-> task[t]]]}

CommitApprove(h) ==
  LET k == at[h] IN
  /\ k.op = "approve"
  /\ \/ /\ \A t \in k.write : StillToBePlanned(t)
        /\ task' = [t \in Tasks |-> IF t \in k.write THEN Written(task[t]) ELSE task[t]]
        /\ RecordApproval(k)
     \/ UNCHANGED <<task, preview, approvals>>
  /\ Rest(h)
  /\ UNCHANGED <<busy, tokens, changes>>

RejectLook(h, p) ==
  /\ at[h] = Resting
  /\ p \in Used /\ IsOpen(p)
  /\ Now(h, [op |-> "reject", preview |-> p])
  /\ UNCHANGED <<task, busy, preview, tokens, approvals, changes>>

CommitReject(h) ==
  /\ at[h].op = "reject"
  /\ preview' = [preview EXCEPT ![at[h].preview].status = "rejected"]
  /\ Rest(h)
  /\ UNCHANGED <<task, busy, tokens, approvals, changes>>
-----------------------------------------------------------------------------
(***************************************************************************)
(* From outside.                                                           *)
(***************************************************************************)

(* PUT /tasks/{id}: any field but the plan, the text and the status among
   them; updated_at follows. *)
EditTask(t) ==
  /\ Change
  /\ \E s \in {task[t].status, "pending"}, text \in Texts :
       task' = [task EXCEPT ![t].text = text, ![t].status = s, ![t].stamp = @ + 1]
  /\ UNCHANGED <<busy, preview, tokens, approvals, at>>

(* POST /tasks/{id}/complete: whatever the task is at. *)
CompleteTask(t) ==
  /\ Change
  /\ task' = [task EXCEPT ![t].status = "completed", ![t].stamp = @ + 1]
  /\ UNCHANGED <<busy, preview, tokens, approvals, at>>

(* A run of the project begins, takes a ready task, ends. *)
RunBegins ==
  /\ Change /\ ~busy
  /\ busy' = TRUE
  /\ task' \in {task} \cup
       {[task EXCEPT ![t].status = "executing", ![t].stamp = @ + 1] :
          t \in {u \in Tasks : task[u].status = "pending" /\ task[u].ready = "ready"}}
  /\ UNCHANGED <<preview, tokens, approvals, at>>

RunEnds ==
  /\ busy
  /\ busy' = FALSE
  /\ task' = [t \in Tasks |->
       IF task[t].status = "executing" THEN [task[t] EXCEPT !.status = "completed", !.stamp = @ + 1]
       ELSE task[t]]
  /\ UNCHANGED <<preview, tokens, approvals, at, changes>>

PreviewLapses(p) ==
  /\ Change /\ p \in Used /\ ~preview[p].lapsed
  /\ preview' = [preview EXCEPT ![p].lapsed = TRUE]
  /\ UNCHANGED <<task, busy, tokens, approvals, at>>

(* Sixty seconds have passed. *)
TokenLapses(k) ==
  /\ tokens' = tokens \ {k}
  /\ UNCHANGED <<task, busy, preview, approvals, at, changes>>

(* A restart forgets the tokens, the planning locks and the requests. *)
Restart ==
  /\ Change
  /\ tokens' = {}
  /\ at' = [h \in Threads |-> Resting]
  /\ UNCHANGED <<task, busy, preview, approvals>>

PlanInit ==
  /\ task = [t \in Tasks |-> [text |-> FirstText[t], status |-> "pending",
                              ready |-> "needs_planning", stamp |-> 0]]
  /\ busy = FALSE
  /\ preview = [p \in Previews |-> NoPreview]
  /\ tokens = {} /\ approvals = {}
  /\ at = [h \in Threads |-> Resting]
  /\ changes = 0

Generating(h) ==
  \/ \E force \in BOOLEAN : GenerateLook(h, force)
  \/ GenerateRead(h) \/ PlanArrives(h) \/ PlanMissing(h)
  \/ InvalidateOld(h) \/ StorePreview(h)
  \/ \E S \in SUBSET Tasks \ {{}} : CreateManual(h, S)

Deciding(h) ==
  \/ \E k \in tokens, ack \in BOOLEAN : BeginApprove(h, k, ack)
  \/ CommitApprove(h)
  \/ \E p \in Previews : RejectLook(h, p)
  \/ CommitReject(h)
  \/ \E p \in Previews : ExpireLook(h, p)
  \/ ExpirePreview(h)

Outside ==
  \/ \E t \in Tasks : EditTask(t) \/ CompleteTask(t)
  \/ RunBegins \/ RunEnds \/ Restart
  \/ \E p \in Previews : PreviewLapses(p)
  \/ \E k \in tokens : TokenLapses(k)

PlanNext ==
  \/ \E h \in Threads : Generating(h) \/ Deciding(h)
  \/ \E p \in Previews, S \in SUBSET Tasks : ApprovalPreview(p, S)
  \/ Outside

PlanSpec == PlanInit /\ [][PlanNext]_planVars
-----------------------------------------------------------------------------
(* An approval writes a task as it was when it was planned, unless the task
   was changed between the check and the transaction. *)
PlannedAsItWas ==
  \A a \in approvals : \A t \in a.write :
    a.found[t] # a.plan.rows[t] => a.found[t] # a.seen[t]

(* However many requests approve one preview, or previews that share a task,
   no task is written ready twice: only the look of the transaction at each
   task, after the check has let both through, keeps the second one out. *)
WrittenOnce ==
  \A a, b \in approvals : a # b => a.write \cap b.write = {}
=============================================================================
