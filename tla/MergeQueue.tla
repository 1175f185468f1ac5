----------------------------- MODULE MergeQueue -----------------------------
(***************************************************************************)
(* The serial merge queue (executor/merge_coordinator.py), the branches    *)
(* and worktrees it merges (worktree_manager.py) and the one working       *)
(* directory whose HEAD it moves (git_manager.py).                         *)
(*                                                                         *)
(* A commit is its history along first parents: the sequence of what each  *)
(* of its ancestors, and it itself at last, contains of the executions'    *)
(* work.                                                                   *)
(***************************************************************************)
EXTENDS Mishaps, SequencesExt

CONSTANTS
  Items      \* executions whose branches are merged

VARIABLES
  queue,    \* _queue: the items that wait
  queued,   \* history: the items enqueue() was called for
  merge,    \* the item process_next() has in hand, its step, before_commit and ORIG_HEAD
  head,     \* the branch HEAD is on
  refs,     \* refs[b]: the commit of a branch of the repository
  branch,   \* branch[e]: the work the task branch of execution e contains
  merged,   \* the items process_next() has answered 'merged' for
  landed,   \* history: the commit of master at the last such answer
  blame     \* history: HEAD strayed, a command failed, the server was restarted,
            \* a worktree was cut from a master with a merge under test

mergeVars == <<queue, queued, merge, head, refs, branch, merged, landed, blame>>

Local == {"master", "side"}       \* "side": a branch created by a task of the run loop
NoBranch == {0}                   \* deleted, or never created; 0 is no execution

Root == <<{}>>
Commits == {c \in Seq(SUBSET Items) : c # <<>>}
Work(c) == Last(c)
Parent(c) == IF Len(c) = 1 THEN c ELSE Front(c)       \* HEAD~1; there is none of the root

NotMerging == [item |-> 0, step |-> "none", before |-> Root, orig |-> Root]

Merging(e) == merge.item = e
IsMerging == merge.item # 0

Blame(what) == blame' = [blame EXCEPT ![what] = TRUE]
NothingFails == UNCHANGED <<blame, mishaps>>

Fault == Mishap /\ Blame("faults")

(* Whatever was queued, is being merged or has been answered before: to queue
   an item again is bounded like everything that goes wrong. *)
Enqueue(e) ==
  /\ queue' = Append(queue, e)
  /\ queued' = queued \cup {e}
  /\ IF e \in queued THEN Mishap ELSE UNCHANGED mishaps
  /\ UNCHANGED <<merge, head, refs, branch, merged, landed, blame>>

(* The item leaves the queue before it is merged. *)
ProcessNext ==
  /\ ~IsMerging /\ queue # <<>>
  /\ merge' = [NotMerging EXCEPT !.item = Head(queue), !.step = "start"]
  /\ queue' = Tail(queue)
  /\ UNCHANGED <<queued, head, refs, branch, merged, landed, blame, mishaps>>

At(step) == IsMerging /\ merge.step = step

Step(step) == merge' = [merge EXCEPT !.step = step]

Refuse == merge' = NotMerging /\ UNCHANGED <<merged, landed>>

(* merge --no-ff: a commit on top of master, or none for a branch that has
   nothing new (Already up to date). *)
Joined(c, work) == IF work \subseteq Work(c) THEN c ELSE Append(c, Work(c) \cup work)

(* checkout master, look whether it is clean, pull, merge.  The commit HEAD
   was on is read before the checkout.  A merge that fails for whatever
   reason is aborted and reported as a conflict, also one that ran into its
   time limit with the commit made. *)
Land ==
  LET work == branch[merge.item] IN
  /\ At("start")
  /\ head' \in {head, "master"}
  /\ \/ /\ head' = "master" /\ work # NoBranch
        /\ refs' = [refs EXCEPT !["master"] = Joined(@, work)]
        /\ \/ /\ merge' = [merge EXCEPT !.step = "test", !.before = refs[head],
                                        !.orig = refs["master"]]
              /\ blame' = [blame EXCEPT !.strayed = @ \/ head # "master"]
              /\ UNCHANGED <<merged, landed, mishaps>>
           \/ Refuse /\ Fault
     \/ Refuse /\ UNCHANGED <<refs, blame, mishaps>>
  /\ UNCHANGED <<queue, queued, branch>>

(* A reset --hard that fails has not moved, or was killed by its time limit
   when it had; git keeps in ORIG_HEAD where it was. *)
Failed(s, c) == {s, [at |-> c, orig |-> s.at]}

(* The reset to the commit noted before fails; HEAD~1 is tried next and
   ORIG_HEAD at last. *)
FallBacks(c) ==
  UNION {{u.at, u.orig} : u \in UNION {Failed(s, Parent(s.at)) :
           s \in Failed([at |-> c, orig |-> merge.orig], merge.before)}}

ResetTo(c) == refs' = [refs EXCEPT ![head] = c]

UndoNothing == UNCHANGED refs /\ NothingFails

UndoBlindly == ResetTo(Parent(refs[head])) /\ NothingFails

(* On whatever branch HEAD is. *)
UndoMerge ==
  \/ ResetTo(merge.before) /\ NothingFails
  \/ (\E c \in FallBacks(refs[head]) : ResetTo(c)) /\ Fault

(* The log is written before the undo: without it there is neither an undo
   nor a verdict. *)
LogFailsFlagStays == Fault /\ Step("raised") /\ UNCHANGED <<merged, landed, refs>>

LogFails == Fault /\ Refuse /\ UNCHANGED refs

(* The regression tests ran on master as it is on disk; the last step. *)
Verdict ==
  /\ At("test")
  /\ \/ /\ merged' = merged \cup {merge.item}
        /\ landed' = refs["master"]
        /\ merge' = NotMerging
        /\ UNCHANGED refs /\ NothingFails
     \/ Refuse /\ UndoMerge
     \/ LogFails
  /\ UNCHANGED <<queue, queued, head, branch>>

MergeStep == Land \/ Verdict

(* A task of the run loop checks out a branch of its own, or goes back. *)
HeadMoves ==
  /\ Mishap
  /\ \/ /\ head = "master"
        /\ head' = "side"
        /\ refs' = [refs EXCEPT !["side"] = refs["master"]]
     \/ head = "side" /\ head' = "master" /\ UNCHANGED refs
  /\ blame' = [blame EXCEPT !.strayed = @ \/ IsMerging]
  /\ UNCHANGED <<queue, queued, merge, branch, merged, landed>>

(* A restart forgets the queue and leaves the repository as it is. *)
ForgetQueue ==
  /\ queue' = <<>>
  /\ merge' = NotMerging
  /\ Blame("crashed")
  /\ UNCHANGED <<queued, head, refs, branch, merged, landed>>

MergeInit ==
  /\ queue = <<>> /\ queued = {}
  /\ merge = NotMerging
  /\ head = "master"
  /\ refs = [b \in Local |-> Root]
  /\ branch = [e \in Items |-> NoBranch]
  /\ merged = {} /\ landed = Root
  /\ blame = [strayed |-> FALSE, faults |-> FALSE, crashed |-> FALSE,
              early |-> FALSE]
-----------------------------------------------------------------------------
(* Undoing a merge does not affect the tasks that were completed before it:
   their work stays on master, whatever happens to the merge of another. *)
LandedStays ==
  [][\A e \in Work(landed) \cap Work(refs["master"]) :
       Merging(e) \/ e \in Work(refs'["master"])]_mergeVars

(* What was on master when a merge had last passed its tests stays in the
   history of master, as long as no git command fails and HEAD is on master
   from the beginning of every merge to its end: also after an undone merge
   that had nothing new, or one of an item that was merged before. *)
UndoneAlone ==
  ~blame.faults /\ ~blame.strayed => IsPrefix(landed, refs["master"])

(* Outside of its own merge, no execution's work is on master that has not
   passed the regression tests there, unless a command of the undo or the log
   failed, HEAD strayed, the server was restarted in the middle, or a worktree
   was cut from master during a merge and carries its work. *)
OnlyTestedLands ==
  ~blame.faults /\ ~blame.strayed /\ ~blame.crashed /\ ~blame.early =>
    \A e \in Work(refs["master"]) : Merging(e) \/ e \in merged

(* process_next() always gives the queue back, whatever fails on the way. *)
MergeEnds == IsMerging ~> ~IsMerging
=============================================================================
