------------------------ MODULE ExclusiveLocks_proofs ------------------------
(***************************************************************************)
(* What ExclusiveLocks is good for, proved for every set of resources and  *)
(* of owners.  ParallelExecution implements ExclusiveLocks, so what holds  *)
(* of its owners holds of the rows of executor_resource_locks.             *)
(***************************************************************************)
EXTENDS ExclusiveLocks, TLAPS

LocksTyped ==
  /\ owners \in [Resources -> SUBSET Owners]
  /\ working \subseteq Owners
  /\ late \subseteq {r \in Resources : owners[r] # {}}
  /\ OneOwner

(* Every step keeps the types and the single owner. *)
LEMMA TypedStep ==
  ASSUME LocksTyped, [ANext]_avars
  PROVE  LocksTyped'
<1> USE DEF LocksTyped, OneOwner
<1>1. CASE Work
  BY <1>1 DEF Work
<1>2. ASSUME NEW S \in SUBSET Resources, NEW to \in [S -> Owners], Grant(S, to)
      PROVE  LocksTyped'
  BY <1>2 DEF Grant
<1>3. ASSUME NEW r \in Resources, NEW o \in Owners, TakeOver(r, o)
      PROVE  LocksTyped'
  BY <1>3 DEF TakeOver
<1>4. ASSUME NEW S \in SUBSET Resources, Release(S)
      PROVE  LocksTyped'
  BY <1>4 DEF Release
<1>5. ASSUME NEW S \in SUBSET Resources, Hear(S)
      PROVE  LocksTyped'
  BY <1>5 DEF Hear
<1>6. ASSUME NEW r \in Resources, FallSilent(r)
      PROVE  LocksTyped'
  BY <1>6 DEF FallSilent
<1>7. CASE UNCHANGED avars
  BY <1>7 DEF avars
<1> QED
  BY <1>1, <1>2, <1>3, <1>4, <1>5, <1>6, <1>7 DEF ANext

(* Only a resource that somebody owns can be late, and nothing has two
   owners. *)
THEOREM LocksStayTyped == ASpec => []LocksTyped
<1>1. AInit => LocksTyped
  BY DEF AInit, LocksTyped, OneOwner
<1>2. LocksTyped /\ [ANext]_avars => LocksTyped'
  BY TypedStep
<1> QED
  BY <1>1, <1>2, PTL DEF ASpec

(* No lock has two owners. *)
THEOREM LocksExclusive == ASpec => []OneOwner
<1>1. LocksTyped => OneOwner
  BY DEF LocksTyped
<1> QED
  BY <1>1, LocksStayTyped, PTL

(* No step takes a resource from an owner at work that has been heard of:
   neither another's grant or takeover, nor a sweep. *)
LEMMA OwnerKept ==
  ASSUME LocksTyped, [ANext]_avars,
         NEW r \in Resources, NEW o \in owners[r] \cap working, o \notin owners'[r]
  PROVE  r \in late
<1>1. ASSUME NEW S \in SUBSET Resources, NEW to \in [S -> Owners], Grant(S, to)
      PROVE  r \in late
  BY <1>1 DEF Grant, Free
<1>2. ASSUME NEW q \in Resources, NEW n \in Owners, TakeOver(q, n)
      PROVE  r \in late
  BY <1>2 DEF TakeOver, LocksTyped
<1>3. ASSUME NEW S \in SUBSET Resources, Release(S)
      PROVE  r \in late
  BY <1>3 DEF Release
<1>4. UNCHANGED owners => r \in late
  OBVIOUS
<1> QED
  BY <1>1, <1>2, <1>3, <1>4 DEF ANext, avars, Work, Hear, FallSilent

(* A worker keeps the files it works on, unless it falls silent. *)
THEOREM OwnersKeep == ASpec => OwnedWhileWorking
<1>1. LocksTyped /\ [ANext]_avars =>
        [\A r \in Resources : \A o \in owners[r] \cap working :
           o \notin owners'[r] => r \in late]_avars
  BY OwnerKept
<1> QED
  BY <1>1, LocksStayTyped, PTL DEF ASpec, OwnedWhileWorking
=============================================================================
