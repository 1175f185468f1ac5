--------------------------- MODULE ExclusiveLocks ---------------------------
(***************************************************************************)
(* What the resource locks promise, without tables, transactions and       *)
(* tokens: a resource has one owner at most; several are taken in one      *)
(* step or not at all; and an owner that is at work loses one only when    *)
(* it has fallen silent.                                                   *)
(***************************************************************************)
CONSTANTS
  Resources,
  Owners

VARIABLES
  owners,    \* owners[r]: who has r
  working,   \* the owners at work
  late       \* the resources whose owner has not been heard of in time

avars == <<owners, working, late>>

Free(r) == owners[r] = {} \/ r \in late

(* Every resource of the set S gets the one owner that to[r] names. *)
Grant(S, to) ==
  /\ S # {} /\ \A r \in S : Free(r)
  /\ owners' = [r \in Resources |-> IF r \in S THEN {to[r]} ELSE owners[r]]
  /\ late' = late \ S
  /\ UNCHANGED working

(* A lock that has lapsed stays so for the one who takes it over. *)
TakeOver(r, o) ==
  /\ r \in late
  /\ owners' = [owners EXCEPT ![r] = {o}]
  /\ late' \in {late, late \ {r}}
  /\ UNCHANGED working

(* Given back by an owner that has ended its work, or withdrawn. *)
Release(S) ==
  /\ \A r \in S : owners[r] \cap working = {} \/ r \in late
  /\ owners' = [r \in Resources |-> IF r \in S THEN {} ELSE owners[r]]
  /\ late' = late \ S
  /\ UNCHANGED working

(* An owner at work is heard of; a clock runs out. *)
Hear(S) == late' = late \ S /\ UNCHANGED <<owners, working>>

FallSilent(r) ==
  /\ owners[r] # {}
  /\ late' = late \cup {r}
  /\ UNCHANGED <<owners, working>>

Work == working' \in SUBSET Owners /\ UNCHANGED <<owners, late>>

AInit ==
  /\ owners = [r \in Resources |-> {}]
  /\ working = {}
  /\ late = {}

ANext ==
  \/ Work
  \/ \E S \in SUBSET Resources : \E to \in [S -> Owners] : Grant(S, to)
  \/ \E r \in Resources, o \in Owners : TakeOver(r, o)
  \/ \E S \in SUBSET Resources : Release(S) \/ Hear(S)
  \/ \E r \in Resources : FallSilent(r)

ASpec == AInit /\ [][ANext]_avars

(* What a user of the locks relies on: a resource has no second owner, and
   whoever works on it keeps it, unless it has fallen silent. *)
OneOwner == \A r \in Resources : \A o, p \in owners[r] : o = p

OwnedWhileWorking ==
  [][\A r \in Resources : \A o \in owners[r] \cap working :
       o \notin owners'[r] => r \in late]_avars
=============================================================================
