------------------------------ MODULE Mishaps ------------------------------
(***************************************************************************)
(* The bound on everything that may go wrong in one behaviour: clocks that *)
(* run out, commands and transactions that fail, restarts.  Each action of *)
(* that kind is conjoined with Mishap, every other one leaves the count.   *)
(***************************************************************************)
EXTENDS Naturals

CONSTANT MaxMishaps

ASSUME MaxMishapsAssumption == MaxMishaps \in Nat

VARIABLE mishaps  \* how much has gone wrong so far

Mishap ==
  /\ mishaps < MaxMishaps
  /\ mishaps' = mishaps + 1
=============================================================================
