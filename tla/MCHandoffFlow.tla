--------------------------- MODULE MCHandoffFlow ---------------------------
(* HandoffFlow on a small instance.                                        *)
EXTENDS HandoffFlow, TLC

MCTaskMoves == {<<"supervisor", "running">>}

MCAdminMoves == {<<"registered", "available">>, <<"busy", "registered">>}

(* Registration is exercised by MCControlPlane; here the executors are     *)
(* registered before the first call.                                       *)
MCInit ==
  /\ task \in [Tasks -> [status : SeedStates, version : {1}]]
  /\ asg = [a \in Assignments |-> Unused]
  /\ worker = [w \in Workers |-> "registered"]
  /\ call = [c \in Callers |-> Idle]
  /\ result = [a \in Assignments |-> NoResult]
  /\ review = [a \in Assignments |-> NoReview]
  /\ latest = [t \in Tasks |-> Nobody]
  /\ handoff = [h \in Handoffs |-> NoHandoff]

MCSpec == MCInit /\ [][HandoffNext]_hvars

(* Bound: the reviews followed are those that send the task back to rework *)
(* and so lead to a handoff; MCReviewFlow follows the others.              *)
ReworkOnly == \A a \in Assignments :
  result[a].tests # "failed" /\ review[a].decision \in {"none", "REVIEWING", "REWORK"}

Symmetry == Permutations(Workers) \cup Permutations(Assignments) \cup
            Permutations(Callers) \cup Permutations(Handoffs)
=============================================================================
