----------------------------- MODULE MCPlanning -----------------------------
(***************************************************************************)
(* Two tasks whose text may come to name what is forbidden.  The plan of   *)
(* the second names something of medium risk, so its approval wants to be  *)
(* acknowledged.                                                           *)
(***************************************************************************)
EXTENDS Planning, TLC

CONSTANTS a, b

MCTasks == 1 .. 2
MCTexts == {{}, {"blocked"}}
MCFirstText == [t \in MCTasks |-> {}]
MCPlanWords == <<{}, {"medium"}>>
MCDeclared == [t \in MCTasks |-> "LOW"]
MCThreads == {a, b}

(* Bound: nobody begins to make a plan that could not be stored. *)
Making(h) == at[h].op \in {"looked", "asked", "planned", "invalidated", "manual"}
NoThirdPlan == Cardinality(Used) + Cardinality({h \in Threads : Making(h)}) <= MaxPreviews

MCSymmetry == Permutations(MCThreads)
=============================================================================
