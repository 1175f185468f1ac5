----------------------------- MODULE MCRunLoop -----------------------------
(***************************************************************************)
(* Two projects under the one controller: an ordinary one with two tasks,  *)
(* the second behind the first, which it names by a title that a task of   *)
(* the other project has too, and a high-risk one with one task.           *)
(***************************************************************************)
EXTENDS RunLoop

MCTasks == 1 .. 3
MCProjects == {"shop", "bank"}
MCProjectOf == [t \in MCTasks |-> IF t = 3 THEN "bank" ELSE "shop"]
MCHighRisk == {"bank"}
MCTitle == [t \in MCTasks |-> IF t = 2 THEN "basket" ELSE "shelf"]
MCDependsOn == [t \in MCTasks |-> IF t = 2 THEN {[by |-> "title", title |-> "shelf"]} ELSE {}]
MCScopes == {{1}, {3}}

(* One project alone. *)
ShopTasks == 1 .. 2
Shop == {"shop"}
ShopOf == [t \in ShopTasks |-> "shop"]
ShopTitle == [t \in ShopTasks |-> MCTitle[t]]
ShopDependsOn == [t \in ShopTasks |-> MCDependsOn[t]]
ShopScopes == {{1}}
NoRisk == {}
=============================================================================
