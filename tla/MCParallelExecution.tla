------------------------ MODULE MCParallelExecution ------------------------
(***************************************************************************)
(* Two files; the third task needs both and spells the first task's in     *)
(* another way, the fourth lists one file in two spellings, so that no     *)
(* group can claim it.                                                     *)
(***************************************************************************)
EXTENDS ParallelExecution

MCTasks == 1 .. 4
MCNames == {"a.py", "A.py", "b.py"}
MCResources == {"a", "b"}
MCNormal == [n \in MCNames |-> IF n = "b.py" THEN "b" ELSE "a"]
MCDeclares == [t \in MCTasks |-> CASE t = 1 -> {"a.py"} [] t = 2 -> {"b.py"} [] t = 3 -> {"A.py", "b.py"}
                               [] t = 4 -> {"a.py", "A.py"}]
MCItems == 1 .. 2

(* The first two tasks need one file each: what happens when the second is
   claimed first is the mirror image of what happens when the first is. *)
FirstOfTwins == exec[1] # 2
=============================================================================
