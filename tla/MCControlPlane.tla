--------------------------- MODULE MCControlPlane ---------------------------
(* ControlPlane on a small instance.                                       *)
EXTENDS ControlPlane, TLC

MCTaskMoves == {<<"supervisor", "running">>, <<"supervisor", "queued">>,
                <<"user", "cancelled">>}

MCAdminMoves == {<<"registered", "available">>, <<"busy", "registered">>,
                 <<"busy", "offline">>}

Symmetry == Permutations(Tasks) \cup Permutations(Workers) \cup
            Permutations(Assignments) \cup Permutations(Callers)
=============================================================================
