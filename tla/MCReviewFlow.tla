---------------------------- MODULE MCReviewFlow ----------------------------
(* ReviewFlow on a small instance.                                         *)
EXTENDS ReviewFlow, TLC

MCTaskMoves == {<<"supervisor", "running">>, <<"supervisor", "queued">>,
                <<"supervisor", "approved">>, <<"user", "approved">>,
                <<"user", "cancelled">>}

MCAdminMoves == {<<"registered", "available">>}

Symmetry == Permutations(Assignments) \cup Permutations(Callers) \cup
            Permutations(Reviewers)
=============================================================================
