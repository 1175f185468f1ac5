--------------------------- MODULE MCAgentRuntime ---------------------------
(***************************************************************************)
(* Two processes of one worker, one task, a server that serves two         *)
(* requests at once, and a supervisor with one cycle key.                  *)
(***************************************************************************)
EXTENDS AgentRuntime, TLC

CONSTANTS t1, w1, a1, a2, h1, h2, s1, p1, p2, k1

MCTaskMoves == {<<"supervisor", "running">>}
MCAdminMoves == {<<"registered", "available">>}
MCSymmetry == Permutations({h1, h2}) \cup Permutations({p1, p2}) \cup Permutations({a1, a2})
=============================================================================
