---------------------------- MODULE MCPoolMembers ----------------------------
(* PoolMembers for TLC: two pool sessions of one agent, each with one call    *)
(* and one request of its own, and two sessions of the server.                *)
EXTENDS PoolMembers

CONSTANTS p1, p2, a
==============================================================================
