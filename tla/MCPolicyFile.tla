----------------------------- MODULE MCPolicyFile -----------------------------
(* PolicyFile alone for TLC: two edits, and a lock a dead writer may have left. *)
EXTENDS PolicyFile

CONSTANTS e1, e2
=============================================================================
