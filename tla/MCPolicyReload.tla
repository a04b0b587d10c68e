---------------------------- MODULE MCPolicyReload ----------------------------
(* PolicyReload for TLC: two edits by two writers, beside a lock that a dead *)
(* writer may have left, and one change by hand, under one running proxy.    *)
EXTENDS PolicyReload

CONSTANTS e1, e2
=============================================================================
