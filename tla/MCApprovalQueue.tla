---------------------------- MODULE MCApprovalQueue ----------------------------
(* ApprovalQueue for TLC: two requests. *)
EXTENDS ApprovalQueue, TLC

CONSTANTS r1, r2

TwoRequests == {r1, r2}
=============================================================================
