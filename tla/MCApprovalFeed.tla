---------------------------- MODULE MCApprovalFeed ----------------------------
(* ApprovalFeed for TLC: two requests and two overlapping ticks. *)
EXTENDS ApprovalFeed, TLC

CONSTANTS r1, r2, t1, t2

TwoRequests == {r1, r2}
=============================================================================
