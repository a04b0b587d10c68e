---------------------------- MODULE MCApprovalGate ----------------------------
(* ApprovalGate for TLC: one call, or three that the gate cannot tell apart  *)
(* because they reuse one id.                                                *)
EXTENDS ApprovalGate, TLC

CONSTANTS c1, c2, c3, i1, i2

OneCall == {c1}
ThreeCalls == {c1, c2, c3}

FirstId == [c \in Requests |-> i1]

CallSymmetry == Permutations(Requests)
=============================================================================
