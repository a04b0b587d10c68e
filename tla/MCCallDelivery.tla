---------------------------- MODULE MCCallDelivery ----------------------------
(* CallDelivery for TLC: one tool use, sent twice on one session and once on *)
(* another of the same agent.                                                *)
EXTENDS CallDelivery, TLC

CONSTANTS c1, c2, c3, u1, s1, s2

OneUse == [c \in Calls |-> u1]
TwoSessions == [c \in Calls |-> IF c = c3 THEN s2 ELSE s1]
=============================================================================
