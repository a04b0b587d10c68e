---------------------------- MODULE MCBridgeRetry ----------------------------
(* BridgeRetry for TLC: one tool use, sent at most twice, on the session of  *)
(* the bridge.                                                               *)
EXTENDS BridgeRetry, TLC

CONSTANTS c1, c2, u1, s1

OneUse == [c \in Calls |-> u1]
OneSession == [c \in Calls |-> s1]
TwoAttempts == u1 :> <<c1, c2>>
=============================================================================
